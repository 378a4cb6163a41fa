-------------------------- MODULE VerificationProofs --------------------------
(***************************************************************************)
(* For instances of any size: Verification is type correct, grades a       *)
(* report as the product behaved or blocks, measures whole stacks, leaves  *)
(* none running that nobody answers for, and writes down only verdicts     *)
(* that are earned and in scope.                                           *)
(***************************************************************************)
EXTENDS Verification, SequenceTheorems, TLAPS

-----------------------------------------------------------------------------
(* Types: those of TypeOK, and of what it leaves to the other parts. *)

\* What a replay of a product that works, or does not, hands back.
Handed(works) == UNION {{ReportOf(wrong)} \union Damaged(wrong) : wrong \in Wrong(works)}

\* What it hands back of an answer that was an error.
Garbled(works) == UNION {Misread(wrong) : wrong \in Wrong(works)}

Reported == {Folded(<<>>)} \union UNION {Handed(works) \union Garbled(works) : works \in BOOLEAN}

Verdicts == {"passed", "failed", "blocked"}

Job == [stage : {"none", "preview", "post_merge"}, commit : Commit \union {NoCommit},
        wanted : Landed \union {NoCommit}, measured : Measured \union {Unmeasured},
        report : Reported, verdict : Verdicts, built : BOOLEAN, keep : BOOLEAN]

Stack == [tree : {"absent", "whole"}, up : BOOLEAN, data : {"none", "fresh", "inherited"},
          portal : BOOLEAN]

Labels == {"off", "idle"} \union Working

PullTyped ==
    /\ pull \in [state : {"open", "closed", "merged"}, head : Pushed,
                 merge : Landed \union {NoCommit}, ours : BOOLEAN]
    /\ repair \in [state : {"working", "candidate", "awaiting_merge", "attention",
                            "refused", "merged"},
                   head : Pushed]
    /\ been \in [Pushed -> Nat]

HostTyped ==
    /\ host \in [Commit -> Stack]
    /\ \A c \in Commit : /\ host[c].up => host[c].data # "none"
                         /\ host[c].portal => host[c].up

RowsTyped ==
    verdicts \subseteq [stage : {"preview", "post_merge"}, commit : Commit \union {NoCommit},
                        verdict : Verdicts]

HandsTyped ==
    /\ lock \in Coordinators \union {Nobody}
    /\ pc \in [Coordinators -> Labels]
    /\ job \in [Coordinators -> Job]

CountsTyped ==
    /\ orphaned \subseteq Commit /\ misread \subseteq Commit
    /\ moves \in 0..MaxMoves /\ crashes \in 0..MaxCrashes /\ errors \in 0..MaxErrors

Types == PullTyped /\ HostTyped /\ RowsTyped /\ HandsTyped /\ CountsTyped

-----------------------------------------------------------------------------
(* What holds of an attempt j whose coordinator is at l. *)

\* Before the stack there is a commit, and none is built yet.
Before == {"listing", "checkout", "starting"}

\* Where the attempt has its stack.
Holding == {"measured", "replaying", "rechecking", "retaining", "tearing"}

\* The attempt is the one the repair's state asks for, and as far as l says.
Fitting(j, l) ==
    /\ l \notin Working => j = NoJob
    /\ l = "reading" => j.commit = NoCommit
    /\ l \in {"reading"} \union Before => ~j.built /\ ~j.keep /\ j.verdict = "blocked"
    /\ l \in Before \union Holding => j.commit \in Commit
    /\ l \in {"measured", "replaying"} => j.measured \in Measured
    /\ l \in Holding => j.built
    /\ l \in Holding \ {"retaining"} => ~j.keep
    /\ l = "telling" => ~j.built
    /\ j.built => j.commit \in Commit
    /\ l \in Working =>
          \/ j.stage = "preview" /\ repair.state = "candidate"
          \/ j.stage = "post_merge" /\ repair.state = "awaiting_merge"

Row(j) == [stage |-> j.stage, commit |-> j.commit, verdict |-> j.verdict]

\* A stack is retained only for a merged commit that passed.
Keeping(j, l) ==
    j.keep =>
        /\ RetainMerged
        /\ j.stage = "post_merge"
        /\ j.commit \in Commit
        /\ \/ j.commit \in orphaned
           \/ /\ j.verdict = "passed"
              /\ l \in {"retaining", "recording", "recorded", "telling"}
              /\ l \in {"recorded", "telling"} => Row(j) \in verdicts

\* Nothing is left of any stack of the commit, or an attempt lost hold of it.
Clear(c) == c \in orphaned \/ host[c].data = "none"

\* Where no stack is built there is none, but one that was retained.
Letting(j, l) ==
    l \in Working /\ j.commit \in Commit /\ ~j.built
        => Clear(j.commit) \/ (j.keep /\ l = "telling")

\* Nobody touches the stack that is built, measured or replayed.
Living(j, l) ==
    /\ l = "starting" => host[j.commit].tree = "whole"
    /\ l \in {"measured", "replaying", "rechecking", "retaining"} =>
          host[j.commit].tree = "whole" /\ host[j.commit].up

\* A verdict on a commit that is not in doubt says what it does.
Just(commit, verdict) ==
    /\ verdict = "passed" /\ commit \notin Doubted => commit.tree \in Works
    /\ verdict = "failed" /\ commit \notin Doubted \union misread => commit.tree \notin Works

\* The replay ran on fresh data and on what the commit names, and what was
\* graded on an error is known for it.
Earning(j, l) ==
    /\ l \in {"measured", "replaying"} =>
          j.commit \in orphaned \/ host[j.commit].data = "fresh"
    /\ l = "replaying" => ~ProvenanceProblem(j.measured, j.commit)
    /\ l = "rechecking" =>
          \E works \in BOOLEAN :
              /\ \/ j.report \in Handed(works)
                 \/ j.report \in Garbled(works) /\ j.commit \in misread
              /\ j.commit \notin orphaned => works = (j.commit.tree \in Works)
    /\ Just(j.commit, j.verdict)

\* A commit the branch was put at once is in scope.
InScope(c) == been[c] = 1 => check_scope(AllOf(c.tree), Family)

\* Where the files of the candidate were listed.
Listed == {"checkout", "starting", "measured", "replaying", "rechecking"}

\* The files that were listed are the commit's, if it is still the head and
\* the branch was never elsewhere; and if it is not the repair's, the branch
\* has left that one.
Scoping(j, l) ==
    /\ j.stage = "preview" /\ j.commit \in Commit =>
          /\ j.commit \in Pushed
          /\ been[j.commit] >= 1
          /\ j.commit # repair.head /\ been[repair.head] = 1 => pull.head # repair.head
          /\ l \in Listed /\ pull.head = j.commit => InScope(j.commit)
    /\ j.verdict = "passed" =>
          /\ j.commit \in Commit
          /\ j.stage = "preview" => InScope(j.commit)

\* A merged commit is graded for the merge of the head that was previewed.
Merging(j) ==
    j.stage = "post_merge" =>
        /\ pull.state = "merged" /\ pull.head = repair.head
        /\ pull.merge = j.wanted
        /\ j.commit \in Commit => j.commit = j.wanted /\ j.wanted.tree = repair.head.tree

Sane(j, l) ==
    /\ Fitting(j, l) /\ Keeping(j, l) /\ Letting(j, l) /\ Living(j, l)
    /\ Earning(j, l) /\ Scoping(j, l) /\ Merging(j)

-----------------------------------------------------------------------------
(* The invariant. *)

Alone == \A p \in Coordinators : pc[p] # "off" => lock = p

Kept(c) ==
    /\ RetainMerged
    /\ [stage |-> "post_merge", commit |-> c, verdict |-> "passed"] \in verdicts
    /\ repair.state = "merged"

\* Whatever stack there is has an attempt, or was retained or lost.
Stacks ==
    \A c \in Commit :
        \/ Clear(c) \/ Kept(c)
        \/ \E p \in Coordinators : pc[p] \in Working /\ job[p].commit = c

Rows ==
    \A v \in verdicts :
        /\ Just(v.commit, v.verdict)
        /\ v.stage = "preview" /\ v.verdict = "passed" =>
              v.commit \in Pushed /\ been[v.commit] >= 1 /\ InScope(v.commit)

\* What was accepted is the content that was previewed, and in scope.
Heads ==
    /\ been[pull.head] >= 1 /\ been[repair.head] >= 1
    /\ pull.state = "merged" => pull.merge \in Landed
    /\ repair.state = "awaiting_merge" /\ pull.head = repair.head => InScope(repair.head)
    /\ repair.state = "merged" =>
          /\ pull.state = "merged" /\ pull.head = repair.head
          /\ pull.merge.tree = repair.head.tree
          /\ InScope(repair.head)

IInv ==
    /\ Types /\ Alone
    /\ \A p \in Coordinators : Sane(job[p], pc[p])
    /\ Stacks /\ Rows /\ Heads

-----------------------------------------------------------------------------
(* Facts about the constants. *)

LEMMA Bounds ==
    /\ MaxMoves \in Nat /\ MaxCrashes \in Nat /\ MaxErrors \in Nat
    /\ Nobody \notin Coordinators
    /\ NoCommit \notin Commit
    /\ Pushed \subseteq Commit /\ Landed \subseteq Commit /\ Pushed \cap Landed = {}
  BY BoundsAreNumbers, NobodyIsNone DEF NoCommit, Commit, Pushed, Landed

LEMMA NoJobTyped == NoJob \in Job /\ Folded(<<>>) \in Reported /\ Empty \in Stack
  BY DEF NoJob, Job, Reported, Verdicts, Empty, Stack

\* What measure() finds, with nothing wrong or one thing, is a measurement.
LEMMA Sounds ==
    \A c \in Commit : Sound(c) \in Measured /\ Flawed(c) \subseteq Measured
  <1> SUFFICES ASSUME NEW c \in Commit
               PROVE  Sound(c) \in Measured /\ Flawed(c) \subseteq Measured
    OBVIOUS
  <1> DEFINE it == Sound(c).web
             wrong == {[it EXCEPT !.running = FALSE]}
                      \union {[it EXCEPT !.mount = other] : other \in Pushed \ {c}}
                      \union {[it EXCEPT !.tree = other] : other \in Trees \ {c.tree}}
             bundles == IF Family \in ASSET_BUILT_FAMILIES THEN Trees \ {c.tree} ELSE {}
  <1>1. Sound(c) \in Measured
    BY DEF Sound, Measured, Service, Commit
  <1>2. it \in Service
    BY <1>1 DEF Measured
  <1>3. wrong \subseteq Service
    BY <1>2 DEF Service, Pushed
  <1>4. \A s \in Service : /\ [Sound(c) EXCEPT !.web = s] \in Measured
                           /\ [Sound(c) EXCEPT !.mcp = s] \in Measured
    BY <1>1 DEF Measured
  <1>5. /\ [Sound(c) EXCEPT !.clean = FALSE] \in Measured
        /\ [Sound(c) EXCEPT !.fixture = FALSE] \in Measured
        /\ \A other \in bundles : [Sound(c) EXCEPT !.bundle = other] \in Measured
    BY <1>1 DEF Measured
  <1>6. Flawed(c) = {[Sound(c) EXCEPT !.web = s] : s \in wrong}
                    \union {[Sound(c) EXCEPT !.mcp = s] : s \in wrong}
                    \union {[Sound(c) EXCEPT !.clean = FALSE], [Sound(c) EXCEPT !.fixture = FALSE]}
                    \union {[Sound(c) EXCEPT !.bundle = other] : other \in bundles}
    BY DEF Flawed
  <1> HIDE DEF wrong, bundles
  <1> QED BY <1>1, <1>3, <1>4, <1>5, <1>6

-----------------------------------------------------------------------------
(* Whatever a replay hands back, whole or damaged, is graded as the        *)
(* product behaved, or blocked.                                            *)

\* The cases of a family are registered, and each has two checks or more.
LEMMA CasesRegistered ==
    \/ cases = <<>>
    \/ \E n \in 1..2 : DOMAIN cases = 1..n /\ \A i \in 1..n : cases[i] \in Cases
  <1>1. Cases = {"S2", "S1", "B1", "N1"}
    BY DEF Cases, REQUIRED_CHECKS
  <1>2. cases \in {<<>>, <<"S2", "N1">>, <<"S1", "N1">>, <<"B1">>}
    BY DEF cases, CASES_BY_FAMILY
  <1>3. CASE cases = <<"S2", "N1">> \/ cases = <<"S1", "N1">>
    <2>1. DOMAIN cases = 1..2 /\ \A i \in 1..2 : cases[i] \in Cases
      BY <1>1, <1>3
    <2> QED BY <2>1
  <1>4. CASE cases = <<"B1">>
    <2>1. DOMAIN cases = 1..1 /\ \A i \in 1..1 : cases[i] \in Cases
      BY <1>1, <1>4
    <2> QED BY <2>1
  <1> QED BY <1>2, <1>3, <1>4

LEMMA ChecksRegistered ==
    ASSUME NEW c \in Cases
    PROVE  \E n \in Nat : /\ n >= 2 /\ DOMAIN REQUIRED_CHECKS[c] = 1..n
                          /\ \A k \in 2..n : REQUIRED_CHECKS[c][k] # REQUIRED_CHECKS[c][1]
  <1>1. c \in {"S2", "S1", "B1", "N1"}
    BY DEF Cases, REQUIRED_CHECKS
  <1>2. CASE c = "S2"
    <2>1. /\ DOMAIN REQUIRED_CHECKS[c] = 1..7
          /\ \A k \in 2..7 : REQUIRED_CHECKS[c][k] # REQUIRED_CHECKS[c][1]
      BY <1>2 DEF REQUIRED_CHECKS
    <2> QED BY <2>1
  <1>3. CASE c = "S1"
    <2>1. /\ DOMAIN REQUIRED_CHECKS[c] = 1..6
          /\ \A k \in 2..6 : REQUIRED_CHECKS[c][k] # REQUIRED_CHECKS[c][1]
      BY <1>3 DEF REQUIRED_CHECKS
    <2> QED BY <2>1
  <1>4. CASE c = "B1"
    <2>1. /\ DOMAIN REQUIRED_CHECKS[c] = 1..7
          /\ \A k \in 2..7 : REQUIRED_CHECKS[c][k] # REQUIRED_CHECKS[c][1]
      BY <1>4 DEF REQUIRED_CHECKS
    <2> QED BY <2>1
  <1>5. CASE c = "N1"
    <2>1. /\ DOMAIN REQUIRED_CHECKS[c] = 1..3
          /\ \A k \in 2..3 : REQUIRED_CHECKS[c][k] # REQUIRED_CHECKS[c][1]
      BY <1>5 DEF REQUIRED_CHECKS
    <2> QED BY <2>1
  <1> QED BY <1>1, <1>2, <1>3, <1>4, <1>5

\* The claim of a report never makes more of it than its checks do.
LEMMA SettledIsGraded ==
    ASSUME NEW report
    PROVE  /\ Settled(report, cases) \in {grade(report, cases), "blocked"}
           /\ grade(report, cases) \in Verdicts
  BY DEF Settled, grade, Verdicts

LEMMA FailedIsShown ==
    ASSUME NEW report, grade(report, cases) = "failed"
    PROVE  \E i \in DOMAIN report.cases : Failing(report.cases[i].checks) # {}
  BY DEF grade

LEMMA PassedIsShown ==
    ASSUME NEW report, grade(report, cases) = "passed"
    PROVE  \A i \in DOMAIN report.cases :
              /\ Failing(report.cases[i].checks) = {}
              /\ report.cases[i].verdict # "blocked"
  BY DEF grade

\* A family without cases has nothing that could pass, or fail.
LEMMA NothingAsked ==
    ASSUME cases = <<>>, NEW report, report.cases = <<>> \/ DOMAIN report.cases # {}
    PROVE  grade(report, cases) = "blocked"
  <1>1. CASE report.cases = <<>>
    BY <1>1 DEF grade
  <1>2. CASE DOMAIN report.cases # {}
    <2> DEFINE names == [i \in DOMAIN report.cases |-> report.cases[i].case]
    <2>1. PICK i \in DOMAIN report.cases : TRUE
      BY <1>2
    <2>2. names[i] \in ToSet(names)
      BY <2>1 DEF ToSet
    <2>3. ToSet(cases) = {}
      BY DEF ToSet
    <2>4. ToSet(names) # ToSet(cases)
      BY <2>2, <2>3
    <2> QED BY <2>4 DEF grade
  <1> QED BY <1>1, <1>2

\* A case that ran shows what is wrong with the checks it makes.
LEMMA RanShows ==
    ASSUME NEW c \in Cases, NEW wrong
    PROVE  /\ Ran(c, wrong).case = c
           /\ Failing(Ran(c, wrong).checks) = {}
                 <=> wrong \intersect ToSet(REQUIRED_CHECKS[c]) = {}
  <1> DEFINE names  == REQUIRED_CHECKS[c]
             checks == [k \in DOMAIN names |-> Check(names[k], "target", names[k] \notin wrong)]
  <1>1. Ran(c, wrong).checks = checks /\ Ran(c, wrong).case = c
    BY DEF Ran, Result
  <1>2. \A k \in DOMAIN names : /\ checks[k].kind = "target"
                                /\ checks[k].holds = (names[k] \notin wrong)
    BY DEF Check
  <1>3. DOMAIN checks = DOMAIN names
    OBVIOUS
  <1> HIDE DEF checks
  <1>4. Failing(checks) = {k \in DOMAIN names : names[k] \in wrong}
    BY <1>2, <1>3 DEF Failing, Graded, GRADED_KINDS
  <1> QED BY <1>1, <1>4 DEF ToSet

\* A case that made all checks but its first does not answer.
LEMMA PartAnswersNot ==
    ASSUME NEW c \in Cases, NEW wrong
    PROVE  ~Answers([Ran(c, wrong) EXCEPT !.checks = Tail(@)])
  <1> DEFINE names  == REQUIRED_CHECKS[c]
             checks == [k \in DOMAIN names |-> Check(names[k], "target", names[k] \notin wrong)]
             S      == {checks[k] : k \in DOMAIN names}
             part   == [Ran(c, wrong) EXCEPT !.checks = Tail(@)]
  <1>1. PICK n \in Nat : /\ n >= 2 /\ DOMAIN names = 1..n
                         /\ \A k \in 2..n : names[k] # names[1]
    BY ChecksRegistered
  <1>2. part.checks = Tail(checks) /\ part.case = c
    BY DEF Ran, Result
  <1>3. \A k \in 1..n : checks[k].name = names[k]
    BY <1>1 DEF Check
  <1>4. checks \in [1..n -> S]
    BY <1>1
  <1> HIDE DEF checks, S, part
  <1>5. checks \in Seq(S) /\ Len(checks) = n /\ checks # <<>>
    BY <1>1, <1>4
  <1>6. /\ Tail(checks) \in Seq(S) /\ Len(Tail(checks)) = n - 1
        /\ \A k \in 1..(n - 1) : Tail(checks)[k] = checks[k + 1]
    BY <1>5, HeadTailProperties
  <1>7. DOMAIN part.checks = 1..(n - 1)
    BY <1>2, <1>6
  <1>8. ASSUME NEW k \in 1..(n - 1)
        PROVE  part.checks[k].name # names[1]
    <2>1. k + 1 \in 1..n /\ k + 1 \in 2..n
      BY <1>1
    <2> QED BY <1>1, <1>2, <1>3, <1>6, <2>1
  <1>9. Graded(part.checks) \subseteq 1..(n - 1)
    BY <1>7 DEF Graded
  <1> DEFINE said == [k \in Graded(part.checks) |-> part.checks[k].name]
  <1>10. names[1] \notin {said[k] : k \in DOMAIN said}
    BY <1>8, <1>9
  <1>11. names[1] \in ToSet(names)
    BY <1>1 DEF ToSet
  <1>12. {said[k] : k \in DOMAIN said} # ToSet(names)
    BY <1>10, <1>11
  <1> HIDE DEF said
  <1>13. ~Answers(part)
    BY <1>2, <1>12 DEF Answers, said
  <1> QED BY <1>13 DEF part

\* The reports of cases that all ran, and those that are damaged.
LEMMA ReportShows ==
    ASSUME NEW wrong, NEW report, report.cases = ReportOf(wrong).cases
    PROVE  /\ grade(report, cases) = "failed" =>
                 \E i \in DOMAIN cases : wrong \intersect ToSet(REQUIRED_CHECKS[cases[i]]) # {}
           /\ grade(report, cases) = "passed" =>
                 \A i \in DOMAIN cases : wrong \intersect ToSet(REQUIRED_CHECKS[cases[i]]) = {}
  <1>1. report.cases = [i \in DOMAIN cases |-> Ran(cases[i], wrong)]
    BY DEF ReportOf, Folded
  <1>2. \A i \in DOMAIN cases : cases[i] \in Cases
    <2>1. CASE cases = <<>>
      BY <2>1
    <2> QED BY <2>1, CasesRegistered
  <1>3. \A i \in DOMAIN cases :
            Failing(report.cases[i].checks) = {}
                <=> wrong \intersect ToSet(REQUIRED_CHECKS[cases[i]]) = {}
    BY <1>1, <1>2, RanShows
  <1>4. DOMAIN report.cases = DOMAIN cases
    BY <1>1
  <1> QED BY <1>3, <1>4, FailedIsShown, PassedIsShown

\* A report that lost a part, or says one twice, is blocked.
LEMMA DamagedIsBlocked ==
    ASSUME NEW wrong, NEW report \in Damaged(wrong), report.cases # ReportOf(wrong).cases
    PROVE  grade(report, cases) = "blocked"
  <1> DEFINE whole == ReportOf(wrong).cases
             part  == [whole EXCEPT ![1].checks = Tail(@)]
             cut   == [whole EXCEPT ![1] = BlockedResult(cases[1], Tail(whole[1].checks))]
             twice == Append(whole, whole[1])
  <1>1. whole = [i \in DOMAIN cases |-> Ran(cases[i], wrong)]
    BY DEF ReportOf, Folded
  <1>2. report.cases \in {part, cut, twice}
    <2>1. \A results : Folded(results).cases = results
      BY DEF Folded
    <2>2. \A verdict : [ReportOf(wrong) EXCEPT !.verdict = verdict].cases = whole
      BY DEF ReportOf, Folded
    <2>3. /\ Damaged(wrong) = {Folded(cut), Folded(part), Folded(twice)} \union
                {[ReportOf(wrong) EXCEPT !.verdict = claim] : claim \in {"passed", "failed"}}
      BY DEF Damaged
    <2> HIDE DEF part, cut, twice
    <2> QED BY <2>1, <2>2, <2>3
  <1> HIDE DEF whole
  <1>3. CASE cases = <<>>
    <2>1. whole = <<>> /\ part = <<>> /\ cut = <<>>
      BY <1>1, <1>3
    <2>2. \A x : Append(<<>>, x) = <<x>>
      OBVIOUS
    <2>3. DOMAIN twice # {}
      <3>1. twice = <<whole[1]>>
        BY <2>1, <2>2
      <3> HIDE DEF twice
      <3> QED BY <3>1
    <2> HIDE DEF twice, part, cut
    <2> QED BY <1>2, <1>3, <2>1, <2>3, NothingAsked
  <1>4. CASE cases # <<>>
    <2>1. PICK n \in 1..2 : DOMAIN cases = 1..n /\ \A i \in 1..n : cases[i] \in Cases
      BY <1>4, CasesRegistered
    <2>2. 1 \in 1..n /\ 1 \in 1..(n + 1) /\ n + 1 \in 1..(n + 1) /\ n + 1 # 1
      BY <2>1
    <2>3. DOMAIN whole = 1..n /\ whole[1] = Ran(cases[1], wrong)
      BY <1>1, <2>1, <2>2
    <2>4. CASE report.cases = part
      <3>1. 1 \in DOMAIN part /\ part[1] = [Ran(cases[1], wrong) EXCEPT !.checks = Tail(@)]
        BY <2>2, <2>3
      <3> HIDE DEF part
      <3>2. ~Answers(part[1])
        BY <2>1, <2>2, <3>1, PartAnswersNot
      <3> QED BY <2>4, <3>1, <3>2 DEF grade
    <2>5. CASE report.cases = cut
      <3>1. 1 \in DOMAIN cut /\ cut[1].verdict = "blocked"
        BY <2>2, <2>3 DEF BlockedResult
      <3> HIDE DEF cut
      <3> QED BY <2>5, <3>1 DEF grade
    <2>6. CASE report.cases = twice
      <3> DEFINE S == {whole[i] : i \in 1..n}
                 names == [i \in DOMAIN twice |-> twice[i].case]
      <3>1. whole \in [1..n -> S]
        BY <1>1, <2>1, <2>3
      <3>2. whole \in Seq(S) /\ Len(whole) = n /\ whole[1] \in S
        BY <2>1, <2>2, <3>1
      <3> HIDE DEF S
      <3>3. DOMAIN twice = 1..(n + 1) /\ twice[n + 1] = whole[1] /\ twice[1] = whole[1]
        BY <2>1, <2>2, <3>2
      <3> HIDE DEF twice
      <3>4. names[1] = names[n + 1] /\ DOMAIN names = 1..(n + 1)
        BY <2>2, <3>3
      <3>5. ~IsInjective(names)
        BY <2>2, <3>4 DEF IsInjective
      <3> QED BY <2>6, <3>5 DEF grade
    <2> QED BY <1>2, <2>4, <2>5, <2>6
  <1> QED BY <1>3, <1>4

\* Whatever a replay hands back that was not graded on an error: it shows the
\* product, or is blocked.
LEMMA Grades ==
    \A works \in BOOLEAN : \A report \in Handed(works) :
        /\ report \in Reported
        /\ Settled(report, cases) \in {IF works THEN "passed" ELSE "failed", "blocked"}
        /\ Settled(report, cases) \in Verdicts
  <1> SUFFICES ASSUME NEW works \in BOOLEAN, NEW report \in Handed(works)
               PROVE  /\ report \in Reported
                      /\ grade(report, cases) # IF works THEN "failed" ELSE "passed"
    BY SettledIsGraded DEF Verdicts
  <1>1. report \in Reported
    BY DEF Reported
  <1>2. PICK wrong \in Wrong(works) : report \in {ReportOf(wrong)} \union Damaged(wrong)
    BY DEF Handed
  <1>3. CASE report.cases = ReportOf(wrong).cases
    <2>1. CASE works
      <3>1. wrong = {}
        BY <1>2, <2>1 DEF Wrong
      <3> QED BY <1>1, <1>3, <2>1, <3>1, ReportShows
    <2>2. CASE ~works
      <3>1. wrong \in Symptoms
        BY <1>2, <2>2 DEF Wrong
      <3> QED BY <1>1, <1>3, <2>2, <3>1, ReportShows, SymptomsShow
    <2> QED BY <2>1, <2>2
  <1>4. CASE report.cases # ReportOf(wrong).cases
    <2>1. report \in Damaged(wrong)
      BY <1>2, <1>4
    <2> QED BY <1>1, <1>4, <2>1, DamagedIsBlocked
  <1> QED BY <1>3, <1>4

\* What is graded on an error passes only a product that works, if no check
\* holds where nothing was shown.
LEMMA Garbles ==
    \A works \in BOOLEAN : \A report \in Garbled(works) :
        /\ report \in Reported
        /\ Settled(report, cases) \in Verdicts
        /\ Hidden = {} /\ ~works => Settled(report, cases) # "passed"
  <1> SUFFICES ASSUME NEW works \in BOOLEAN, NEW report \in Garbled(works)
               PROVE  /\ report \in Reported
                      /\ Hidden = {} /\ ~works => grade(report, cases) # "passed"
    BY SettledIsGraded DEF Verdicts
  <1>1. report \in Reported
    BY DEF Reported
  <1>2. ASSUME Hidden = {}, ~works
        PROVE  grade(report, cases) # "passed"
    <2>1. PICK wrong \in Symptoms : report \in Misread(wrong)
      BY <1>2 DEF Garbled, Wrong
    <2>2. PICK more : report = ReportOf(more) /\ wrong \subseteq more
      <3>1. wrong \ Hidden = wrong
        BY <1>2
      <3> QED BY <2>1, <3>1 DEF Misread
    <2> QED BY <2>2, ReportShows, SymptomsShow
  <1> QED BY <1>1, <1>2

-----------------------------------------------------------------------------
(* What the moves do to the attempt in p's hands, and to a stack. *)

\* The step is p's, and takes it to l.
Takes(p, l) ==
    /\ HandsTyped'
    /\ pc'[p] = l
    /\ \A q \in Coordinators \ {p} : pc'[q] = pc[q] /\ job'[q] = job[q]

\* Its attempt is for the same commit as before.
SameAttempt(p) ==
    /\ job'[p].stage = job[p].stage /\ job'[p].commit = job[p].commit
    /\ job'[p].wanted = job[p].wanted

LEMMA Going ==
    ASSUME HandsTyped, lock' = lock, NEW p \in Coordinators, NEW l \in Labels,
           Goto(p, l), Keeps(p)
    PROVE  Takes(p, l) /\ job'[p] = job[p]
  BY DEF HandsTyped, Goto, Keeps, Takes

LEMMA Deciding ==
    ASSUME HandsTyped, lock' = lock, NEW p \in Coordinators, NEW l \in Labels,
           NEW verdict \in Verdicts, NEW keep \in BOOLEAN, Decide(p, verdict, keep, l)
    PROVE  /\ Takes(p, l) /\ SameAttempt(p)
           /\ job'[p].verdict = verdict /\ job'[p].keep = (job[p].keep \/ keep)
           /\ job'[p].built = job[p].built
  <1> DEFINE j == [job[p] EXCEPT !.verdict = verdict, !.keep = job[p].keep \/ keep,
                                 !.measured = Unmeasured, !.report = Folded(<<>>)]
  <1>1. job[p] \in Job
    BY DEF HandsTyped
  <1>2. j \in Job /\ j.stage = job[p].stage /\ j.commit = job[p].commit
        /\ j.wanted = job[p].wanted /\ j.verdict = verdict
        /\ j.keep = (job[p].keep \/ keep) /\ j.built = job[p].built
    BY <1>1, NoJobTyped DEF Job
  <1>3. job' = [job EXCEPT ![p] = j] /\ pc' = [pc EXCEPT ![p] = l]
    BY DEF Decide, Goto, HandsTyped
  <1> HIDE DEF j
  <1> QED BY <1>2, <1>3 DEF HandsTyped, Takes, SameAttempt

LEMMA Blocking ==
    ASSUME HandsTyped, lock' = lock, NEW p \in Coordinators, Block(p)
    PROVE  /\ Takes(p, "recording") /\ SameAttempt(p)
           /\ job'[p].verdict = "blocked" /\ job'[p].keep = job[p].keep
           /\ job'[p].built = job[p].built
  <1>1. "recording" \in Labels /\ "blocked" \in Verdicts
    BY DEF Labels, Working, Verdicts
  <1>2. job[p].keep \in BOOLEAN
    BY DEF HandsTyped, Job
  <1> QED BY <1>1, <1>2, Deciding DEF Block

\* The step concerns the stack of one commit.
Touches(c) == HostTyped' /\ \A d \in Commit \ {c} : host'[d] = host[d]

LEMMA GoneTouches ==
    ASSUME HostTyped, NEW c \in Commit, Gone(c)
    PROVE  Touches(c) /\ host'[c].data = "none"
  BY NoJobTyped DEF HostTyped, Gone, Touches, Empty

LEMMA LeftTouches ==
    ASSUME HostTyped, orphaned \subseteq Commit, NEW c \in Commit, Left(c)
    PROVE  Touches(c) /\ orphaned' = orphaned \union {c} /\ orphaned' \subseteq Commit
  <1> PICK up \in BOOLEAN, portal \in BOOLEAN :
          host' = [host EXCEPT ![c] = [tree |-> "absent", up |-> up, data |-> "fresh",
                                       portal |-> up /\ portal /\ host[c].portal]]
    BY DEF Left
  <1> DEFINE s == [tree |-> "absent", up |-> up, data |-> "fresh",
                   portal |-> up /\ portal /\ host[c].portal]
  <1>1. s \in Stack /\ (s.portal => s.up) /\ s.data # "none"
    BY DEF Stack
  <1>2. host' = [host EXCEPT ![c] = s]
    OBVIOUS
  <1> HIDE DEF s
  <1> QED BY <1>1, <1>2 DEF HostTyped, Touches, Left

LEMMA UpTouches ==
    ASSUME HostTyped, NEW c \in Commit, Up(c)
    PROVE  /\ Touches(c) /\ host'[c].up /\ host'[c].tree = host[c].tree
           /\ host'[c].data = IF host[c].data = "none" THEN "fresh" ELSE "inherited"
  <1> DEFINE s == [host[c] EXCEPT !.up = TRUE,
                                  !.data = IF @ = "none" THEN "fresh" ELSE "inherited"]
  <1>1. host[c] \in Stack
    BY DEF HostTyped
  <1>2. s \in Stack /\ s.up /\ s.tree = host[c].tree
        /\ s.data = IF host[c].data = "none" THEN "fresh" ELSE "inherited"
    BY <1>1 DEF Stack
  <1>3. host' = [host EXCEPT ![c] = s]
    BY <1>1 DEF Up, HostTyped, Stack
  <1> HIDE DEF s
  <1> QED BY <1>2, <1>3 DEF HostTyped, Touches

LEMMA PortalTouches ==
    ASSUME HostTyped, NEW c \in Commit, host[c].up, NEW portal \in BOOLEAN,
           host' = [host EXCEPT ![c].portal = portal]
    PROVE  Touches(c)
  <1> DEFINE s == [host[c] EXCEPT !.portal = portal]
  <1>1. host[c] \in Stack /\ host[c].data # "none"
    BY DEF HostTyped
  <1>2. s \in Stack /\ s.up /\ s.data # "none"
    BY <1>1 DEF Stack
  <1>3. host' = [host EXCEPT ![c] = s]
    BY <1>1 DEF HostTyped, Stack
  <1> HIDE DEF s
  <1> QED BY <1>2, <1>3 DEF HostTyped, Touches

LEMMA TornTouches ==
    ASSUME HostTyped, orphaned \subseteq Commit, errors \in 0..MaxErrors,
           NEW p \in Coordinators, job[p].commit \in Commit, TornDown(p)
    PROVE  /\ Touches(job[p].commit) /\ orphaned \subseteq orphaned' /\ orphaned' \subseteq Commit
           /\ errors' \in 0..MaxErrors
           /\ host'[job[p].commit].data = "none" \/ job[p].commit \in orphaned'
           /\ orphaned' \subseteq orphaned \union {job[p].commit}
  <1>1. CASE Gone(job[p].commit) /\ UNCHANGED <<errors, orphaned>>
    BY <1>1, GoneTouches
  <1>2. CASE Fails /\ Left(job[p].commit)
    BY <1>2, LeftTouches, Bounds DEF Touches, Fails
  <1> QED BY <1>1, <1>2 DEF TornDown

-----------------------------------------------------------------------------
(* One coordinator works at a time. *)

LEMMA OthersOff ==
    ASSUME IInv, NEW p \in Coordinators, pc[p] # "off" \/ lock = Nobody
    PROVE  \A q \in Coordinators \ {p} : pc[q] = "off" /\ job[q] = NoJob
  BY Bounds DEF IInv, Alone, Sane, Fitting, Working

LEMMA OffIsSane == (Sane(NoJob, "off") /\ Sane(NoJob, "idle"))'
  BY Bounds DEF Sane, NoJob, Fitting, Keeping, Letting, Living, Earning, Just, Doubted,
         Scoping, Merging, Working, Before, Holding

\* What is left to show of a step of p: its own attempt, and what all share.
LEMMA OneWorks ==
    ASSUME IInv, NEW p \in Coordinators, pc[p] # "off" \/ lock = Nobody,
           NEW l, Takes(p, l), l # "off" => lock' = p,
           PullTyped', HostTyped', RowsTyped', CountsTyped',
           Sane(job[p], pc[p])', Rows', Heads',
           \A c \in Commit : (Clear(c) \/ Kept(c) \/ (pc[p] \in Working /\ job[p].commit = c))'
    PROVE  IInv'
  <1>1. \A q \in Coordinators \ {p} : pc'[q] = "off" /\ job'[q] = NoJob
    BY OthersOff DEF Takes
  <1>2. Alone'
    BY <1>1 DEF Alone, Takes
  <1>3. Sane(NoJob, "off")'
    BY OffIsSane
  <1>4. \A q \in Coordinators : Sane(job[q], pc[q])'
    <2> SUFFICES ASSUME NEW q \in Coordinators, q # p
                 PROVE  Sane(job[q], pc[q])'
      OBVIOUS
    <2>1. job'[q] = NoJob /\ pc'[q] = "off"
      BY <1>1
    <2> QED BY <1>3, <2>1 DEF Sane, Fitting, Keeping, Row, Letting, Living, Earning, Just,
                   Doubted, Scoping, Merging
  <1>5. Stacks'
    BY DEF Stacks
  <1> QED BY <1>2, <1>4, <1>5 DEF IInv, Types, Takes

\* What all share, when a step leaves it alone.
LEMMA SameWorld ==
    ASSUME IInv, UNCHANGED <<pull, repair, host, verdicts, been>>,
           orphaned \subseteq orphaned', misread \subseteq misread'
    PROVE  /\ PullTyped' /\ HostTyped' /\ RowsTyped' /\ Rows' /\ Heads'
           /\ \A c \in Commit : Clear(c) \/ Kept(c) => (Clear(c) \/ Kept(c))'
  BY DEF IInv, Types, PullTyped, HostTyped, RowsTyped, Rows, Just, Doubted, Heads, InScope,
         Clear, Kept

\* A coordinator with nothing in its hands leaves no stack unaccounted for.
LEMMA NothingInHand ==
    ASSUME IInv, NEW p \in Coordinators, pc[p] = "idle" \/ (pc[p] = "off" /\ lock = Nobody)
    PROVE  job[p] = NoJob /\ \A c \in Commit : Clear(c) \/ Kept(c)
  <1>1. pc[p] \notin Working /\ job[p] = NoJob
    BY DEF IInv, Sane, Fitting, Working
  <1> QED BY <1>1, OthersOff DEF IInv, Stacks, Working

\* An attempt that goes on, or is given up: what it is for, and what was said
\* of other commits, stays.
LEMMA GoesOn ==
    ASSUME IInv, NEW p \in Coordinators, pc[p] \in Working,
           NEW l \in Working, Takes(p, l), SameAttempt(p), l \in Listed => pc[p] \in Listed,
           job'[p].verdict \in {job[p].verdict, "blocked"},
           UNCHANGED <<pull, repair, been, verdicts, lock>>,
           HostTyped', CountsTyped', orphaned \subseteq orphaned', misread \subseteq misread',
           \A c \in Commit \ {job[p].commit} : host'[c] = host[c],
           Fitting(job[p], pc[p])', Keeping(job[p], pc[p])', Letting(job[p], pc[p])',
           Living(job[p], pc[p])',
           Just(job[p].commit, job[p].verdict)' => Earning(job[p], pc[p])'
    PROVE  IInv'
  <1>1. Sane(job[p], pc[p]) /\ pc[p] # "off" /\ lock = p /\ pc'[p] = l
    BY DEF IInv, Alone, Takes, Working
  <1>2. PullTyped' /\ RowsTyped'
    BY DEF IInv, Types, PullTyped, RowsTyped
  <1>3. Rows' /\ Heads'
    BY DEF IInv, Rows, Just, Doubted, Heads, InScope
  <1>4. Just(job[p].commit, job[p].verdict)'
    BY <1>1 DEF Sane, Earning, Just, Doubted, SameAttempt
  <1>5. Scoping(job[p], pc[p])' /\ Merging(job[p])'
    BY <1>1 DEF Sane, Scoping, Merging, InScope, SameAttempt
  <1>6. \A c \in Commit : (Clear(c) \/ Kept(c) \/ (pc[p] \in Working /\ job[p].commit = c))'
    <2>1. \A c \in Commit : Clear(c) \/ Kept(c) \/ job[p].commit = c
      BY <1>1, OthersOff DEF IInv, Stacks, Working
    <2> SUFFICES ASSUME NEW c \in Commit
                 PROVE  (Clear(c) \/ Kept(c) \/ (pc[p] \in Working /\ job[p].commit = c))'
      OBVIOUS
    <2>2. CASE job[p].commit = c
      BY <1>1, <2>2 DEF SameAttempt
    <2>3. CASE job[p].commit # c /\ Clear(c)
      BY <2>3 DEF Clear
    <2>4. CASE job[p].commit # c /\ Kept(c)
      BY <2>4 DEF Kept
    <2> QED BY <2>1, <2>2, <2>3, <2>4
  <1> QED BY <1>1, <1>2, <1>3, <1>4, <1>5, <1>6, OneWorks DEF Sane

\* An attempt that is given up, blocked or by an exception: with a stack the
\* finally clause has still to take down, or with nothing left of it.
LEMMA GivesUp ==
    ASSUME IInv, NEW p \in Coordinators, pc[p] \in Working,
           Block(p) \/ (Goto(p, "raising") /\ Keeps(p)),
           UNCHANGED <<pull, repair, been, verdicts, lock>>,
           HostTyped', CountsTyped', orphaned \subseteq orphaned', misread \subseteq misread',
           \A c \in Commit \ {job[p].commit} : host'[c] = host[c],
           job[p].commit \in Commit /\ ~job[p].built
               => job[p].commit \in orphaned' \/ host'[job[p].commit].data = "none",
           job[p].keep => job[p].commit \in orphaned'
    PROVE  IInv'
  <1>1. Sane(job[p], pc[p]) /\ HandsTyped
    BY DEF IInv, Types
  <1>2. PICK l \in {"recording", "raising"} :
            /\ Takes(p, l) /\ SameAttempt(p)
            /\ job'[p].verdict \in {job[p].verdict, "blocked"}
            /\ job'[p].keep = job[p].keep /\ job'[p].built = job[p].built
    <2>1. "raising" \in Labels
      BY DEF Labels, Working
    <2> QED BY <1>1, <2>1, Blocking, Going DEF SameAttempt
  <1>3. l \in Working /\ l \notin Listed
    BY DEF Working, Listed
  <1>4. Fitting(job[p], pc[p])' /\ Living(job[p], pc[p])'
    BY <1>1, <1>2 DEF Sane, Fitting, Living, Takes, SameAttempt, Working, Before, Holding
  <1>5. Keeping(job[p], pc[p])' /\ Letting(job[p], pc[p])'
    BY <1>1, <1>2 DEF Sane, Keeping, Letting, Clear, Takes, SameAttempt
  <1>6. Just(job[p].commit, job[p].verdict)' => Earning(job[p], pc[p])'
    BY <1>2 DEF Earning, Takes
  <1> QED BY <1>2, <1>3, <1>4, <1>5, <1>6, GoesOn

-----------------------------------------------------------------------------
(* The steps of an attempt. *)

LEMMA UnreadKeeps ==
    ASSUME IInv, NEW p \in Coordinators, Unread(p)
    PROVE  IInv'
  <1>1. pc[p] \in {"reading", "listing", "rechecking"} /\ pc[p] \in Working
    BY DEF Unread, Working
  <1>2. Sane(job[p], pc[p]) /\ HostTyped /\ CountsTyped
    BY DEF IInv, Types
  <1>3. HostTyped' /\ CountsTyped'
    BY <1>2, Bounds DEF Unread, HostTyped, CountsTyped, Fails, history, seen
  <1>4. /\ job[p].commit \in Commit /\ ~job[p].built => Clear(job[p].commit)
        /\ ~job[p].keep
    BY <1>1, <1>2 DEF Sane, Fitting, Letting, Before, Holding
  <1> QED BY <1>1, <1>3, <1>4, GivesUp DEF Unread, Clear, history, seen

LEMMA UnansweredKeeps ==
    ASSUME IInv, NEW p \in Coordinators, Unanswered(p)
    PROVE  IInv'
  <1>1. pc[p] \in {"reading", "listing", "rechecking"} /\ pc[p] \in Working
    BY DEF Unanswered, Working
  <1>2. Sane(job[p], pc[p]) /\ HostTyped /\ CountsTyped
    BY DEF IInv, Types
  <1>3. HostTyped' /\ CountsTyped'
    BY <1>2 DEF Unanswered, HostTyped, CountsTyped, history, bounds, seen
  <1>4. /\ job[p].commit \in Commit /\ ~job[p].built => Clear(job[p].commit)
        /\ ~job[p].keep
    BY <1>1, <1>2 DEF Sane, Fitting, Letting, Before, Holding
  <1> QED BY <1>1, <1>3, <1>4, GivesUp DEF Unanswered, Clear, history, seen

LEMMA CheckoutKeeps ==
    ASSUME IInv, NEW p \in Coordinators, Checkout(p)
    PROVE  IInv'
  <1> DEFINE c == job[p].commit
  <1>1. pc[p] = "checkout" /\ pc[p] \in Working /\ "starting" \in Working \cap Labels
    BY DEF Checkout, Working, Labels
  <1>2. Sane(job[p], pc[p]) /\ HostTyped /\ CountsTyped /\ HandsTyped
    BY DEF IInv, Types
  <1>3. Takes(p, "starting") /\ job'[p] = job[p]
    BY <1>1, <1>2, Going DEF Checkout
  <1>4. c \in Commit /\ ~job[p].built /\ ~job[p].keep /\ Clear(c)
    BY <1>1, <1>2 DEF Sane, Fitting, Letting, Before
  <1>5. /\ HostTyped' /\ CountsTyped'
        /\ host'[c].tree = "whole" /\ host'[c].data = host[c].data
        /\ \A d \in Commit \ {c} : host'[d] = host[d]
    BY <1>2, <1>4 DEF Checkout, HostTyped, Stack, CountsTyped, bounds, history, seen
  <1>6. (Fitting(job[p], pc[p]) /\ Keeping(job[p], pc[p]) /\ Letting(job[p], pc[p])
         /\ Living(job[p], pc[p]))'
    BY <1>1, <1>2, <1>3, <1>4, <1>5
       DEF Checkout, Sane, Fitting, Keeping, Letting, Living, Clear, Takes, Before, Holding, history, seen
  <1>7. Just(job[p].commit, job[p].verdict)' => Earning(job[p], pc[p])'
    BY <1>3 DEF Earning, Takes
  <1> QED BY <1>1, <1>3, <1>5, <1>6, <1>7, GoesOn DEF Checkout, SameAttempt, Listed,
                 history, seen

LEMMA CheckoutFailsKeeps ==
    ASSUME IInv, NEW p \in Coordinators, CheckoutFails(p)
    PROVE  IInv'
  <1> DEFINE c == job[p].commit
  <1>1. pc[p] = "checkout" /\ pc[p] \in Working
    BY DEF CheckoutFails, Working
  <1>2. Sane(job[p], pc[p]) /\ HostTyped /\ CountsTyped
    BY DEF IInv, Types
  <1>3. c \in Commit /\ ~job[p].keep /\ Clear(c)
    BY <1>1, <1>2 DEF Sane, Fitting, Letting, Before
  <1>4. PICK s : /\ host' = [host EXCEPT ![c] = s]
                 /\ s \in {Empty, [host[c] EXCEPT !.tree = "absent"]}
    BY <1>2, <1>3 DEF CheckoutFails, HostTyped
  <1>5. s \in Stack /\ s.data \in {host[c].data, "none"} /\ (s.up => s.data # "none")
        /\ (s.portal => s.up)
    <2>1. /\ host[c] \in Stack
          /\ host[c].up => host[c].data # "none"
          /\ host[c].portal => host[c].up
      BY <1>2, <1>3 DEF HostTyped
    <2>2. CASE s = Empty
      BY <2>2 DEF Stack, Empty
    <2>3. CASE s = [host[c] EXCEPT !.tree = "absent"]
      <3> HIDE DEF c
      <3>1. /\ s \in Stack /\ s.data = host[c].data
            /\ s.up = host[c].up /\ s.portal = host[c].portal
        BY <2>1, <2>3 DEF Stack
      <3> QED BY <2>1, <3>1
    <2> QED BY <1>4, <2>2, <2>3
  <1>6. /\ HostTyped' /\ host'[c].data \in {host[c].data, "none"}
        /\ \A d \in Commit \ {c} : host'[d] = host[d]
    BY <1>2, <1>3, <1>4, <1>5 DEF HostTyped
  <1>7. CountsTyped'
    BY <1>2, Bounds DEF CheckoutFails, CountsTyped, Fails, history, seen
  <1> QED BY <1>1, <1>3, <1>6, <1>7, GivesUp DEF CheckoutFails, Clear, history, seen

LEMMA PrepareKeeps ==
    ASSUME IInv, NEW p \in Coordinators, Prepare(p)
    PROVE  IInv'
  <1> DEFINE c == job[p].commit
  <1>1. pc[p] = "starting" /\ pc[p] \in Working /\ "measured" \in Working \cap Labels
    BY DEF Prepare, Working, Labels
  <1>2. Sane(job[p], pc[p]) /\ HostTyped /\ CountsTyped /\ HandsTyped /\ job[p] \in Job
    BY DEF IInv, Types, HandsTyped
  <1>3. c \in Commit /\ ~job[p].keep /\ Clear(c) /\ host[c].tree = "whole"
    BY <1>1, <1>2 DEF Sane, Fitting, Letting, Living, Before
  <1>4. PICK m \in Measured : job' = [job EXCEPT ![p].built = TRUE, ![p].measured = m]
    BY <1>3, Sounds DEF Prepare
  <1>5. /\ Takes(p, "measured") /\ SameAttempt(p)
        /\ job'[p].built /\ job'[p].measured = m
        /\ job'[p].keep = job[p].keep /\ job'[p].verdict = job[p].verdict
    <2> DEFINE j == [job[p] EXCEPT !.built = TRUE, !.measured = m]
    <2>1. /\ j \in Job /\ j.stage = job[p].stage /\ j.commit = job[p].commit
          /\ j.wanted = job[p].wanted /\ j.keep = job[p].keep /\ j.verdict = job[p].verdict
          /\ j.built /\ j.measured = m
      BY <1>2 DEF Job
    <2>2. job' = [job EXCEPT ![p] = j]
      BY <1>2, <1>4 DEF HandsTyped, Job
    <2>3. pc' = [pc EXCEPT ![p] = "measured"] /\ lock' = lock
      BY DEF Prepare, Goto
    <2> HIDE DEF j
    <2> QED BY <1>1, <1>2, <2>1, <2>2, <2>3 DEF HandsTyped, Takes, SameAttempt
  <1>6. /\ Touches(c) /\ CountsTyped' /\ host'[c].up /\ host'[c].tree = "whole"
        /\ c \in orphaned \/ host'[c].data = "fresh"
    <2>1. CountsTyped'
      BY <1>2, Bounds DEF Prepare, CountsTyped, Fails, history, seen
    <2> QED BY <1>2, <1>3, <2>1, UpTouches DEF Prepare, Clear
  <1>7. (Fitting(job[p], pc[p]) /\ Keeping(job[p], pc[p]) /\ Letting(job[p], pc[p])
         /\ Living(job[p], pc[p]))'
    BY <1>1, <1>2, <1>3, <1>5, <1>6
       DEF Prepare, Sane, Fitting, Keeping, Letting, Living, Takes, SameAttempt, Before, Holding
  <1>8. Just(job[p].commit, job[p].verdict)' => Earning(job[p], pc[p])'
    BY <1>5, <1>6 DEF Prepare, Earning, Takes, SameAttempt, history, seen
  <1> QED BY <1>1, <1>5, <1>6, <1>7, <1>8, GoesOn DEF Prepare, Touches, Listed, history,
                 seen

LEMMA PrepareFailsKeeps ==
    ASSUME IInv, NEW p \in Coordinators, PrepareFails(p)
    PROVE  IInv'
  <1> DEFINE c == job[p].commit
  <1>1. pc[p] = "starting" /\ pc[p] \in Working
    BY DEF PrepareFails, Working, seen
  <1>2. Sane(job[p], pc[p]) /\ HostTyped /\ CountsTyped
    BY DEF IInv, Types
  <1>3. c \in Commit /\ ~job[p].keep
    BY <1>1, <1>2 DEF Sane, Fitting, Before
  <1>4. /\ Touches(c) /\ orphaned \subseteq orphaned' /\ orphaned' \subseteq Commit
        /\ c \in orphaned' \/ host'[c].data = "none"
    BY <1>2, <1>3, GoneTouches, LeftTouches DEF PrepareFails, CountsTyped, seen
  <1>5. CountsTyped'
    BY <1>2, <1>4, Bounds DEF PrepareFails, CountsTyped, Fails, seen
  <1> QED BY <1>1, <1>3, <1>4, <1>5, GivesUp DEF PrepareFails, Touches, seen

LEMMA PrepareRaisesKeeps ==
    ASSUME IInv, NEW p \in Coordinators, PrepareRaises(p)
    PROVE  IInv'
  <1> DEFINE c == job[p].commit
  <1>1. pc[p] = "starting" /\ pc[p] \in Working
    BY DEF PrepareRaises, Working, seen
  <1>2. Sane(job[p], pc[p]) /\ HostTyped /\ CountsTyped
    BY DEF IInv, Types
  <1>3. c \in Commit /\ ~job[p].keep
    BY <1>1, <1>2 DEF Sane, Fitting, Before
  <1>4. Touches(c) /\ CountsTyped'
    BY <1>2, <1>3, UpTouches, Bounds DEF PrepareRaises, CountsTyped, Fails, seen
  <1> QED BY <1>1, <1>3, <1>4, GivesUp DEF PrepareRaises, Touches, seen

LEMMA InspectKeeps ==
    ASSUME IInv, NEW p \in Coordinators, Inspect(p)
    PROVE  IInv'
  <1>1. /\ pc[p] = "measured" /\ pc[p] \in Working /\ "replaying" \in Working \cap Labels
    BY DEF Inspect, Working, Labels
  <1>2. Sane(job[p], pc[p]) /\ HostTyped /\ CountsTyped /\ HandsTyped
    BY DEF IInv, Types
  <1>3. HostTyped' /\ CountsTyped'
    BY <1>2 DEF Inspect, HostTyped, CountsTyped, bounds, history, seen
  <1>4. job[p].built /\ ~job[p].keep
    BY <1>1, <1>2 DEF Sane, Fitting, Holding
  <1>5. CASE ProvenanceProblem(job[p].measured, job[p].commit)
    BY <1>1, <1>3, <1>4, <1>5, GivesUp DEF Inspect, history, seen
  <1>6. CASE ~ProvenanceProblem(job[p].measured, job[p].commit)
    <2>1. Takes(p, "replaying") /\ job'[p] = job[p]
      BY <1>1, <1>2, <1>6, Going DEF Inspect
    <2>2. (Fitting(job[p], pc[p]) /\ Keeping(job[p], pc[p]) /\ Letting(job[p], pc[p])
           /\ Living(job[p], pc[p]))'
      BY <1>1, <1>2, <1>4, <2>1
         DEF Inspect, Sane, Fitting, Keeping, Letting, Living, Takes, Before, Holding
    <2>3. Just(job[p].commit, job[p].verdict)' => Earning(job[p], pc[p])'
      BY <1>1, <1>2, <1>6, <2>1 DEF Inspect, Sane, Earning, Takes, ProvenanceProblem,
             history, seen
    <2> QED BY <1>1, <1>3, <2>1, <2>2, <2>3, GoesOn DEF Inspect, SameAttempt, Listed,
                   history, seen
  <1> QED BY <1>5, <1>6

\* What a replay shows on fresh data is what the commit does.
LEMMA ReplayKeeps ==
    ASSUME IInv, NEW p \in Coordinators, Replay(p)
    PROVE  IInv'
  <1> DEFINE c == job[p].commit
  <1>1. pc[p] = "replaying" /\ pc[p] \in Working /\ "rechecking" \in Working \cap Labels
    BY DEF Replay, Working, Labels
  <1>2. Sane(job[p], pc[p]) /\ HostTyped /\ CountsTyped /\ HandsTyped /\ job[p] \in Job
    BY DEF IInv, Types, HandsTyped
  <1>3. HostTyped' /\ CountsTyped' /\ misread \subseteq misread'
    <2>1. job[p].commit \in Commit
      BY <1>1, <1>2 DEF Sane, Fitting, Holding
    <2> QED BY <1>2, <2>1, Bounds DEF Replay, HostTyped, CountsTyped, Fails
  <1>4. /\ Served(job[p].measured) = {c.tree}
        /\ c \in orphaned \/ host[c].data = "fresh"
    BY <1>1, <1>2 DEF Sane, Earning, ProvenanceProblem, ServiceProblem, Served
  <1>5. Shows(p) \subseteq BOOLEAN
        /\ (host[c].data = "fresh" => Shows(p) = {c.tree \in Works})
    <2> DEFINE own == Served(job[p].measured) \subseteq Works
    <2>1. own = (c.tree \in Works) /\ own \in BOOLEAN
      BY <1>4
    <2>2. Shows(p) = IF host[c].data = "fresh" THEN {own} ELSE BOOLEAN
      BY DEF Shows
    <2> HIDE DEF own
    <2> QED BY <2>1, <2>2
  <1>6. PICK works \in Shows(p) : \E r :
            /\ job' = [job EXCEPT ![p].report = r]
            /\ \/ r \in Handed(works) /\ misread' = misread
               \/ r \in Garbled(works) /\ misread' = misread \union {c}
    BY DEF Replay, Handed, Garbled
  <1>7. PICK r : /\ job' = [job EXCEPT ![p].report = r]
                 /\ \/ r \in Handed(works) /\ misread' = misread
                    \/ r \in Garbled(works) /\ misread' = misread \union {c}
    BY <1>6
  <1>8. works \in BOOLEAN /\ (c \notin orphaned => works = (c.tree \in Works))
    BY <1>4, <1>5
  <1>9. /\ Takes(p, "rechecking") /\ SameAttempt(p)
        /\ job'[p].report = r /\ job'[p].built = job[p].built
        /\ job'[p].keep = job[p].keep /\ job'[p].verdict = job[p].verdict
    <2> DEFINE j == [job[p] EXCEPT !.report = r]
    <2>1. r \in Reported
      BY <1>7, <1>8, Grades, Garbles
    <2>2. /\ j \in Job /\ j.stage = job[p].stage /\ j.commit = job[p].commit
          /\ j.wanted = job[p].wanted /\ j.keep = job[p].keep /\ j.verdict = job[p].verdict
          /\ j.built = job[p].built /\ j.report = r
      BY <1>2, <2>1 DEF Job
    <2>3. job' = [job EXCEPT ![p] = j]
      BY <1>2, <1>7 DEF HandsTyped, Job
    <2>4. pc' = [pc EXCEPT ![p] = "rechecking"] /\ lock' = lock
      BY DEF Replay, Goto
    <2> HIDE DEF j
    <2> QED BY <1>1, <1>2, <2>2, <2>3, <2>4 DEF HandsTyped, Takes, SameAttempt
  <1>10. (Fitting(job[p], pc[p]) /\ Keeping(job[p], pc[p]) /\ Letting(job[p], pc[p])
         /\ Living(job[p], pc[p]))'
    BY <1>1, <1>2, <1>9
       DEF Replay, Sane, Fitting, Keeping, Letting, Living, Takes, SameAttempt, Before, Holding
  <1>11. Just(job[p].commit, job[p].verdict)' => Earning(job[p], pc[p])'
    <2>1. /\ \/ job'[p].report \in Handed(works)
             \/ job'[p].report \in Garbled(works) /\ c \in misread'
          /\ job'[p].commit = c /\ orphaned' = orphaned
      BY <1>7, <1>9 DEF SameAttempt, Replay
    <2> QED BY <1>8, <1>9, <2>1 DEF Earning, Takes
  <1> QED BY <1>1, <1>3, <1>9, <1>10, <1>11, GoesOn DEF Replay, Listed, history, seen

LEMMA ReplayRaisesKeeps ==
    ASSUME IInv, NEW p \in Coordinators, ReplayRaises(p)
    PROVE  IInv'
  <1>1. pc[p] = "replaying" /\ pc[p] \in Working
    BY DEF ReplayRaises, Working
  <1>2. Sane(job[p], pc[p]) /\ HostTyped /\ CountsTyped
    BY DEF IInv, Types
  <1>3. HostTyped' /\ CountsTyped'
    BY <1>2, Bounds DEF ReplayRaises, HostTyped, CountsTyped, Fails, history, seen
  <1>4. job[p].built /\ ~job[p].keep
    BY <1>1, <1>2 DEF Sane, Fitting, Holding
  <1> QED BY <1>1, <1>3, <1>4, GivesUp DEF ReplayRaises, history, seen

LEMMA RetainKeeps ==
    ASSUME IInv, NEW p \in Coordinators, Retain(p)
    PROVE  IInv'
  <1> DEFINE c == job[p].commit
  <1>1. pc[p] = "retaining" /\ pc[p] \in Working /\ "recording" \in Working \cap Labels
    BY DEF Retain, Working, Labels
  <1>2. Sane(job[p], pc[p]) /\ HostTyped /\ CountsTyped /\ HandsTyped
    BY DEF IInv, Types
  <1>3. Takes(p, "recording") /\ job'[p] = job[p]
    BY <1>1, <1>2, Going DEF Retain
  <1>4. c \in Commit /\ job[p].built /\ host[c].up
    BY <1>1, <1>2 DEF Sane, Fitting, Living, Holding
  <1>5. /\ HostTyped' /\ CountsTyped'
        /\ \A d \in Commit \ {c} : host'[d] = host[d]
    <2>1. CountsTyped'
      BY <1>2, Bounds DEF Retain, CountsTyped, Fails, history, seen
    <2>2. CASE UNCHANGED host
      BY <1>2, <2>1, <2>2 DEF HostTyped
    <2>3. CASE host' = [host EXCEPT ![c].portal = TRUE]
      BY <1>2, <1>4, <2>1, <2>3, PortalTouches DEF Touches
    <2> QED BY <2>2, <2>3 DEF Retain
  <1>6. (Fitting(job[p], pc[p]) /\ Keeping(job[p], pc[p]) /\ Letting(job[p], pc[p])
         /\ Living(job[p], pc[p]))'
    BY <1>1, <1>2, <1>3, <1>4
       DEF Retain, Sane, Fitting, Keeping, Letting, Living, Takes, Before, Holding, history, seen
  <1>7. Just(job[p].commit, job[p].verdict)' => Earning(job[p], pc[p])'
    BY <1>3 DEF Earning, Takes
  <1> QED BY <1>1, <1>3, <1>5, <1>6, <1>7, GoesOn DEF Retain, SameAttempt, Listed, history,
                 seen

LEMMA RetainUnwrittenKeeps ==
    ASSUME IInv, NEW p \in Coordinators, RetainUnwritten(p)
    PROVE  IInv'
  <1> DEFINE c == job[p].commit
  <1>1. pc[p] = "retaining" /\ pc[p] \in Working
    BY DEF RetainUnwritten, Working, seen
  <1>2. Sane(job[p], pc[p]) /\ HostTyped /\ CountsTyped
    BY DEF IInv, Types
  <1>3. c \in Commit /\ job[p].built /\ host[c].up
    BY <1>1, <1>2 DEF Sane, Fitting, Living, Holding
  <1>4. /\ HostTyped' /\ CountsTyped'
        /\ \A d \in Commit \ {c} : host'[d] = host[d]
    <2>1. CountsTyped'
      BY <1>2, <1>3, Bounds DEF RetainUnwritten, CountsTyped, Fails, seen
    <2>2. PICK portal \in BOOLEAN : host' = [host EXCEPT ![c].portal = portal]
      BY DEF RetainUnwritten, seen
    <2> QED BY <1>2, <1>3, <2>1, <2>2, PortalTouches DEF Touches
  <1> QED BY <1>1, <1>3, <1>4, GivesUp DEF RetainUnwritten, seen

LEMMA TearDownKeeps ==
    ASSUME IInv, NEW p \in Coordinators, TearDown(p)
    PROVE  IInv'
  <1> DEFINE c == job[p].commit
             j == [job[p] EXCEPT !.built = FALSE]
  <1>1. pc[p] = "tearing" /\ pc[p] \in Working /\ "recording" \in Working \cap Labels
    BY DEF TearDown, Working, Labels, seen
  <1>2. Sane(job[p], pc[p]) /\ HostTyped /\ CountsTyped /\ HandsTyped /\ job[p] \in Job
    BY DEF IInv, Types, HandsTyped
  <1>3. c \in Commit /\ ~job[p].keep
    BY <1>1, <1>2 DEF Sane, Fitting, Holding
  <1>4. /\ Takes(p, "recording") /\ SameAttempt(p)
        /\ ~job'[p].built /\ ~job'[p].keep /\ job'[p].verdict = job[p].verdict
    <2>1. /\ j \in Job /\ j.stage = job[p].stage /\ j.commit = job[p].commit
          /\ j.wanted = job[p].wanted /\ ~j.keep /\ j.verdict = job[p].verdict /\ ~j.built
      BY <1>2, <1>3 DEF Job
    <2>2. job' = [job EXCEPT ![p] = j] /\ pc' = [pc EXCEPT ![p] = "recording"] /\ lock' = lock
      BY <1>2 DEF TearDown, Goto, HandsTyped, Job, seen
    <2> HIDE DEF j
    <2> QED BY <1>1, <1>2, <2>1, <2>2 DEF HandsTyped, Takes, SameAttempt
  <1>5. /\ Touches(c) /\ CountsTyped' /\ orphaned \subseteq orphaned'
        /\ c \in orphaned' \/ host'[c].data = "none"
    BY <1>2, <1>3, TornTouches DEF TearDown, CountsTyped, seen
  <1>6. (Fitting(job[p], pc[p]) /\ Keeping(job[p], pc[p]) /\ Letting(job[p], pc[p])
         /\ Living(job[p], pc[p]))'
    BY <1>1, <1>2, <1>4, <1>5
       DEF TearDown, Sane, Fitting, Keeping, Letting, Living, Clear, Takes, SameAttempt, Before, Holding, seen
  <1>7. Just(job[p].commit, job[p].verdict)' => Earning(job[p], pc[p])'
    BY <1>4 DEF Earning, Takes
  <1> QED BY <1>1, <1>4, <1>5, <1>6, <1>7, GoesOn DEF TearDown, Touches, Listed, seen

LEMMA RecordRaisesKeeps ==
    ASSUME IInv, NEW p \in Coordinators, RecordRaises(p)
    PROVE  IInv'
  <1> DEFINE c == job[p].commit
  <1>1. pc[p] = "recording" /\ pc[p] \in Working
    BY DEF RecordRaises, Working, seen
  <1>2. Sane(job[p], pc[p]) /\ HostTyped /\ CountsTyped
    BY DEF IInv, Types
  <1>3. HostTyped' /\ CountsTyped'
    BY <1>2, Bounds DEF RecordRaises, HostTyped, CountsTyped, Fails, seen
  <1>4. /\ c \in Commit /\ ~job[p].built => Clear(c)
        /\ job[p].keep => c \in orphaned'
    BY <1>1, <1>2 DEF RecordRaises, Sane, Letting, Keeping, seen
  <1> QED BY <1>1, <1>3, <1>4, GivesUp DEF RecordRaises, Clear, seen

-----------------------------------------------------------------------------
(* The steps that begin an attempt. *)

LEMMA StartUpKeeps ==
    ASSUME IInv, NEW p \in Coordinators, StartUp(p)
    PROVE  IInv'
  <1>1. pc[p] = "off" /\ lock = Nobody /\ orphaned' = orphaned /\ CountsTyped
    BY DEF StartUp, history, IInv, Types, seen
  <1>2. job[p] = NoJob /\ (\A c \in Commit : Clear(c) \/ Kept(c)) /\ CountsTyped'
    BY <1>1, NothingInHand DEF StartUp, CountsTyped, bounds, history, seen
  <1>3. Takes(p, "idle") /\ job'[p] = NoJob
    BY <1>2 DEF StartUp, IInv, Types, HandsTyped, Goto, Takes, Labels
  <1>4. Sane(job[p], pc[p])'
    BY <1>3, OffIsSane DEF Takes, Sane, Fitting, Keeping, Row, Letting, Living, Earning,
           Just, Doubted, Scoping, Merging
  <1>5. lock' = p
    BY DEF StartUp
  <1> QED BY <1>1, <1>2, <1>3, <1>4, <1>5, SameWorld, OneWorks DEF StartUp, history, seen

LEMMA PollKeeps ==
    ASSUME IInv, NEW p \in Coordinators, Poll(p)
    PROVE  IInv'
  <1>1. pc[p] = "idle" /\ repair.state = "working" /\ lock = p
    BY DEF Poll, IInv, Alone
  <1>2. job[p] = NoJob /\ \A c \in Commit : Clear(c)
    BY <1>1, NothingInHand DEF Kept
  <1>3. Takes(p, "idle") /\ job'[p] = NoJob /\ lock' = p
    BY <1>1, <1>2 DEF Poll, control, IInv, Types, HandsTyped, Takes
  <1>4. Sane(job[p], pc[p])'
    BY <1>3, OffIsSane DEF Takes, Sane, Fitting, Keeping, Row, Letting, Living, Earning,
           Just, Doubted, Scoping, Merging
  <1>5. PullTyped' /\ HostTyped' /\ RowsTyped' /\ CountsTyped'
    BY DEF Poll, history, bounds, IInv, Types, PullTyped, HostTyped, RowsTyped,
           CountsTyped, seen
  <1>6. Rows' /\ Heads'
    BY DEF Poll, history, IInv, Rows, Just, Doubted, Heads, InScope, seen
  <1>7. \A c \in Commit : Clear(c)'
    BY <1>2 DEF Poll, history, Clear, seen
  <1> QED BY <1>1, <1>3, <1>4, <1>5, <1>6, <1>7, OneWorks

\* An attempt begins with what the repair's state asks for.
LEMMA Attempting ==
    ASSUME IInv, NEW p \in Coordinators, pc[p] = "idle",
           NEW stage \in {"preview", "post_merge"}, NEW wanted \in Landed \union {NoCommit},
           Attempt(p, stage, wanted),
           stage = "preview" => repair.state = "candidate",
           stage = "post_merge" => /\ repair.state = "awaiting_merge"
                                   /\ pull.state = "merged" /\ pull.head = repair.head
                                   /\ pull.merge = wanted,
           UNCHANGED <<pull, repair, host, verdicts, lock, history, bounds>>
    PROVE  IInv'
  <1> DEFINE j == [NoJob EXCEPT !.stage = stage, !.wanted = wanted]
  <1>1. /\ j \in Job /\ j.stage = stage /\ j.wanted = wanted /\ j.commit = NoCommit
        /\ ~j.built /\ ~j.keep /\ j.verdict = "blocked"
    BY NoJobTyped DEF Job, NoJob
  <1>2. job' = [job EXCEPT ![p] = j] /\ pc' = [pc EXCEPT ![p] = "reading"]
    BY DEF Attempt, Goto
  <1> HIDE DEF j
  <1>3. HandsTyped /\ CountsTyped /\ lock = p /\ "reading" \in Labels
    BY DEF IInv, Types, Alone, Labels, Working
  <1>4. Takes(p, "reading") /\ job'[p] = j /\ CountsTyped'
    BY <1>1, <1>2, <1>3 DEF HandsTyped, Takes, CountsTyped, history, bounds, seen
  <1>5. Sane(job[p], pc[p])'
    BY <1>1, <1>4, Bounds
       DEF Takes, Sane, Fitting, Keeping, Letting, Living, Earning, Just, Doubted, Scoping, Merging, Working, Before, Holding
  <1> QED BY <1>3, <1>4, <1>5, NothingInHand, SameWorld, OneWorks DEF history, seen

LEMMA VerifyCandidateKeeps ==
    ASSUME IInv, NEW p \in Coordinators, VerifyCandidate(p)
    PROVE  IInv'
  BY Attempting DEF VerifyCandidate

LEMMA CheckMergeKeeps ==
    ASSUME IInv, NEW p \in Coordinators, CheckMerge(p)
    PROVE  IInv'
  <1>1. pc[p] = "idle" /\ repair.state = "awaiting_merge" /\ lock = p
    BY DEF CheckMerge, IInv, Alone
  <1>2. CASE pull.state = "merged" /\ ~MergeProblem
    <2>1. pull.merge \in Landed
      BY <1>2 DEF IInv, Heads
    <2> QED BY <1>1, <1>2, <2>1, Attempting DEF CheckMerge, MergeProblem
  <1>3. CASE ~(pull.state = "merged" /\ ~MergeProblem)
    <2>1. /\ repair' = [repair EXCEPT !.state = IF pull.state = "merged" /\ pull.ours
                                                THEN "refused" ELSE "attention"]
          /\ UNCHANGED <<pull, host, verdicts, lock, pc, job, orphaned, been, misread, bounds>>
      BY <1>3 DEF CheckMerge, control, history, seen
    <2>2. job[p] = NoJob /\ \A c \in Commit : Clear(c)
      BY <1>1, NothingInHand DEF Kept
    <2>3. Takes(p, "idle") /\ job'[p] = NoJob
      BY <1>1, <2>1, <2>2 DEF IInv, Types, HandsTyped, Takes
    <2>4. Sane(job[p], pc[p])'
      BY <2>3, OffIsSane DEF Takes, Sane, Fitting, Keeping, Row, Letting, Living, Earning,
             Just, Doubted, Scoping, Merging
    <2>5. PullTyped' /\ HostTyped' /\ RowsTyped' /\ CountsTyped'
      BY <2>1 DEF bounds, IInv, Types, PullTyped, HostTyped, RowsTyped, CountsTyped
    <2>6. Rows' /\ Heads'
      BY <2>1 DEF IInv, Types, PullTyped, Rows, Just, Doubted, Heads, InScope
    <2>7. \A c \in Commit : Clear(c)'
      BY <2>1, <2>2 DEF Clear
    <2> QED BY <1>1, <2>1, <2>3, <2>4, <2>5, <2>6, <2>7, OneWorks
  <1> QED BY <1>2, <1>3

-----------------------------------------------------------------------------
(* The steps that read the branch, and those that write a verdict. *)

\* The commit an attempt is for has no stack yet, and was the head.
LEMMA ReadKeeps ==
    ASSUME IInv, NEW p \in Coordinators, Read(p)
    PROVE  IInv'
  <1>1. pc[p] = "reading" /\ pc[p] \in Working /\ lock = p /\ "listing" \in Working \cap Labels
    BY DEF Read, Working, Labels, IInv, Alone
  <1>2. /\ Sane(job[p], pc[p]) /\ PullTyped /\ HostTyped /\ CountsTyped /\ HandsTyped
        /\ job[p] \in Job
    BY DEF IInv, Types, HandsTyped
  <1>3. HostTyped' /\ CountsTyped'
    BY <1>2 DEF Read, HostTyped, CountsTyped, bounds, history, seen
  <1>4. /\ job[p].commit = NoCommit /\ ~job[p].built /\ ~job[p].keep
        /\ job[p].verdict = "blocked"
    BY <1>1, <1>2 DEF Sane, Fitting, Before
  <1>5. CASE Block(p)
    BY <1>1, <1>3, <1>4, <1>5, Bounds, GivesUp DEF Read, history, seen
  <1>6. CASE ~Block(p)
    <2> DEFINE c == IF job[p].stage = "preview" THEN pull.head ELSE job[p].wanted
               j == [job[p] EXCEPT !.commit = c]
    <2>1. /\ ~(IF job[p].stage = "preview" THEN HeadProblem
               ELSE MergedProblem(job[p].wanted) \/ ContentProblem(job[p].wanted))
          /\ job' = [job EXCEPT ![p].commit = c] /\ Goto(p, "listing")
      BY <1>6 DEF Read
    <2>2. /\ job[p].stage = "preview" /\ repair.state = "candidate"
          \/ /\ job[p].stage = "post_merge" /\ repair.state = "awaiting_merge"
             /\ job[p].wanted.tree = repair.head.tree
      BY <1>1, <1>2, <2>1 DEF Sane, Fitting, ContentProblem
    <2>3. c \in Commit /\ (job[p].stage = "preview" => c \in Pushed /\ c = pull.head)
          /\ (job[p].stage = "post_merge" => c = job[p].wanted)
      BY <1>2, <2>2, Bounds DEF PullTyped, Sane, Merging, IInv, Heads
    <2>4. /\ j \in Job /\ j.stage = job[p].stage /\ j.commit = c /\ j.wanted = job[p].wanted
          /\ ~j.built /\ ~j.keep /\ j.verdict = "blocked"
      BY <1>2, <1>4, <2>3 DEF Job
    <2>5. job' = [job EXCEPT ![p] = j] /\ pc' = [pc EXCEPT ![p] = "listing"] /\ lock' = lock
      BY <1>2, <2>1 DEF HandsTyped, Job, Goto, Read
    <2> HIDE DEF j, c
    <2>6. Takes(p, "listing") /\ job'[p] = j
      BY <1>1, <1>2, <2>4, <2>5 DEF HandsTyped, Takes
    <2>7. \A d \in Commit : Clear(d)
      <3>1. \A d \in Commit : Clear(d) \/ Kept(d)
        BY <1>1, <1>4, Bounds, OthersOff DEF IInv, Stacks, Working
      <3> QED BY <2>2, <3>1 DEF Kept
    <2>8. (Fitting(job[p], pc[p]) /\ Keeping(job[p], pc[p]) /\ Living(job[p], pc[p])
           /\ Earning(job[p], pc[p]))'
      BY <2>2, <2>3, <2>4, <2>6
         DEF Fitting, Keeping, Living, Earning, Just, Doubted, Takes, Working, Before, Holding, Read
    <2>9. Letting(job[p], pc[p])' /\ \A d \in Commit : Clear(d)'
      BY <2>7 DEF Letting, Clear, Read, history, seen
    <2>10. Scoping(job[p], pc[p])' /\ Merging(job[p])'
      BY <1>2, <2>2, <2>3, <2>4, <2>6
         DEF IInv, Heads, Sane, Scoping, Merging, Takes, Listed, Read, history, seen
    <2> QED BY <1>1, <1>3, <2>6, <2>8, <2>9, <2>10, SameWorld, OneWorks
            DEF Read, history, Sane, seen
  <1> QED BY <1>5, <1>6

\* The files that were listed are those of the head.
LEMMA ListKeeps ==
    ASSUME IInv, NEW p \in Coordinators, List(p)
    PROVE  IInv'
  <1>1. pc[p] = "listing" /\ pc[p] \in Working /\ lock = p /\ "checkout" \in Working \cap Labels
    BY DEF List, Working, Labels, IInv, Alone
  <1>2. Sane(job[p], pc[p]) /\ HostTyped /\ CountsTyped /\ HandsTyped
    BY DEF IInv, Types
  <1>3. HostTyped' /\ CountsTyped'
    BY <1>2 DEF List, HostTyped, CountsTyped, bounds, history, seen
  <1>4. ~job[p].built /\ ~job[p].keep /\ job[p].commit \in Commit /\ Clear(job[p].commit)
    BY <1>1, <1>2 DEF Sane, Fitting, Letting, Before
  <1>5. CASE Block(p)
    BY <1>1, <1>3, <1>4, <1>5, GivesUp DEF List, Clear, history, seen
  <1>6. CASE ~Block(p)
    <2>1. check_scope(Files(p), Family) /\ Goto(p, "checkout") /\ Keeps(p)
      BY <1>6 DEF List
    <2>2. Takes(p, "checkout") /\ job'[p] = job[p]
      BY <1>1, <1>2, <2>1, Going DEF List
    <2>3. (Fitting(job[p], pc[p]) /\ Keeping(job[p], pc[p]) /\ Living(job[p], pc[p])
           /\ Letting(job[p], pc[p]) /\ Earning(job[p], pc[p]))'
      BY <1>1, <1>2, <1>4, <2>2
         DEF Sane, Fitting, Keeping, Letting, Living, Earning, Just, Doubted, Clear, Takes, Before, Holding, List, history, seen
    <2>4. Scoping(job[p], pc[p])' /\ Merging(job[p])'
      BY <1>2, <2>1, <2>2 DEF Sane, Scoping, Merging, InScope, Files, Takes, List, history,
             seen
    <2>5. \A c \in Commit :
              (Clear(c) \/ Kept(c) \/ (pc[p] \in Working /\ job[p].commit = c))'
      <3>1. \A c \in Commit : Clear(c) \/ Kept(c)
        BY <1>1, <1>4, OthersOff DEF IInv, Stacks, Working
      <3> QED BY <3>1, SameWorld DEF List, history, seen
    <2> QED BY <1>1, <1>3, <2>2, <2>3, <2>4, <2>5, SameWorld, OneWorks DEF List, history,
                   Sane, seen
  <1> QED BY <1>5, <1>6

\* The verdict on what was replayed, if the head did not move.
LEMMA RecheckKeeps ==
    ASSUME IInv, NEW p \in Coordinators, Recheck(p)
    PROVE  IInv'
  <1> DEFINE c       == job[p].commit
             verdict == Settled(job[p].report, cases)
             keep    == RetainMerged /\ job[p].stage = "post_merge" /\ verdict = "passed"
             l       == IF keep THEN "retaining" ELSE "tearing"
  <1>1. pc[p] = "rechecking" /\ pc[p] \in Working /\ lock = p /\ l \in Working \cap Labels
    BY DEF Recheck, Working, Labels, IInv, Alone
  <1>2. Sane(job[p], pc[p]) /\ HostTyped /\ CountsTyped /\ HandsTyped
    BY DEF IInv, Types
  <1>3. HostTyped' /\ CountsTyped'
    BY <1>2 DEF Recheck, HostTyped, CountsTyped, bounds, history, seen
  <1>4. c \in Commit /\ job[p].built /\ ~job[p].keep
    BY <1>1, <1>2 DEF Sane, Fitting, Holding
  <1>5. CASE Moved(p)
    BY <1>1, <1>3, <1>4, <1>5, GivesUp DEF Recheck, history, seen
  <1>6. CASE ~Moved(p)
    <2>1. verdict \in Verdicts /\ Just(c, verdict)
      <3>1. PICK works \in BOOLEAN :
                /\ \/ job[p].report \in Handed(works)
                   \/ job[p].report \in Garbled(works) /\ c \in misread
                /\ c \notin orphaned => works = (c.tree \in Works)
        BY <1>1, <1>2 DEF Sane, Earning
      <3>2. CASE job[p].report \in Handed(works)
        <4>1. verdict \in {IF works THEN "passed" ELSE "failed", "blocked"} /\ verdict \in Verdicts
          BY <3>2, Grades
        <4> QED BY <3>1, <4>1 DEF Just, Doubted
      <3>3. CASE job[p].report \in Garbled(works) /\ c \in misread
        <4>1. verdict \in Verdicts /\ (Hidden = {} /\ ~works => verdict # "passed")
          BY <3>3, Garbles
        <4> QED BY <3>1, <3>3, <4>1 DEF Just, Doubted
      <3> QED BY <3>1, <3>2, <3>3
    <2>2. Decide(p, verdict, keep, l)
      BY <1>6 DEF Recheck
    <2>3. keep \in BOOLEAN
      OBVIOUS
    <2> HIDE DEF verdict
    <2>4. /\ Takes(p, l) /\ SameAttempt(p)
          /\ job'[p].verdict = verdict /\ job'[p].keep = keep /\ job'[p].built
      <3> HIDE DEF keep, l
      <3>1. lock' = lock /\ l \in Labels
        BY <1>1 DEF Recheck
      <3>2. /\ Takes(p, l) /\ SameAttempt(p)
            /\ job'[p].verdict = verdict /\ job'[p].keep = (job[p].keep \/ keep)
            /\ job'[p].built = job[p].built
        BY <1>2, <2>1, <2>2, <2>3, <3>1, Deciding
      <3> QED BY <1>4, <2>3, <3>2
    <2>5. (Fitting(job[p], pc[p]) /\ Keeping(job[p], pc[p]) /\ Letting(job[p], pc[p])
           /\ Living(job[p], pc[p]))'
      BY <1>1, <1>2, <1>4, <2>4
         DEF Sane, Fitting, Keeping, Letting, Living, Takes, SameAttempt, Working, Before, Holding, Recheck
    <2>6. Earning(job[p], pc[p])'
      BY <2>1, <2>4 DEF Earning, Just, Doubted, Takes, SameAttempt, Recheck, history, seen
    <2>7. Scoping(job[p], pc[p])' /\ Merging(job[p])'
      BY <1>1, <1>2, <1>4, <1>6, <2>4
         DEF Sane, Scoping, Merging, InScope, Moved, Listed, Takes, SameAttempt, Recheck, history, seen
    <2>8. \A d \in Commit :
              (Clear(d) \/ Kept(d) \/ (pc[p] \in Working /\ job[p].commit = d))'
      <3>1. \A d \in Commit : Clear(d) \/ Kept(d) \/ c = d
        BY <1>1, OthersOff DEF IInv, Stacks, Working
      <3> QED BY <1>1, <2>4, <3>1, SameWorld DEF Recheck, history, Takes, SameAttempt, seen
    <2> QED BY <1>1, <1>3, <2>4, <2>5, <2>6, <2>7, <2>8, SameWorld, OneWorks
            DEF Recheck, history, Sane, seen
  <1> QED BY <1>5, <1>6

\* The row that is written says what the attempt found.
LEMMA RecordKeeps ==
    ASSUME IInv, NEW p \in Coordinators, Record(p)
    PROVE  IInv'
  <1> DEFINE j == job[p]
  <1>1. pc[p] = "recording" /\ pc[p] \in Working /\ lock = p /\ "recorded" \in Working \cap Labels
    BY DEF Record, Working, Labels, IInv, Alone
  <1>2. /\ Sane(j, pc[p]) /\ PullTyped /\ HostTyped /\ RowsTyped /\ CountsTyped /\ HandsTyped
        /\ j \in Job
    BY DEF IInv, Types, HandsTyped
  <1>3. /\ verdicts' = verdicts \union {Row(j)}
        /\ UNCHANGED <<pull, repair, host, lock, orphaned, been, misread, bounds>>
    BY DEF Record, Row, history, seen
  <1>4. Takes(p, "recorded") /\ job'[p] = j
    BY <1>1, <1>2, Going DEF Record
  <1>5. j.stage \in {"preview", "post_merge"}
    BY <1>1, <1>2 DEF Sane, Fitting
  <1>6. PullTyped' /\ HostTyped' /\ RowsTyped' /\ CountsTyped'
    BY <1>2, <1>3, <1>5 DEF PullTyped, HostTyped, RowsTyped, CountsTyped, Row, Job, bounds
  <1>7. Rows'
    <2>1. /\ Just(j.commit, j.verdict)
          /\ j.stage = "preview" /\ j.verdict = "passed" =>
                j.commit \in Pushed /\ been[j.commit] >= 1 /\ InScope(j.commit)
      BY <1>2 DEF Sane, Earning, Scoping
    <2>2. \A v \in verdicts' :
              /\ Just(v.commit, v.verdict)
              /\ v.stage = "preview" /\ v.verdict = "passed" =>
                    v.commit \in Pushed /\ been[v.commit] >= 1 /\ InScope(v.commit)
      BY <1>3, <2>1 DEF IInv, Rows, Row
    <2> QED BY <1>3, <2>2 DEF Rows, Just, Doubted, InScope
  <1>8. Heads'
    BY <1>3 DEF IInv, Heads, InScope
  <1>9. Sane(j, pc[p])'
    <2>1. Fitting(j, pc[p])' /\ Keeping(j, pc[p])' /\ Letting(j, pc[p])' /\ Living(j, pc[p])'
      BY <1>1, <1>2, <1>3, <1>4
         DEF Sane, Fitting, Keeping, Letting, Living, Clear, Takes, Before, Holding, Row
    <2>2. Earning(j, pc[p])' /\ Scoping(j, pc[p])' /\ Merging(j)'
      BY <1>1, <1>2, <1>3, <1>4
         DEF Sane, Earning, Just, Doubted, Scoping, Merging, InScope, Takes, Listed
    <2> QED BY <2>1, <2>2 DEF Sane
  <1>10. \A c \in Commit : (Clear(c) \/ Kept(c) \/ (pc[p] \in Working /\ job[p].commit = c))'
    <2>1. \A c \in Commit : Clear(c) \/ Kept(c) \/ j.commit = c
      BY <1>1, OthersOff DEF IInv, Stacks, Working
    <2>2. \A c \in Commit : (Clear(c) => Clear(c)') /\ (Kept(c) => Kept(c)')
      BY <1>3 DEF Clear, Kept
    <2> QED BY <1>1, <1>4, <2>1, <2>2 DEF Takes
  <1> QED BY <1>1, <1>3, <1>4, <1>6, <1>7, <1>8, <1>9, <1>10, OneWorks

\* What is still built is torn down, unless it is retained.
LEMMA FinallyKeeps ==
    ASSUME IInv, NEW p \in Coordinators, Finally(p)
    PROVE  IInv'
  <1> DEFINE c == job[p].commit
  <1>1. /\ pc[p] \in {"recorded", "raising"} /\ pc[p] \in Working /\ lock = p
        /\ "telling" \in Working \cap Labels /\ "idle" \in Labels
    BY DEF Finally, Working, Labels, IInv, Alone, seen
  <1>2. Sane(job[p], pc[p]) /\ HostTyped /\ CountsTyped /\ HandsTyped /\ job[p] \in Job
    BY DEF IInv, Types, HandsTyped
  <1>3. /\ HostTyped' /\ CountsTyped' /\ orphaned \subseteq orphaned'
        /\ \A d \in Commit \ {c} : host'[d] = host[d]
        /\ c \in Commit =>
              \/ c \in orphaned' \/ host'[c].data = "none"
              \/ pc[p] = "recorded" /\ job[p].keep
    <2>1. CASE job[p].built /\ ~job[p].keep
      <3>1. c \in Commit /\ TornDown(p)
        BY <1>2, <2>1 DEF Finally, Sane, Fitting, seen
      <3> QED BY <1>2, <3>1, TornTouches DEF Finally, CountsTyped, Touches, seen
    <2>2. CASE ~(job[p].built /\ ~job[p].keep)
      <3>1. UNCHANGED <<host, errors, orphaned>> /\ HostTyped' /\ CountsTyped'
        BY <1>2, <2>2 DEF Finally, HostTyped, CountsTyped, seen
      <3>2. c \in Commit => Clear(c) \/ (pc[p] = "recorded" /\ job[p].keep)
        BY <1>1, <1>2, <2>2 DEF Sane, Letting, Keeping, Clear
      <3> QED BY <3>1, <3>2 DEF Clear
    <2> QED BY <2>1, <2>2
  <1>4. CASE pc[p] = "recorded"
    <2> DEFINE j == [job[p] EXCEPT !.built = FALSE]
    <2>1. /\ j \in Job /\ j.stage = job[p].stage /\ j.commit = job[p].commit
          /\ j.wanted = job[p].wanted /\ j.keep = job[p].keep /\ j.verdict = job[p].verdict
          /\ ~j.built
      BY <1>2 DEF Job
    <2>2. job' = [job EXCEPT ![p] = j] /\ pc' = [pc EXCEPT ![p] = "telling"] /\ lock' = lock
      BY <1>2, <1>4 DEF Finally, Goto, HandsTyped, Job, seen
    <2> HIDE DEF j
    <2>3. /\ Takes(p, "telling") /\ SameAttempt(p)
          /\ ~job'[p].built /\ job'[p].keep = job[p].keep /\ job'[p].verdict = job[p].verdict
      BY <1>1, <1>2, <2>1, <2>2 DEF HandsTyped, Takes, SameAttempt
    <2>4. Fitting(job[p], pc[p])' /\ Living(job[p], pc[p])'
      BY <1>1, <1>2, <2>3
         DEF Sane, Fitting, Living, Takes, SameAttempt, Before, Holding, Finally, seen
    <2>5. Keeping(job[p], pc[p])' /\ Letting(job[p], pc[p])'
      BY <1>2, <1>3, <1>4, <2>3
         DEF Sane, Keeping, Letting, Clear, Row, Takes, SameAttempt, Finally, seen
    <2>6. Just(job[p].commit, job[p].verdict)' => Earning(job[p], pc[p])'
      BY <2>3 DEF Earning, Takes
    <2> QED BY <1>1, <1>3, <2>3, <2>4, <2>5, <2>6, GoesOn DEF Finally, Listed, seen
  <1>5. CASE pc[p] = "raising"
    <2>1. job' = [job EXCEPT ![p] = NoJob] /\ pc' = [pc EXCEPT ![p] = "idle"] /\ lock' = lock
      BY <1>5 DEF Finally, Goto, seen
    <2>2. Takes(p, "idle") /\ job'[p] = NoJob
      BY <1>1, <1>2, <2>1, NoJobTyped DEF HandsTyped, Takes
    <2>3. Sane(job[p], pc[p])'
      BY <2>2, OffIsSane DEF Takes, Sane, Fitting, Keeping, Row, Letting, Living, Earning,
             Just, Doubted, Scoping, Merging
    <2>4. PullTyped' /\ RowsTyped' /\ Rows' /\ Heads'
      BY <1>3 DEF Finally, IInv, Types, PullTyped, RowsTyped, Rows, Just, Doubted, Heads,
             InScope, seen
    <2>5. \A d \in Commit : Clear(d)' \/ Kept(d)'
      <3>1. \A d \in Commit : Clear(d) \/ Kept(d) \/ c = d
        BY <1>1, OthersOff DEF IInv, Stacks, Working
      <3>2. \A d \in Commit : Kept(d) => Kept(d)'
        BY DEF Kept, Finally, seen
      <3>3. \A d \in Commit \ {c} : Clear(d) => Clear(d)'
        BY <1>3 DEF Clear
      <3> QED BY <1>3, <1>5, <3>1, <3>2, <3>3 DEF Clear
    <2> QED BY <1>1, <1>3, <2>1, <2>2, <2>3, <2>4, <2>5, OneWorks
  <1> QED BY <1>1, <1>4, <1>5

\* Only of a merge that passed is it said that the repair is merged.
LEMMA TellKeeps ==
    ASSUME IInv, NEW p \in Coordinators, Tell(p)
    PROVE  IInv'
  <1> DEFINE j == job[p]
  <1>1. pc[p] = "telling" /\ pc[p] \in Working /\ lock = p /\ "idle" \in Labels
    BY DEF Tell, Working, Labels, IInv, Alone
  <1>2. /\ Sane(j, pc[p]) /\ PullTyped /\ CountsTyped /\ HandsTyped /\ j \in Job
    BY DEF IInv, Types, HandsTyped
  <1>3. /\ job' = [job EXCEPT ![p] = NoJob] /\ pc' = [pc EXCEPT ![p] = "idle"]
        /\ repair' = [repair EXCEPT !.state = Meaning(j.stage, j.verdict)]
        /\ UNCHANGED <<pull, host, verdicts, lock, orphaned, been, misread, bounds>>
    BY DEF Tell, Goto, history, seen
  <1>4. Takes(p, "idle") /\ job'[p] = NoJob
    BY <1>1, <1>2, <1>3, NoJobTyped DEF HandsTyped, Takes
  <1>5. Sane(job[p], pc[p])'
    BY <1>4, OffIsSane DEF Takes, Sane, Fitting, Keeping, Row, Letting, Living, Earning,
           Just, Doubted, Scoping, Merging
  <1>6. \/ j.stage = "preview" /\ repair.state = "candidate"
        \/ j.stage = "post_merge" /\ repair.state = "awaiting_merge"
    BY <1>1, <1>2 DEF Sane, Fitting
  <1>7. /\ Meaning(j.stage, j.verdict) \in {"attention", "working", "awaiting_merge", "merged"}
        /\ Meaning(j.stage, j.verdict) = "awaiting_merge"
              => j.stage = "preview" /\ j.verdict = "passed"
        /\ Meaning(j.stage, j.verdict) = "merged"
              <=> j.stage = "post_merge" /\ j.verdict = "passed"
    BY <1>2, <1>6 DEF Meaning, Job, Verdicts
  <1>8. /\ repair'.head = repair.head /\ repair'.state = Meaning(j.stage, j.verdict)
        /\ PullTyped' /\ HostTyped' /\ RowsTyped' /\ CountsTyped'
    BY <1>3, <1>7 DEF IInv, Types, PullTyped, HostTyped, RowsTyped, CountsTyped, bounds
  <1>9. Rows'
    BY <1>3 DEF IInv, Rows, Just, Doubted, InScope
  <1>10. Heads'
    <2>1. /\ been[pull.head] >= 1 /\ been[repair.head] >= 1
          /\ pull.state = "merged" => pull.merge \in Landed
      BY DEF IInv, Heads
    <2>2. j.stage = "preview" /\ j.verdict = "passed" /\ pull.head = repair.head
              => InScope(repair.head)
      BY <1>2 DEF Sane, Scoping, InScope
    <2>3. j.stage = "post_merge" /\ j.verdict = "passed" =>
              /\ pull.state = "merged" /\ pull.head = repair.head
              /\ pull.merge.tree = repair.head.tree /\ InScope(repair.head)
      BY <1>2, <1>6 DEF Sane, Scoping, Merging, IInv, Heads
    <2> QED BY <1>3, <1>7, <1>8, <2>1, <2>2, <2>3 DEF Heads, InScope
  <1>11. \A c \in Commit : Clear(c)' \/ Kept(c)'
    <2>1. \A c \in Commit : Clear(c) \/ j.commit = c
      BY <1>1, <1>6, OthersOff DEF IInv, Stacks, Kept, Working
    <2>2. \A c \in Commit : j.commit = c => Clear(c) \/ Kept(c)'
      BY <1>1, <1>2, <1>3, <1>7, <1>8
         DEF Sane, Fitting, Letting, Keeping, Row, Kept, Clear
    <2> QED BY <1>3, <2>1, <2>2 DEF Clear
  <1> QED BY <1>1, <1>3, <1>4, <1>5, <1>8, <1>9, <1>10, <1>11, OneWorks

\* A stack whose coordinator dies is lost hold of.
LEMMA CrashKeeps ==
    ASSUME IInv, NEW p \in Coordinators, Crash(p)
    PROVE  IInv'
  <1>1. pc[p] # "off" /\ lock = p /\ "off" \in Labels /\ lock' = Nobody
    BY DEF Crash, IInv, Alone, Labels, seen
  <1>2. CountsTyped /\ HandsTyped
    BY DEF IInv, Types
  <1>3. job' = [job EXCEPT ![p] = NoJob] /\ pc' = [pc EXCEPT ![p] = "off"]
    BY DEF Crash, Goto, seen
  <1>4. Takes(p, "off") /\ job'[p] = NoJob
    BY <1>1, <1>2, <1>3, NoJobTyped DEF HandsTyped, Takes
  <1>5. Sane(job[p], pc[p])'
    BY <1>4, OffIsSane DEF Takes, Sane, Fitting, Keeping, Row, Letting, Living, Earning,
           Just, Doubted, Scoping, Merging
  <1>6. /\ CountsTyped' /\ orphaned \subseteq orphaned'
        /\ job[p].commit \in Commit => job[p].commit \in orphaned'
    BY <1>2, Bounds DEF Crash, CountsTyped, seen
  <1>7. \A c \in Commit : (Clear(c) \/ Kept(c))'
    <2>1. \A c \in Commit : Clear(c) \/ Kept(c) \/ job[p].commit = c
      BY <1>1, OthersOff DEF IInv, Stacks, Working
    <2> QED BY <1>6, <2>1, SameWorld DEF Crash, Clear, seen
  <1> QED BY <1>1, <1>4, <1>5, <1>6, <1>7, SameWorld, OneWorks DEF Crash, seen

-----------------------------------------------------------------------------
(* The pull request. *)

\* A head the branch comes back to has been the head before.
LEMMA GitHubKeeps ==
    ASSUME IInv, GitHub
    PROVE  IInv'
  <1> DEFINE Others == UNCHANGED <<repair, host, verdicts, lock, pc, job, orphaned, misread,
                                   crashes, errors>>
             Same   == pull'.head = pull.head /\ been' = been
  <1>1. Types /\ Heads
    BY DEF IInv
  <1>2. /\ Others /\ Moves /\ PullTyped'
        /\ pull'.state = "merged" => pull'.merge \in Landed
        /\ Same \/ (pull'.head # pull.head /\ been' = [been EXCEPT ![pull'.head] = @ + 1])
    <2>1. ASSUME NEW c \in Pushed, Push(c)
          PROVE  <1>2!1 /\ <1>2!2 /\ <1>2!3
      <3>1. /\ Others /\ Moves /\ c # pull.head /\ pull' = [pull EXCEPT !.head = c]
            /\ been' = [been EXCEPT ![c] = @ + 1]
        BY <2>1 DEF Push, control
      <3> QED BY <1>1, <3>1 DEF Types, PullTyped, Moves
    <2>2. CASE Retarget
      <3>1. Others /\ Moves /\ pull' = [pull EXCEPT !.ours = ~@] /\ been' = been
        BY <2>2 DEF Retarget, control, history, seen
      <3>2. pull' \in [state : {"open", "closed", "merged"}, head : Pushed,
                       merge : Landed \union {NoCommit}, ours : BOOLEAN]
            /\ pull'.head = pull.head /\ pull'.state = "open"
        BY <1>1, <3>1 DEF Types, PullTyped, Moves
      <3> QED BY <1>1, <3>1, <3>2 DEF Types, PullTyped
    <2>3. ASSUME NEW state \in {"closed", "merged"}, NEW m \in Landed \union {NoCommit},
                 state = "merged" => m \in Landed, Leave(state, m)
          PROVE  <1>2!1 /\ <1>2!2 /\ <1>2!3
      <3>1. /\ Others /\ Moves /\ been' = been
            /\ pull' = [pull EXCEPT !.state = state, !.merge = m]
        BY <2>3 DEF Leave, control, history, seen
      <3> QED BY <1>1, <2>3, <3>1 DEF Types, PullTyped
    <2> QED BY <2>1, <2>2, <2>3 DEF GitHub
  <1>3. HostTyped' /\ RowsTyped' /\ HandsTyped' /\ CountsTyped'
    BY <1>1, <1>2, Bounds DEF Types, HostTyped, RowsTyped, HandsTyped, CountsTyped, Moves
  <1>4. /\ \A h \in Pushed : been'[h] >= been[h]
        /\ pull'.head # pull.head => been'[pull'.head] >= been[pull'.head] + 1
    BY <1>1, <1>2 DEF Types, PullTyped
  <1>5. Heads'
    BY <1>1, <1>2, <1>4 DEF Types, PullTyped, Heads, InScope, Moves
  <1>6. ASSUME NEW q \in Coordinators
        PROVE  Sane(job[q], pc[q])'
    <2>1. Sane(job[q], pc[q]) /\ repair.head \in Pushed /\ pull'.head \in Pushed
          /\ been \in [Pushed -> Nat] /\ been' \in [Pushed -> Nat] /\ been[repair.head] >= 1
      BY <1>1, <1>2 DEF IInv, Types, PullTyped, Heads
    <2>2. (Fitting(job[q], pc[q]) /\ Keeping(job[q], pc[q]) /\ Letting(job[q], pc[q])
           /\ Living(job[q], pc[q]) /\ Earning(job[q], pc[q]))'
      BY <1>2, <2>1 DEF Sane, Fitting, Keeping, Letting, Living, Clear, Earning, Just,
             Doubted
    <2>3. Merging(job[q])'
      BY <1>2, <2>1 DEF Sane, Merging, Moves
    <2>4. Scoping(job[q], pc[q])'
      BY <1>2, <1>4, <2>1 DEF Sane, Scoping, InScope
    <2> QED BY <2>2, <2>3, <2>4 DEF Sane
  <1>7. Alone' /\ Stacks'
    BY <1>2 DEF IInv, Alone, Stacks, Clear, Kept
  <1>8. Rows'
    BY <1>1, <1>2, <1>4 DEF IInv, Types, PullTyped, Rows, Just, Doubted, InScope
  <1> QED BY <1>2, <1>3, <1>5, <1>6, <1>7, <1>8 DEF IInv, Types

-----------------------------------------------------------------------------
(* The invariant holds, and what it gives. *)

LEMMA Initially == Init => IInv
  <1> SUFFICES ASSUME Init
               PROVE  IInv
    OBVIOUS
  <1>1. PullTyped /\ RowsTyped /\ CountsTyped /\ Alone /\ Rows
    BY Bounds DEF Init, PullTyped, RowsTyped, CountsTyped, Alone, Rows
  <1>2. HostTyped /\ HandsTyped
    BY NoJobTyped DEF Init, HostTyped, HandsTyped, Empty, Labels
  <1>3. Stacks /\ Heads
    BY <1>1 DEF Init, Stacks, Clear, Empty, PullTyped, Heads
  <1>4. ASSUME NEW p \in Coordinators
        PROVE  Sane(job[p], pc[p])
    <2>1. job[p] = NoJob /\ pc[p] = "off"
      BY DEF Init
    <2> QED BY <2>1, Bounds
            DEF NoJob, Sane, Fitting, Keeping, Letting, Living, Earning, Just, Doubted, Scoping, Merging, Working, Before, Holding
  <1> QED BY <1>1, <1>2, <1>3, <1>4 DEF IInv, Types

LEMMA StutterKeeps ==
    ASSUME IInv, UNCHANGED vars
    PROVE  IInv'
  <1> USE DEF vars, control, history, bounds, seen
  <1>1. Types'
    BY DEF IInv, Types, PullTyped, HostTyped, RowsTyped, HandsTyped, CountsTyped
  <1>2. Alone' /\ Stacks' /\ Rows' /\ Heads'
    BY DEF IInv, Alone, Stacks, Clear, Kept, Rows, Just, Doubted, Heads, InScope
  <1>3. ASSUME NEW p \in Coordinators
        PROVE  Sane(job[p], pc[p])'
    BY DEF IInv, Sane, Fitting, Keeping, Row, Letting, Clear, Living, Earning, Just,
           Doubted, Scoping, InScope, Merging
  <1> QED BY <1>1, <1>2, <1>3 DEF IInv

LEMMA Invariant == Spec => []IInv
  <1>1. IInv /\ [Next]_vars => IInv'
    <2> SUFFICES ASSUME IInv, [Next]_vars
                 PROVE  IInv'
      OBVIOUS
    <2>1. ASSUME NEW p \in Coordinators, Coordinate(p)
          PROVE  IInv'
      BY <2>1, StartUpKeeps, PollKeeps, VerifyCandidateKeeps, CheckMergeKeeps, ReadKeeps,
         ListKeeps, UnreadKeeps, UnansweredKeeps, CheckoutKeeps, CheckoutFailsKeeps, PrepareKeeps,
         PrepareFailsKeeps, PrepareRaisesKeeps, InspectKeeps, ReplayKeeps, ReplayRaisesKeeps,
         RecheckKeeps, RetainKeeps, RetainUnwrittenKeeps, TearDownKeeps, RecordKeeps,
         RecordRaisesKeeps, FinallyKeeps, TellKeeps
         DEF Coordinate
    <2> QED BY <2>1, GitHubKeeps, CrashKeeps, StutterKeeps DEF Next
  <1> QED BY <1>1, Initially, PTL DEF Spec

\* The pull request, the row, the stacks, the table and the attempts are well
\* typed, for any trees, commits and bounds; what is measured is a measurement,
\* and what is built is built for a commit (Verifier.verify).
THEOREM TypeCorrect == Spec => []TypeOK
  <1>1. IInv => TypeOK
    <2> SUFFICES ASSUME IInv
                 PROVE  TypeOK
      OBVIOUS
    <2>1. Types
      BY DEF IInv
    <2>2. \A p \in Coordinators :
              /\ job[p].built => pc[p] \in Working /\ job[p].commit \in Commit
              /\ pc[p] \in {"measured", "replaying"} => job[p].measured \in Measured
      BY DEF IInv, Sane, Fitting, NoJob
    <2>3. DOMAIN host = Commit /\ \A c \in Commit : host[c] \in Stack
      BY <2>1 DEF Types, HostTyped
    <2>4. \A c \in Commit :
              /\ host[c].tree \in {"absent", "whole"}
              /\ host[c].up \in BOOLEAN /\ host[c].portal \in BOOLEAN
              /\ host[c].data \in {"none", "fresh", "inherited"}
      BY <2>3 DEF Stack
    <2> QED BY <2>1, <2>2, <2>3, <2>4
            DEF Types, PullTyped, HostTyped, RowsTyped, HandsTyped, CountsTyped, Labels, Verdicts, TypeOK
  <1> QED BY <1>1, Invariant, PTL

\* Nobody touches the stack another coordinator measures or replays: there is no
\* other coordinator (single_instance), however many are started and die.
THEOREM LiveIsWhole == Spec => []LiveStackIsWhole
  <1>1. IInv => LiveStackIsWhole
    BY DEF IInv, Sane, Living, LiveStackIsWhole
  <1> QED BY <1>1, Invariant, PTL

\* Every stack that is up has an attempt, was retained for a merge that passed,
\* or was lost hold of (IsolatedStack, the finally clause of verify).
THEOREM NothingRuns == Spec => []NothingLeftRunning
  <1>1. IInv => NothingLeftRunning
    BY DEF IInv, Types, HostTyped, Stacks, Clear, Kept, NothingLeftRunning
  <1> QED BY <1>1, Invariant, PTL

\* What the table says of a commit is what that commit does, for any damage to
\* a stack or a report that the grader turns into blocked (provenance_problem,
\* grade).  Exempt are the commits an attempt lost hold of, and those a replay
\* of which was graded on an error status or a lost page load: they may have
\* failed for it, and passed too where a case takes silence for a pass (B1).
THEOREM VerdictsEarned == Spec => []VerdictIsEarned
  <1>1. IInv => VerdictIsEarned
    BY DEF IInv, Rows, Just, Doubted, VerdictIsEarned
  <1> QED BY <1>1, Invariant, PTL

\* A commit that passed, and a merge that is accepted, are in scope, however the
\* branch moves between the three calls that look at it (verify, check_merge).
THEOREM AcceptedInScope == Spec => []PassedIsInScope
  <1>1. IInv => PassedIsInScope
    BY DEF IInv, Rows, Heads, InScope, PassedIsInScope
  <1> QED BY <1>1, Invariant, PTL

-----------------------------------------------------------------------------
(* The refinement: each step is one of Acceptance's, or a stutter.         *)

Speaking == {"recorded", "telling"}

Merges == pull.state = "open" => pull.merge = NoCommit

Promises == [Gate!Next]_<<repair.state, pull.merge, verdicts, Said, Doubted, misread>>

\* Nothing is decided by the step, but that p goes on.
Settles == UNCHANGED <<repair.state, pull.merge, verdicts>>

\* A step of p leaves it with what it has to say, or as silent as before.
Alike(p) ==
    /\ \A q \in Coordinators \ {p} : pc'[q] = pc[q] /\ job'[q] = job[q]
    /\ pc'[p] \in Speaking <=> pc[p] \in Speaking
    /\ pc[p] \in Speaking => Row(job[p])' = Row(job[p])

LEMMA AlikeSaid ==
    ASSUME NEW p \in Coordinators, Alike(p)
    PROVE  Said' = Said
  <1>1. Said = {Row(job[q]) : q \in {r \in Coordinators : pc[r] \in Speaking}}
    BY DEF Said, Row, Speaking
  <1>2. Said' = {Row(job[q])' : q \in {r \in Coordinators : pc'[r] \in Speaking}}
    BY DEF Said, Row, Speaking
  <1>3. \A q \in Coordinators : /\ pc'[q] \in Speaking <=> pc[q] \in Speaking
                                /\ pc[q] \in Speaking => Row(job[q])' = Row(job[q])
    BY DEF Alike, Row
  <1> QED BY <1>1, <1>2, <1>3

\* A coordinator that works speaks for all.
LEMMA OneSpeaks ==
    ASSUME IInv, NEW p \in Coordinators, pc[p] # "off" \/ lock = Nobody
    PROVE  /\ pc[p] \in Speaking => Said = {Row(job[p])}
           /\ pc[p] \notin Speaking => Said = {}
  <1>1. \A q \in Coordinators \ {p} : pc[q] \notin Speaking
    BY OthersOff DEF Speaking
  <1> QED BY <1>1 DEF Said, Row, Speaking

LEMMA DoubtPromises ==
    ASSUME NEW p \in Coordinators, Alike(p), Settles,
           \/ UNCHANGED <<orphaned, misread>>
           \/ \E c \in Commit : /\ orphaned' \in {orphaned, orphaned \union {c}}
                               /\ misread' \in {misread, misread \union {c}}
    PROVE  Promises
  <1>1. Said' = Said
    BY AlikeSaid
  <1>2. CASE UNCHANGED <<orphaned, misread>>
    BY <1>1, <1>2 DEF Promises, Settles, Doubted
  <1>3. ASSUME NEW c \in Commit, orphaned' \in {orphaned, orphaned \union {c}},
               misread' \in {misread, misread \union {c}}
        PROVE  Promises
    <2>1. Doubted' \in {Doubted, Doubted \union {c}}
      <3>1. CASE Hidden = {}
        BY <1>3, <3>1 DEF Doubted
      <3>2. CASE Hidden # {}
        BY <1>3, <3>2 DEF Doubted
      <3> QED BY <3>1, <3>2
    <2>2. Gate!Doubt(c)
      BY <1>1, <1>3, <2>1 DEF Settles, Gate!Doubt
    <2> QED BY <2>2 DEF Promises, Gate!Next
  <1> QED BY <1>2, <1>3

\* A step of p to l, which keeps silent, as p has done before.
Silently(p) ==
    /\ pc[p] \notin Speaking
    /\ UNCHANGED <<pull, repair, verdicts>>
    /\ \E l \in Labels \ Speaking : pc' = [pc EXCEPT ![p] = l]
    /\ job' = job \/ \E j : job' = [job EXCEPT ![p] = j]

LEMMA SilentAlike ==
    ASSUME HandsTyped, NEW p \in Coordinators, Silently(p)
    PROVE  Alike(p) /\ Settles
  BY DEF HandsTyped, Silently, Alike, Settles

\* The steps before there is a verdict.
LEMMA WorkPromises ==
    ASSUME IInv, NEW p \in Coordinators,
           \/ StartUp(p) \/ VerifyCandidate(p) \/ Read(p) \/ List(p) \/ Unread(p)
           \/ Unanswered(p) \/ Checkout(p) \/ CheckoutFails(p) \/ Prepare(p) \/ Inspect(p)
           \/ Replay(p) \/ ReplayRaises(p) \/ Recheck(p) \/ Retain(p)
    PROVE  Promises
  <1> USE DEF Silently, Goto, Keeps, Speaking, Labels, Working, history, seen
  <1>1. CASE StartUp(p)
    <2>1. Silently(p) /\ UNCHANGED <<orphaned, misread>>
      BY <1>1 DEF StartUp
    <2> QED BY <2>1, SilentAlike, DoubtPromises DEF IInv, Types
  <1>2. CASE VerifyCandidate(p)
    <2>1. Silently(p) /\ UNCHANGED <<orphaned, misread>>
      BY <1>2 DEF VerifyCandidate, Attempt
    <2> QED BY <2>1, SilentAlike, DoubtPromises DEF IInv, Types
  <1>3. CASE Read(p) \/ List(p) \/ Unread(p) \/ Unanswered(p)
    <2>1. Silently(p) /\ UNCHANGED <<orphaned, misread>>
      BY <1>3 DEF Read, List, Unread, Unanswered, Block, Decide
    <2> QED BY <2>1, SilentAlike, DoubtPromises DEF IInv, Types
  <1>4. CASE Checkout(p) \/ CheckoutFails(p)
    <2>1. Silently(p) /\ UNCHANGED <<orphaned, misread>>
      BY <1>4 DEF Checkout, CheckoutFails, Block, Decide
    <2> QED BY <2>1, SilentAlike, DoubtPromises DEF IInv, Types
  <1>5. CASE Prepare(p)
    <2>1. \E j : job' = [job EXCEPT ![p] = j]
      BY <1>5 DEF Prepare
    <2>2. Silently(p) /\ UNCHANGED <<orphaned, misread>>
      BY <1>5, <2>1 DEF Prepare
    <2> QED BY <2>2, SilentAlike, DoubtPromises DEF IInv, Types
  <1>6. CASE Inspect(p) \/ ReplayRaises(p)
    <2>1. Silently(p) /\ UNCHANGED <<orphaned, misread>>
      BY <1>6 DEF Inspect, ReplayRaises, Block, Decide
    <2> QED BY <2>1, SilentAlike, DoubtPromises DEF IInv, Types
  <1>7. CASE Replay(p)
    <2>1. \E j : job' = [job EXCEPT ![p] = j]
      BY <1>7 DEF Replay
    <2>2. Silently(p)
      BY <1>7, <2>1 DEF Replay
    <2>3. job[p].commit \in Commit /\ orphaned' = orphaned
          /\ misread' \in {misread, misread \union {job[p].commit}}
      BY <1>7 DEF Replay, IInv, Sane, Fitting, Holding
    <2> QED BY <2>2, <2>3, SilentAlike, DoubtPromises DEF IInv, Types
  <1>8. CASE Recheck(p)
    <2>1. /\ \E j : job' = [job EXCEPT ![p] = j]
          /\ \E l \in {"recording", "retaining", "tearing"} : pc' = [pc EXCEPT ![p] = l]
      BY <1>8 DEF Recheck, Block, Decide
    <2>2. Silently(p) /\ UNCHANGED <<orphaned, misread>>
      BY <1>8, <2>1 DEF Recheck
    <2> QED BY <2>2, SilentAlike, DoubtPromises DEF IInv, Types
  <1>9. CASE Retain(p)
    <2>1. Silently(p) /\ UNCHANGED <<orphaned, misread>>
      BY <1>9 DEF Retain
    <2> QED BY <2>1, SilentAlike, DoubtPromises DEF IInv, Types
  <1> QED BY <1>1, <1>2, <1>3, <1>4, <1>5, <1>6, <1>7, <1>8, <1>9

\* What a teardown leaves is doubted, if it leaves anything.
LEMMA TornDoubts ==
    ASSUME NEW p \in Coordinators, TornDown(p)
    PROVE  orphaned' = orphaned \/ orphaned' = orphaned \union {job[p].commit}
  BY DEF TornDown, Gone, Left

\* The steps that may lose hold of a stack.
LEMMA LossPromises ==
    ASSUME IInv, NEW p \in Coordinators,
           \/ PrepareFails(p) \/ PrepareRaises(p) \/ RetainUnwritten(p) \/ TearDown(p)
           \/ RecordRaises(p)
    PROVE  Promises
  <1> USE DEF Silently, Goto, Keeps, Speaking, Labels, Working, Block, Decide
  <1>1. HandsTyped /\ Sane(job[p], pc[p])
    BY DEF IInv, Types
  <1>2. CASE PrepareFails(p) \/ PrepareRaises(p)
    <2>1. Silently(p) /\ job[p].commit \in Commit
      BY <1>1, <1>2 DEF PrepareFails, PrepareRaises, Sane, Fitting, Before, seen
    <2>2. /\ orphaned' = orphaned \/ orphaned' = orphaned \union {job[p].commit}
          /\ misread' = misread
      BY <1>2 DEF PrepareFails, PrepareRaises, Left, seen
    <2> QED BY <1>1, <2>1, <2>2, SilentAlike, DoubtPromises
  <1>3. CASE RetainUnwritten(p) \/ TearDown(p)
    <2>1. Silently(p) /\ job[p].commit \in Commit
      BY <1>1, <1>3 DEF RetainUnwritten, TearDown, Sane, Fitting, Holding, seen
    <2>2. /\ orphaned' = orphaned \/ orphaned' = orphaned \union {job[p].commit}
          /\ misread' = misread
      BY <1>3, TornDoubts DEF RetainUnwritten, TearDown, seen
    <2> QED BY <1>1, <2>1, <2>2, SilentAlike, DoubtPromises
  <1>4. CASE RecordRaises(p)
    <2>1. Silently(p)
      BY <1>4 DEF RecordRaises, seen
    <2>2. /\ orphaned' = orphaned \/ \E c \in Commit : orphaned' = orphaned \union {c}
          /\ misread' = misread
      BY <1>4 DEF RecordRaises, seen
    <2> QED BY <1>1, <2>1, <2>2, SilentAlike, DoubtPromises
  <1> QED BY <1>2, <1>3, <1>4

\* The finally clause changes nothing of what was recorded.
LEMMA FinallyPromises ==
    ASSUME IInv, NEW p \in Coordinators, Finally(p)
    PROVE  Promises
  <1>1. HandsTyped /\ Sane(job[p], pc[p]) /\ job[p] \in Job
    BY DEF IInv, Types, HandsTyped
  <1>2. UNCHANGED <<pull, repair, verdicts>>
    BY DEF Finally, seen
  <1>3. /\ \/ orphaned' = orphaned
           \/ job[p].commit \in Commit /\ orphaned' = orphaned \union {job[p].commit}
        /\ misread' = misread
    BY <1>1, TornDoubts DEF Finally, Sane, Fitting, seen
  <1>4. Alike(p)
    <2>1. CASE pc[p] = "recorded"
      <3>1. /\ pc' = [pc EXCEPT ![p] = "telling"]
            /\ job' = [job EXCEPT ![p] = [job[p] EXCEPT !.built = FALSE]]
        BY <1>1, <2>1 DEF Finally, Goto, HandsTyped, Job, seen
      <3>2. Row([job[p] EXCEPT !.built = FALSE]) = Row(job[p])
        BY <1>1 DEF Row, Job
      <3> QED BY <1>1, <2>1, <3>1, <3>2 DEF Alike, Speaking, HandsTyped, Row
    <2>2. CASE pc[p] = "raising"
      <3>1. pc' = [pc EXCEPT ![p] = "idle"] /\ job' = [job EXCEPT ![p] = NoJob]
        BY <2>2 DEF Finally, Goto, seen
      <3> QED BY <1>1, <2>2, <3>1 DEF Alike, Speaking, HandsTyped
    <2> QED BY <2>1, <2>2 DEF Finally, seen
  <1> QED BY <1>2, <1>3, <1>4, DoubtPromises DEF Settles

\* The verdict that is put on record says what the commit does.
LEMMA RecordPromises ==
    ASSUME IInv, NEW p \in Coordinators, Record(p)
    PROVE  Promises
  <1> DEFINE v == Row(job[p])
  <1>1. pc[p] = "recording" /\ HandsTyped /\ Sane(job[p], pc[p]) /\ job[p] \in Job
    BY DEF IInv, Types, HandsTyped, Record
  <1>2. Said = {} /\ \A q \in Coordinators \ {p} : pc[q] \notin Speaking
    BY <1>1, OneSpeaks, OthersOff DEF Speaking
  <1>3. /\ pc' = [pc EXCEPT ![p] = "recorded"] /\ job' = job
        /\ verdicts' = verdicts \union {v}
        /\ UNCHANGED <<pull, repair, orphaned, misread>>
    BY DEF Record, Row, Goto, Keeps, history, seen
  <1>4. Said' = {v}
    <2>1. \A q \in Coordinators : pc'[q] \in Speaking <=> q = p
      BY <1>1, <1>2, <1>3 DEF HandsTyped, Speaking
    <2> QED BY <1>3, <2>1 DEF Said, Row, Speaking
  <1>5. v \in Gate!Verdict
    BY <1>1 DEF Gate!Verdict, Sane, Fitting, Row, Job, Verdicts, Working
  <1>6. LET mended == {c \in Commit : c.tree \in Works}
        IN  /\ v.verdict = "passed" /\ v.commit \notin Doubted => v.commit \in mended
            /\ v.verdict = "failed" /\ v.commit \notin Doubted \union misread
                  => v.commit \notin mended
    BY <1>1 DEF Sane, Earning, Scoping, Just, Doubted, Row, Job, Verdicts
  <1> HIDE DEF v
  <1>7. Gate!Judge(v)
    BY <1>2, <1>3, <1>4, <1>6 DEF Gate!Judge, Doubted
  <1> QED BY <1>5, <1>7 DEF Promises, Gate!Next

\* The row moves on by that verdict.
LEMMA TellPromises ==
    ASSUME IInv, NEW p \in Coordinators, Tell(p)
    PROVE  Promises
  <1> DEFINE j == job[p]
             v == Row(j)
  <1>1. pc[p] = "telling" /\ HandsTyped /\ Sane(j, pc[p]) /\ j \in Job /\ PullTyped
    BY DEF IInv, Types, HandsTyped, Tell
  <1>2. Said = {v} /\ \A q \in Coordinators \ {p} : pc[q] \notin Speaking
    BY <1>1, OneSpeaks, OthersOff DEF Speaking
  <1>3. /\ pc' = [pc EXCEPT ![p] = "idle"]
        /\ repair'.state = Meaning(j.stage, j.verdict)
        /\ UNCHANGED <<pull, verdicts, orphaned, misread>>
    BY <1>1 DEF Tell, Goto, history, PullTyped, seen
  <1>4. Said' = {}
    <2>1. \A q \in Coordinators : pc'[q] \notin Speaking
      BY <1>1, <1>2, <1>3 DEF HandsTyped, Speaking
    <2> QED BY <2>1 DEF Said, Speaking
  <1>5. v \in Gate!Verdict
    BY <1>1 DEF Gate!Verdict, Sane, Fitting, Row, Job, Verdicts, Working
  <1>6. v.stage = j.stage /\ v.verdict = j.verdict /\ v.commit = j.commit
    BY DEF Row
  <1>7. \/ j.stage = "preview" /\ repair.state = "candidate"
        \/ j.stage = "post_merge" /\ repair.state = "awaiting_merge"
    BY <1>1 DEF Sane, Fitting, Working
  <1>8. j.stage = "post_merge" /\ j.verdict = "passed" => j.commit = pull.merge
    BY <1>1 DEF Sane, Scoping, Merging
  <1>9. j.verdict \in {"passed", "failed", "blocked"}
    BY <1>1 DEF Job, Verdicts
  <1> HIDE DEF v
  <1>10. Gate!Conclude(v)
    <2>1. CASE j.stage = "preview"
      BY <1>2, <1>3, <1>4, <1>6, <1>7, <1>9, <2>1 DEF Gate!Conclude, Meaning, Doubted
    <2>2. CASE j.stage = "post_merge"
      BY <1>2, <1>3, <1>4, <1>6, <1>7, <1>8, <1>9, <2>2 DEF Gate!Conclude, Meaning, Doubted
    <2> QED BY <1>7, <2>1, <2>2
  <1> QED BY <1>5, <1>10 DEF Promises, Gate!Next

\* Without a verdict a repair becomes a candidate, or is turned away.
LEMMA ReadPromises ==
    ASSUME IInv, NEW p \in Coordinators, Poll(p) \/ CheckMerge(p)
    PROVE  Promises
  <1>1. pc[p] = "idle" /\ HandsTyped /\ PullTyped /\ Said = {}
    BY OneSpeaks DEF IInv, Types, Poll, CheckMerge, Speaking
  <1>2. CASE Poll(p)
    <2>1. /\ repair.state = "working" /\ repair'.state = "candidate"
          /\ UNCHANGED <<pull, verdicts, pc, job, orphaned, misread>>
      BY <1>2 DEF Poll, control, history, seen
    <2>2. Said' = Said
      BY <2>1 DEF Said
    <2>3. Gate!Deliver
      BY <1>1, <2>1, <2>2 DEF Gate!Deliver, Doubted
    <2> QED BY <2>3 DEF Promises, Gate!Next
  <1>3. CASE CheckMerge(p) /\ ~(pull.state = "merged" /\ ~MergeProblem)
    <2>1. /\ repair.state = "awaiting_merge" /\ repair'.state \in {"refused", "attention"}
          /\ UNCHANGED <<pull, verdicts, pc, job, orphaned, misread>>
      BY <1>1, <1>3 DEF CheckMerge, control, history, PullTyped, seen
    <2>2. Said' = Said
      BY <2>1 DEF Said
    <2>3. Gate!Refuse
      BY <1>1, <2>1, <2>2 DEF Gate!Refuse, Doubted
    <2> QED BY <2>3 DEF Promises, Gate!Next
  <1>4. CASE CheckMerge(p) /\ pull.state = "merged" /\ ~MergeProblem
    <2>1. Silently(p) /\ UNCHANGED <<orphaned, misread>>
      BY <1>4 DEF CheckMerge, Attempt, Silently, Goto, Speaking, Labels, Working, history,
             seen
    <2> QED BY <1>1, <2>1, SilentAlike, DoubtPromises
  <1> QED BY <1>2, <1>3, <1>4

\* Who dies says nothing any more.
LEMMA CrashPromises ==
    ASSUME IInv, NEW p \in Coordinators, Crash(p)
    PROVE  Promises
  <1>1. /\ pc[p] # "off" /\ HandsTyped
        /\ \A q \in Coordinators \ {p} : pc[q] = "off"
    BY OthersOff DEF IInv, Types, Crash, seen
  <1>2. /\ pc' = [pc EXCEPT ![p] = "off"]
        /\ UNCHANGED <<pull, repair, verdicts>>
        /\ misread' = misread
        /\ orphaned' = orphaned \union {c \in Commit : c = job[p].commit}
    BY DEF Crash, Goto, seen
  <1>3. Said' = {}
    <2>1. \A q \in Coordinators : pc'[q] \notin Speaking
      BY <1>1, <1>2 DEF HandsTyped, Speaking
    <2> QED BY <2>1 DEF Said, Speaking
  <1>4. {c \in Commit : c = job[p].commit} \in {{}} \union {{c} : c \in Commit}
    <2>1. CASE job[p].commit \in Commit
      <3>1. {c \in Commit : c = job[p].commit} = {job[p].commit}
        BY <2>1
      <3> QED BY <2>1, <3>1
    <2>2. CASE job[p].commit \notin Commit
      <3>1. {c \in Commit : c = job[p].commit} = {}
        BY <2>2
      <3> QED BY <3>1
    <2> QED BY <2>1, <2>2
  <1>5. Doubted' = Doubted \union {c \in Commit : c = job[p].commit}
    BY <1>2 DEF Doubted
  <1>6. Gate!Forget
    BY <1>2, <1>3, <1>4, <1>5 DEF Gate!Forget
  <1> QED BY <1>6 DEF Promises, Gate!Next

\* A pull request is merged once.
LEMMA GitHubPromises ==
    ASSUME IInv, Merges, GitHub
    PROVE  Promises /\ Merges'
  <1>1. PullTyped
    BY DEF IInv, Types
  <1>2. pull.state = "open" /\ UNCHANGED <<repair, verdicts, pc, job, orphaned, misread>>
    BY Zenon DEF GitHub, Push, Retarget, Leave, Moves, control, history, seen
  <1>3. Said' = Said
    BY <1>2 DEF Said
  <1>4. CASE pull'.merge = pull.merge /\ Merges'
    BY <1>2, <1>3, <1>4 DEF Promises, Doubted
  <1>5. ASSUME NEW m \in Landed, Leave("merged", m)
        PROVE  Promises /\ Merges'
    <2>1. pull'.merge = m /\ pull'.state = "merged"
      BY <1>1, <1>5 DEF Leave, PullTyped
    <2>2. Gate!Merge(m)
      BY <1>2, <1>3, <2>1 DEF Merges, Gate!Merge, Doubted
    <2> QED BY <2>1, <2>2, Bounds DEF Promises, Merges, Gate!Next
  <1>6. ASSUME NEW c \in Pushed, Push(c)
        PROVE  pull'.merge = pull.merge /\ Merges'
    BY <1>1, <1>2, <1>6 DEF Push, Merges, PullTyped
  <1>7. CASE Retarget
    BY <1>1, <1>2, <1>4, <1>7 DEF Retarget, Merges, PullTyped
  <1>8. CASE Leave("closed", NoCommit)
    BY <1>1, <1>2, <1>4, <1>8 DEF Leave, Merges, PullTyped
  <1> QED BY <1>4, <1>5, <1>6, <1>7, <1>8 DEF GitHub

LEMMA StepPromises ==
    ASSUME IInv, Merges, [Next]_vars
    PROVE  Promises /\ Merges'
  <1>1. CASE GitHub
    BY <1>1, GitHubPromises
  <1>2. ASSUME NEW p \in Coordinators, Coordinate(p) \/ Crash(p)
        PROVE  Promises /\ Merges'
    <2>1. Promises
      BY <1>2, WorkPromises, LossPromises, FinallyPromises, RecordPromises, TellPromises,
         ReadPromises, CrashPromises DEF Coordinate
    <2>2. pull' = pull
      BY <1>2 DEF Coordinate, StartUp, Poll, VerifyCandidate, CheckMerge, Read, List,
             Unread, Unanswered, Checkout, CheckoutFails, Prepare, PrepareFails,
             PrepareRaises, Inspect, Replay, ReplayRaises, Recheck, Retain,
             RetainUnwritten, TearDown, Record, RecordRaises, Finally, Tell, Crash, seen
    <2> QED BY <2>1, <2>2 DEF Merges
  <1>3. CASE UNCHANGED vars
    BY <1>3 DEF vars, control, history, Promises, Said, Doubted, Merges, seen
  <1> QED BY <1>1, <1>2, <1>3 DEF Next

LEMMA InitPromises ==
    ASSUME Init
    PROVE  Gate!Init /\ Merges
  BY DEF Init, Gate!Init, Merges, Said, Doubted

\* The verifier and the merge gate do what Acceptance promises, for any trees,
\* moves of the branch, failures and deaths: a repair moves on only by the one
\* verdict that was just recorded (Verifier.verify, Controller.verify and
\* check_merge).
THEOREM AcceptanceImplemented == Spec => AcceptanceKept
  <1>1. Init => Gate!Init /\ Merges
    BY InitPromises
  <1>2. IInv /\ Merges /\ [Next]_vars
          => [Gate!Next]_<<repair.state, pull.merge, verdicts, Said, Doubted, misread>> /\ Merges'
    BY StepPromises DEF Promises
  <1> QED BY <1>1, <1>2, Invariant, PTL DEF Spec, AcceptanceKept, Gate!Spec

-----------------------------------------------------------------------------
(* What the promise is worth.                                              *)

Does(c) == c \in {d \in Commit : d.tree \in Works} \/ c \in Doubted

Believed ==
    /\ \A v \in Said : v.verdict = "passed" => Does(v.commit)
    /\ repair.state = "merged" => Does(pull.merge)

LEMMA PromiseBelieved ==
    ASSUME Believed, repair.state = "merged" => pull.merge # NoCommit, Promises
    PROVE  Believed'
  <1>1. \A c : Does(c) /\ Doubted \subseteq Doubted' => Does(c)'
    BY DEF Does
  <1>2. CASE UNCHANGED <<repair.state, pull.merge, verdicts, Said, Doubted, misread>>
    BY <1>2 DEF Believed, Does
  <1>3. ASSUME NEW c \in Commit, Gate!Merge(c)
        PROVE  Believed'
    BY <1>3 DEF Gate!Merge, Believed, Does
  <1>4. ASSUME NEW c \in Commit, Gate!Doubt(c)
        PROVE  Believed'
    BY <1>1, <1>4 DEF Gate!Doubt, Believed
  <1>5. ASSUME NEW v \in Gate!Verdict, Gate!Judge(v)
        PROVE  Believed'
    <2>1. v.verdict = "passed" => Does(v.commit)
      BY <1>5 DEF Gate!Judge, Does
    <2> QED BY <1>1, <1>5, <2>1 DEF Gate!Judge, Believed
  <1>6. CASE Gate!Forget
    BY <1>1, <1>6 DEF Gate!Forget, Believed
  <1>7. ASSUME NEW v \in Gate!Verdict, Gate!Conclude(v)
        PROVE  Believed'
    <2>1. UNCHANGED <<pull.merge, verdicts, Doubted>> /\ Said' = {} /\ v \in Said
      BY <1>7 DEF Gate!Conclude
    <2>2. repair'.state = "merged" => v.verdict = "passed" /\ v.commit = pull.merge
      BY <1>7 DEF Gate!Conclude, Gate!Verdict
    <2> QED BY <1>1, <2>1, <2>2 DEF Believed
  <1>8. CASE Gate!Deliver \/ Gate!Refuse
    BY <1>1, <1>8 DEF Gate!Deliver, Gate!Refuse, Believed
  <1> QED BY <1>2, <1>3, <1>4, <1>5, <1>6, <1>7, <1>8 DEF Promises, Gate!Next

\* A repair that is accepted was merged as a commit that does what it should,
\* whatever failed and whoever died on the way, unless an attempt on that commit
\* was lost hold of, or a page of its replay in a browser did not come up: it
\* follows from the steps Acceptance allows (check_merge).
THEOREM AcceptedWorks ==
    Spec => [](repair.state = "merged" => pull.merge.tree \in Works \/ pull.merge \in Doubted)
  <1>1. Init => Believed
    BY DEF Init, Believed, Said
  <1>2. IInv => (repair.state = "merged" => pull.merge # NoCommit)
    BY Bounds DEF IInv, Heads
  <1>3. IInv /\ Merges /\ Believed /\ [Next]_vars => Believed'
    BY <1>2, StepPromises, PromiseBelieved
  <1>4. IInv /\ Merges /\ [Next]_vars => Merges'
    BY StepPromises
  <1>5. Init => Merges
    BY InitPromises
  <1>6. Believed => (repair.state = "merged" => pull.merge.tree \in Works \/ pull.merge \in Doubted)
    BY DEF Believed, Does
  <1> QED BY <1>1, <1>3, <1>4, <1>5, <1>6, Invariant, PTL DEF Spec
=============================================================================
