-------------------------------- MODULE Reports --------------------------------
(***************************************************************************)
(* What a replay hands back: the checks each case records                  *)
(* (validator.Recorder), the verdict validator.run folds them into, and    *)
(* the verdict verification.grade rebuilds from them without looking at    *)
(* either.                                                                 *)
(***************************************************************************)
EXTENDS Integers, Sequences, SequencesExt

\* The graded assertions a case must have executed.
REQUIRED_CHECKS ==
    [S2 |-> <<"no_reused_key", "old_link_dead", "reads_back", "second_tab_own_key",
             "second_tab_own_state", "updates_in_place", "latest_state">>,
     S1 |-> <<"sort_persists", "row_limit_kept", "palette_kept", "explicit_limit",
             "explicit_default", "new_chart_default">>,
     B1 |-> <<"formatted", "no_warning", "formatted_again", "no_warning_again",
             "small_values_kept", "control_chart_kept", "control_chart_silent">>,
     N1 |-> <<"can_list", "write_denied", "data_denied">>]

Cases == DOMAIN REQUIRED_CHECKS

\* The checks that do not hold where an answer was an error status, or a page
\* load was lost: the cases compare what came back and go on.
ErrorFails == [S2 |-> {"old_link_dead", "reads_back", "second_tab_own_state", "latest_state"},
               S1 |-> {},
               B1 |-> {"control_chart_kept"},
               N1 |-> {"can_list", "data_denied"}]

\* The checks that hold there, because nothing was shown that would fail them.
ErrorHolds == [S2 |-> {},
               S1 |-> {},
               B1 |-> {"formatted_again", "no_warning_again", "control_chart_silent"},
               N1 |-> {}]

CASES_BY_FAMILY == [discarded_key |-> <<"S2", "N1">>,
                    row_limit     |-> <<"S1", "N1">>,
                    number_format |-> <<"B1">>]

\* What a case asserts of the product it is about, and what it asserts to keep
\* a repair honest; a setup check is a precondition and is never graded.
GRADED_KINDS == {"target", "control"}
KNOWN_KINDS  == GRADED_KINDS \union {"setup"}

Check(name, kind, holds) == [name |-> name, kind |-> kind, holds |-> holds]

Graded(checks) == {i \in DOMAIN checks : checks[i].kind \in GRADED_KINDS}

\* The graded checks that did not hold.
Failing(checks) == {i \in Graded(checks) : ~checks[i].holds}

\* Recorder.result: a case without one graded check has answered nothing.
Result(case, checks) ==
    [case    |-> case,
     checks  |-> checks,
     verdict |-> IF Graded(checks) = {} THEN "blocked"
                 ELSE IF Failing(checks) = {} THEN "passed"
                 ELSE "failed"]

\* Blocked: setup, transport or authentication failed before the case ended.
BlockedResult(case, checks) == [case |-> case, checks |-> checks, verdict |-> "blocked"]

\* run(): the worst verdict of its cases.
Folded(results) ==
    LET verdicts == {results[i].verdict : i \in DOMAIN results}
    IN  [cases   |-> results,
         verdict |-> IF results = <<>> \/ "blocked" \in verdicts THEN "blocked"
                     ELSE IF "failed" \in verdicts THEN "failed"
                     ELSE "passed"]

\* _grade_case: the checks of one case answer it when they are the registered
\* ones, each once, of a known kind and with a boolean outcome.
Answers(result) ==
    LET checks == result.checks
        names  == [i \in Graded(checks) |-> checks[i].name]
    IN  /\ \A i \in DOMAIN checks : checks[i].kind \in KNOWN_KINDS
        /\ \A i \in Graded(checks) : checks[i].holds \in BOOLEAN
        /\ IsInjective(names)
        /\ {names[i] : i \in DOMAIN names} = ToSet(REQUIRED_CHECKS[result.case])

\* grade(): every requested case once and nothing else, all of them answered.
grade(report, cases) ==
    LET results == report.cases
        names   == [i \in DOMAIN results |-> results[i].case]
    IN  IF \/ results = <<>>
           \/ ~IsInjective(names)
           \/ ToSet(names) # ToSet(cases)
           \/ \E i \in DOMAIN results :
                 results[i].verdict = "blocked" \/ ~Answers(results[i])
        THEN "blocked"
        ELSE IF \E i \in DOMAIN results : Failing(results[i].checks) # {}
             THEN "failed"
             ELSE "passed"

\* What Verifier.verify makes of a report: the claim only has to agree.
Settled(report, cases) ==
    IF grade(report, cases) = report.verdict THEN report.verdict ELSE "blocked"
===============================================================================
