---------------------------- MODULE ValidatorProofs ----------------------------
(***************************************************************************)
(* For every product: what the validator says of it is what it does.  Each *)
(* case is worked through by hand, as far as it depends on the product,    *)
(* and the verdict of a family is put together from its cases.             *)
(***************************************************************************)
EXTENDS Validator, TLAPS

-----------------------------------------------------------------------------
(* Reports. *)

\* The cases of a family, in the order in which they are run.
Namings == {<<"S2", "N1">>, <<"S1", "N1">>, <<"B1">>}

LEMMA FamilyNamings ==
    /\ DOMAIN CASES_BY_FAMILY = {"discarded_key", "row_limit", "number_format"}
    /\ CASES_BY_FAMILY["discarded_key"] = <<"S2", "N1">>
    /\ CASES_BY_FAMILY["row_limit"] = <<"S1", "N1">>
    /\ CASES_BY_FAMILY["number_format"] = <<"B1">>
  BY DEF CASES_BY_FAMILY

LEMMA NamesApart ==
    ASSUME NEW names \in Namings
    PROVE  \E n \in 1..2 : /\ DOMAIN names = 1..n
                           /\ \A i, j \in 1..n : names[i] = names[j] => i = j
  <1>1. CASE names = <<"B1">>
    <2>1. DOMAIN names = 1..1
      BY <1>1
    <2> QED BY <2>1
  <1>2. CASE names = <<"S2", "N1">> \/ names = <<"S1", "N1">>
    <2>1. DOMAIN names = 1..2 /\ names[1] # names[2]
      BY <1>2
    <2>2. \A i, j \in 1..2 : names[i] = names[j] => i = j
      BY <2>1
    <2> QED BY <2>1, <2>2
  <1> QED BY <1>1, <1>2 DEF Namings

\* A result that is blocked, or shows what its verdict says.
Honestly(result) ==
    \/ result.verdict = "blocked"
    \/ /\ Answers(result)
       /\ result.verdict = IF Failing(result.checks) = {} THEN "passed" ELSE "failed"

Worst(results) ==
    IF \E i \in DOMAIN results : results[i].verdict = "blocked" THEN "blocked"
    ELSE IF \E i \in DOMAIN results : results[i].verdict = "failed" THEN "failed"
    ELSE "passed"

\* run() and grade() come to the same verdict.
LEMMA SettledIsWorst ==
    ASSUME NEW names \in Namings, NEW results, DOMAIN results = DOMAIN names,
           \A i \in DOMAIN names : results[i].case = names[i] /\ Honestly(results[i])
    PROVE  Settled(Folded(results), names) = Worst(results)
  <1> PICK n \in 1..2 : /\ DOMAIN names = 1..n
                        /\ \A i, j \in 1..n : names[i] = names[j] => i = j
    BY NamesApart
  <1>1. 1 \in DOMAIN results /\ results # <<>>
    BY DEF Namings
  <1> DEFINE verdicts == {results[i].verdict : i \in DOMAIN results}
             told == [i \in DOMAIN results |-> results[i].case]
             report == Folded(results)
  <1>2. report.cases = results /\ report.verdict = Worst(results)
    BY <1>1 DEF Folded, Worst
  <1>3. IsInjective(told) /\ ToSet(told) = ToSet(names)
    BY DEF IsInjective, ToSet
  <1>4. grade(report, names) =
            IF \E i \in DOMAIN results : results[i].verdict = "blocked" \/ ~Answers(results[i])
            THEN "blocked"
            ELSE IF \E i \in DOMAIN results : Failing(results[i].checks) # {}
                 THEN "failed" ELSE "passed"
    <2> HIDE DEF report
    <2> QED BY <1>1, <1>2, <1>3 DEF grade
  <1>5. grade(report, names) = Worst(results)
    <2> HIDE DEF report
    <2>1. CASE \E i \in DOMAIN results : results[i].verdict = "blocked"
      BY <1>4, <2>1 DEF Worst
    <2>2. CASE \A i \in DOMAIN results : results[i].verdict # "blocked"
      <3>1. \A i \in DOMAIN results :
                /\ Answers(results[i])
                /\ results[i].verdict = "failed" <=> Failing(results[i].checks) # {}
        BY <2>2 DEF Honestly
      <3> QED BY <1>4, <2>2, <3>1 DEF Worst
    <2> QED BY <2>1, <2>2
  <1>6. Settled(report, names) = Worst(results)
    <2> HIDE DEF report
    <2> QED BY <1>2, <1>5 DEF Settled
  <1> QED BY <1>6

\* The checks of a case: the registered ones, each once, and preconditions.
Complete(name, checks) ==
    /\ \A i \in DOMAIN checks : checks[i].kind \in KNOWN_KINDS /\ checks[i].holds \in BOOLEAN
    /\ \A i, j \in Graded(checks) : checks[i].name = checks[j].name => i = j
    /\ {checks[i].name : i \in Graded(checks)} = ToSet(REQUIRED_CHECKS[name])
    /\ Graded(checks) # {}

Met(checks) == \A i \in DOMAIN checks : checks[i].kind = "setup" => checks[i].holds
Held(checks) == \A i \in DOMAIN checks : checks[i].kind \in GRADED_KINDS => checks[i].holds

LEMMA RecordedIs ==
    ASSUME NEW name, NEW checks, Complete(name, checks)
    PROVE  /\ Recorded(name, checks).case = name
           /\ Honestly(Recorded(name, checks))
           /\ Recorded(name, checks).verdict =
                 IF ~Met(checks) THEN "blocked" ELSE IF Held(checks) THEN "passed" ELSE "failed"
  <1> DEFINE broken == {i \in DOMAIN checks : checks[i].kind = "setup" /\ ~checks[i].holds}
  <1>1. broken = {} <=> Met(checks)
    BY DEF Met
  <1>2. CASE broken # {}
    <2>1. Recorded(name, checks) = BlockedResult(name, SubSeq(checks, 1, Min(broken)))
      BY <1>2 DEF Recorded
    <2> QED BY <1>1, <1>2, <2>1 DEF BlockedResult, Honestly
  <1>3. CASE broken = {}
    <2>1. Recorded(name, checks) = Result(name, checks)
      BY <1>3 DEF Recorded
    <2>2. /\ Result(name, checks).case = name /\ Result(name, checks).checks = checks
          /\ Result(name, checks).verdict = IF Failing(checks) = {} THEN "passed" ELSE "failed"
      BY DEF Result, Complete
    <2>3. Failing(checks) = {} <=> Held(checks)
      BY DEF Failing, Graded, Held
    <2>4. Answers(Result(name, checks))
      <3> DEFINE its == [i \in Graded(checks) |-> checks[i].name]
      <3>1. IsInjective(its) /\ {its[i] : i \in DOMAIN its} = ToSet(REQUIRED_CHECKS[name])
        BY DEF Complete, IsInjective
      <3>2. \A i \in Graded(checks) : i \in DOMAIN checks
        BY DEF Graded
      <3>3. \A i \in DOMAIN checks : checks[i].kind \in KNOWN_KINDS /\ checks[i].holds \in BOOLEAN
        BY DEF Complete
      <3> QED BY <2>2, <3>1, <3>2, <3>3 DEF Answers
    <2> QED BY <1>1, <1>3, <2>1, <2>2, <2>3, <2>4 DEF Honestly
  <1> QED BY <1>2, <1>3
-----------------------------------------------------------------------------
(* What each case records, whatever its checks come to. *)

\* The checks of each case in their order, each with its kind.
Asked ==
    [S2 |-> <<<<"read_a", "setup">>, <<"gone", "setup">>, <<"no_reused_key", "target">>,
            <<"old_link_dead", "target">>, <<"reads_back", "target">>,
            <<"second_tab_own_key", "control">>, <<"second_tab_own_state", "control">>,
            <<"updates_in_place", "control">>, <<"latest_state", "control">>>>,
     S1 |-> <<<<"starts", "setup">>, <<"sort_persists", "target">>,
            <<"row_limit_kept", "target">>, <<"palette_kept", "control">>,
            <<"explicit_limit", "control">>, <<"explicit_default", "control">>,
            <<"new_chart_default", "control">>>>,
     N1 |-> <<<<"can_list", "control">>, <<"write_answered", "setup">>,
            <<"write_denied", "target">>, <<"data_denied", "target">>>>,
     B1 |-> <<<<"rendered", "setup">>, <<"formatted", "target">>, <<"no_warning", "target">>,
            <<"formatted_again", "target">>, <<"no_warning_again", "target">>,
            <<"small_values_kept", "control">>, <<"control_chart_kept", "control">>,
            <<"control_chart_silent", "control">>>>]

Shaped(name, row) ==
    /\ DOMAIN row = DOMAIN Asked[name]
    /\ \A i \in DOMAIN row :
          /\ row[i].name = Asked[name][i][1] /\ row[i].kind = Asked[name][i][2]
          /\ row[i].holds \in BOOLEAN

LEMMA AsksS2 ==
    ASSUME NEW row, Shaped("S2", row)
    PROVE  /\ Complete("S2", row)
           /\ Met(row) <=> row[1].holds /\ row[2].holds
           /\ Held(row) <=> \A i \in 3..9 : row[i].holds
  <1>1. /\ DOMAIN row = 1..9 /\ \A i \in 1..9 : row[i].holds \in BOOLEAN
        /\ row[1].name = "read_a" /\ row[1].kind = "setup"
        /\ row[2].name = "gone" /\ row[2].kind = "setup"
        /\ row[3].name = "no_reused_key" /\ row[3].kind = "target"
        /\ row[4].name = "old_link_dead" /\ row[4].kind = "target"
        /\ row[5].name = "reads_back" /\ row[5].kind = "target"
        /\ row[6].name = "second_tab_own_key" /\ row[6].kind = "control"
        /\ row[7].name = "second_tab_own_state" /\ row[7].kind = "control"
        /\ row[8].name = "updates_in_place" /\ row[8].kind = "control"
        /\ row[9].name = "latest_state" /\ row[9].kind = "control"
    BY DEF Shaped, Asked
  <1>2. Graded(row) = 3..9
    BY <1>1 DEF Graded, GRADED_KINDS
  <1>3. ToSet(REQUIRED_CHECKS["S2"]) =
            {"no_reused_key", "old_link_dead", "reads_back", "second_tab_own_key",
             "second_tab_own_state", "updates_in_place", "latest_state"}
    BY DEF ToSet, REQUIRED_CHECKS
  <1>4. {row[i].name : i \in 3..9} = ToSet(REQUIRED_CHECKS["S2"])
    BY <1>1, <1>3
  <1>5. \A i, j \in 3..9 : row[i].name = row[j].name => i = j
    BY <1>1
  <1>6. \A i \in 1..9 : row[i].kind \in KNOWN_KINDS
    BY <1>1 DEF KNOWN_KINDS, GRADED_KINDS
  <1>7. Complete("S2", row)
    BY <1>1, <1>2, <1>4, <1>5, <1>6 DEF Complete
  <1>8. Met(row) <=> row[1].holds /\ row[2].holds
    BY <1>1 DEF Met
  <1>9. Held(row) <=> \A i \in 3..9 : row[i].holds
    BY <1>1 DEF Held, GRADED_KINDS
  <1> QED BY <1>7, <1>8, <1>9

LEMMA AsksS1 ==
    ASSUME NEW row, Shaped("S1", row)
    PROVE  /\ Complete("S1", row)
           /\ Met(row) <=> row[1].holds
           /\ Held(row) <=> \A i \in 2..7 : row[i].holds
  <1>1. /\ DOMAIN row = 1..7 /\ \A i \in 1..7 : row[i].holds \in BOOLEAN
        /\ row[1].name = "starts" /\ row[1].kind = "setup"
        /\ row[2].name = "sort_persists" /\ row[2].kind = "target"
        /\ row[3].name = "row_limit_kept" /\ row[3].kind = "target"
        /\ row[4].name = "palette_kept" /\ row[4].kind = "control"
        /\ row[5].name = "explicit_limit" /\ row[5].kind = "control"
        /\ row[6].name = "explicit_default" /\ row[6].kind = "control"
        /\ row[7].name = "new_chart_default" /\ row[7].kind = "control"
    BY DEF Shaped, Asked
  <1>2. Graded(row) = 2..7
    BY <1>1 DEF Graded, GRADED_KINDS
  <1>3. ToSet(REQUIRED_CHECKS["S1"]) =
            {"sort_persists", "row_limit_kept", "palette_kept", "explicit_limit",
             "explicit_default", "new_chart_default"}
    BY DEF ToSet, REQUIRED_CHECKS
  <1>4. {row[i].name : i \in 2..7} = ToSet(REQUIRED_CHECKS["S1"])
    BY <1>1, <1>3
  <1>5. \A i, j \in 2..7 : row[i].name = row[j].name => i = j
    BY <1>1
  <1>6. \A i \in 1..7 : row[i].kind \in KNOWN_KINDS
    BY <1>1 DEF KNOWN_KINDS, GRADED_KINDS
  <1>7. Complete("S1", row)
    BY <1>1, <1>2, <1>4, <1>5, <1>6 DEF Complete
  <1>8. Met(row) <=> row[1].holds
    BY <1>1 DEF Met
  <1>9. Held(row) <=> \A i \in 2..7 : row[i].holds
    BY <1>1 DEF Held, GRADED_KINDS
  <1> QED BY <1>7, <1>8, <1>9

LEMMA AsksN1 ==
    ASSUME NEW row, Shaped("N1", row)
    PROVE  /\ Complete("N1", row)
           /\ Met(row) <=> row[2].holds
           /\ Held(row) <=> \A i \in {1, 3, 4} : row[i].holds
  <1>1. /\ DOMAIN row = 1..4 /\ \A i \in 1..4 : row[i].holds \in BOOLEAN
        /\ row[1].name = "can_list" /\ row[1].kind = "control"
        /\ row[2].name = "write_answered" /\ row[2].kind = "setup"
        /\ row[3].name = "write_denied" /\ row[3].kind = "target"
        /\ row[4].name = "data_denied" /\ row[4].kind = "target"
    BY DEF Shaped, Asked
  <1>2. Graded(row) = {1, 3, 4}
    BY <1>1 DEF Graded, GRADED_KINDS
  <1>3. ToSet(REQUIRED_CHECKS["N1"]) =
            {"can_list", "write_denied", "data_denied"}
    BY DEF ToSet, REQUIRED_CHECKS
  <1>4. {row[i].name : i \in {1, 3, 4}} = ToSet(REQUIRED_CHECKS["N1"])
    BY <1>1, <1>3
  <1>5. \A i, j \in {1, 3, 4} : row[i].name = row[j].name => i = j
    BY <1>1
  <1>6. \A i \in 1..4 : row[i].kind \in KNOWN_KINDS
    BY <1>1 DEF KNOWN_KINDS, GRADED_KINDS
  <1>7. Complete("N1", row)
    BY <1>1, <1>2, <1>4, <1>5, <1>6 DEF Complete
  <1>8. Met(row) <=> row[2].holds
    BY <1>1 DEF Met
  <1>9. Held(row) <=> \A i \in {1, 3, 4} : row[i].holds
    BY <1>1 DEF Held, GRADED_KINDS
  <1> QED BY <1>7, <1>8, <1>9

LEMMA AsksB1 ==
    ASSUME NEW row, Shaped("B1", row)
    PROVE  /\ Complete("B1", row)
           /\ Met(row) <=> row[1].holds
           /\ Held(row) <=> \A i \in 2..8 : row[i].holds
  <1>1. /\ DOMAIN row = 1..8 /\ \A i \in 1..8 : row[i].holds \in BOOLEAN
        /\ row[1].name = "rendered" /\ row[1].kind = "setup"
        /\ row[2].name = "formatted" /\ row[2].kind = "target"
        /\ row[3].name = "no_warning" /\ row[3].kind = "target"
        /\ row[4].name = "formatted_again" /\ row[4].kind = "target"
        /\ row[5].name = "no_warning_again" /\ row[5].kind = "target"
        /\ row[6].name = "small_values_kept" /\ row[6].kind = "control"
        /\ row[7].name = "control_chart_kept" /\ row[7].kind = "control"
        /\ row[8].name = "control_chart_silent" /\ row[8].kind = "control"
    BY DEF Shaped, Asked
  <1>2. Graded(row) = 2..8
    BY <1>1 DEF Graded, GRADED_KINDS
  <1>3. ToSet(REQUIRED_CHECKS["B1"]) =
            {"formatted", "no_warning", "formatted_again", "no_warning_again",
             "small_values_kept", "control_chart_kept", "control_chart_silent"}
    BY DEF ToSet, REQUIRED_CHECKS
  <1>4. {row[i].name : i \in 2..8} = ToSet(REQUIRED_CHECKS["B1"])
    BY <1>1, <1>3
  <1>5. \A i, j \in 2..8 : row[i].name = row[j].name => i = j
    BY <1>1
  <1>6. \A i \in 1..8 : row[i].kind \in KNOWN_KINDS
    BY <1>1 DEF KNOWN_KINDS, GRADED_KINDS
  <1>7. Complete("B1", row)
    BY <1>1, <1>2, <1>4, <1>5, <1>6 DEF Complete
  <1>8. Met(row) <=> row[1].holds
    BY <1>1 DEF Met
  <1>9. Held(row) <=> \A i \in 2..8 : row[i].holds
    BY <1>1 DEF Held, GRADED_KINDS
  <1> QED BY <1>7, <1>8, <1>9

-----------------------------------------------------------------------------
(* What the cases say of a product. *)

\* A case has said so: its result counts, and has this verdict.
Says(name, checks, verdict) ==
    /\ Recorded(name, checks).case = name
    /\ Honestly(Recorded(name, checks))
    /\ Recorded(name, checks).verdict = verdict

LEMMA TermsTyped ==
    ASSUME NEW product \in Product
    PROVE  /\ product.keys \in {"renewed", "reused", "unshared"}
           /\ product.tabs \in {"own", "shared"} /\ product.deletes \in BOOLEAN
           /\ product.omitted \in {"kept", "default"}
           /\ product.explicit \in {"applied", "unless_default", "ignored"}
           /\ product.palette \in {"kept", "dropped"}
           /\ product.sorts \in BOOLEAN /\ product.defaults \in BOOLEAN
           /\ product.write \in {"denied", "allowed", "broken"}
           /\ product.data \in {"denied", "allowed", "broken"}
           /\ product.large \subseteq {"fresh", "again"}
           /\ product.small \subseteq {"fresh", "control"}
           /\ product.quiet \subseteq Pages
  BY DEF Product

\* The terms of each contract, one by one.
LEMMA ContractTerms ==
    ASSUME NEW product \in Product
    PROVE  /\ Meets(product, Contract["discarded_key"]) <=>
                 product.keys = "renewed" /\ product.tabs = "own" /\ product.deletes
           /\ Meets(product, Contract["row_limit"]) <=>
                 /\ product.omitted = "kept" /\ product.explicit = "applied"
                 /\ product.palette = "kept" /\ product.sorts /\ product.defaults
           /\ Meets(product, Contract["number_format"]) <=>
                 /\ product.large = {"fresh", "again"} /\ product.small = {"fresh", "control"}
                 /\ product.quiet = Pages
           /\ Meets(product, Denials) <=> product.write = "denied" /\ product.data = "denied"
  <1>1. Meets(product, Contract["discarded_key"]) <=>
            product.keys = "renewed" /\ product.tabs = "own" /\ product.deletes
    <2> DEFINE terms == [keys |-> "renewed", tabs |-> "own", deletes |-> TRUE]
    <2>1. /\ DOMAIN terms = {"keys", "tabs", "deletes"}
          /\ terms["keys"] = "renewed"
          /\ terms["tabs"] = "own"
          /\ terms["deletes"] = TRUE
      OBVIOUS
    <2>2. Contract["discarded_key"] = terms
      BY DEF Contract
    <2> HIDE DEF terms
    <2>3. Meets(product, terms) <=>
              /\ product["keys"] = "renewed"
              /\ product["tabs"] = "own"
              /\ product["deletes"] = TRUE
      BY <2>1 DEF Meets
    <2> QED BY <2>2, <2>3, TermsTyped
  <1>2. Meets(product, Contract["row_limit"]) <=>
            /\ product.omitted = "kept" /\ product.explicit = "applied"
            /\ product.palette = "kept" /\ product.sorts /\ product.defaults
    <2> DEFINE terms == [omitted |-> "kept", explicit |-> "applied", palette |-> "kept",
                        sorts |-> TRUE, defaults |-> TRUE]
    <2>1. /\ DOMAIN terms = {"omitted", "explicit", "palette", "sorts", "defaults"}
          /\ terms["omitted"] = "kept"
          /\ terms["explicit"] = "applied"
          /\ terms["palette"] = "kept"
          /\ terms["sorts"] = TRUE
          /\ terms["defaults"] = TRUE
      OBVIOUS
    <2>2. Contract["row_limit"] = terms
      BY DEF Contract
    <2> HIDE DEF terms
    <2>3. Meets(product, terms) <=>
              /\ product["omitted"] = "kept"
              /\ product["explicit"] = "applied"
              /\ product["palette"] = "kept"
              /\ product["sorts"] = TRUE
              /\ product["defaults"] = TRUE
      BY <2>1 DEF Meets
    <2> QED BY <2>2, <2>3, TermsTyped
  <1>3. Meets(product, Contract["number_format"]) <=>
            /\ product.large = {"fresh", "again"} /\ product.small = {"fresh", "control"}
            /\ product.quiet = Pages
    <2> DEFINE terms == [large |-> {"fresh", "again"}, small |-> {"fresh", "control"},
                        quiet |-> Pages]
    <2>1. /\ DOMAIN terms = {"large", "small", "quiet"}
          /\ terms["large"] = {"fresh", "again"}
          /\ terms["small"] = {"fresh", "control"}
          /\ terms["quiet"] = Pages
      OBVIOUS
    <2>2. Contract["number_format"] = terms
      BY DEF Contract
    <2> HIDE DEF terms
    <2>3. Meets(product, terms) <=>
              /\ product["large"] = {"fresh", "again"}
              /\ product["small"] = {"fresh", "control"}
              /\ product["quiet"] = Pages
      BY <2>1 DEF Meets
    <2> QED BY <2>2, <2>3
  <1>4. Meets(product, Denials) <=> product.write = "denied" /\ product.data = "denied"
    BY TermsTyped DEF Meets, Denials
  <1> QED BY <1>1, <1>2, <1>3, <1>4

\* The restricted role has to be denied both.
LEMMA N1Says ==
    ASSUME NEW product \in Product
    PROVE  /\ Shaped("N1", case_n1(product))
           /\ Met(case_n1(product)) <=> product.write # "broken"
           /\ Says("N1", case_n1(product),
                   IF product.write = "broken" THEN "blocked"
                   ELSE IF product.write = "denied" /\ product.data = "denied" THEN "passed"
                   ELSE "failed")
  <1> DEFINE row == case_n1(product)
  <1>1. Shaped("N1", row)
    <2>1. DOMAIN row = 1..4
      BY DEF row, case_n1
    <2>2. /\ row[1].holds \in BOOLEAN /\ row[2].holds \in BOOLEAN
          /\ row[3].holds \in BOOLEAN /\ row[4].holds \in BOOLEAN
      <3>1. /\ row[1].holds = TRUE
            /\ row[2].holds = (Answer(product.write, 201) < 500)
            /\ row[3].holds = (Answer(product.write, 201) = 403)
            /\ row[4].holds = (Answer(product.data, 200) = 403)
        BY DEF row, case_n1, setup, target, control, Check
      <3> HIDE DEF row
      <3>2. TRUE \in BOOLEAN /\ (Answer(product.write, 201) < 500) \in BOOLEAN
        OBVIOUS
      <3> QED BY <3>1, <3>2, ZenonT(30)
    <2>3. /\ row[1].name = "can_list" /\ row[1].kind = "control"
          /\ row[2].name = "write_answered" /\ row[2].kind = "setup"
          /\ row[3].name = "write_denied" /\ row[3].kind = "target"
          /\ row[4].name = "data_denied" /\ row[4].kind = "target"
      BY DEF row, case_n1, setup, target, control, Check
    <2> HIDE DEF row
    <2> QED BY <2>1, <2>2, <2>3 DEF Shaped, Asked
  <1>2. /\ row[1].holds
        /\ row[2].holds <=> Answer(product.write, 201) < 500
        /\ row[3].holds <=> Answer(product.write, 201) = 403
        /\ row[4].holds <=> Answer(product.data, 200) = 403
    BY DEF case_n1, setup, target, control, Check
  <1> HIDE DEF row
  <1>3. /\ row[2].holds <=> product.write # "broken"
        /\ row[3].holds <=> product.write = "denied"
        /\ row[4].holds <=> product.data = "denied"
    BY <1>2, TermsTyped DEF Answer
  <1>4. /\ Met(row) <=> product.write # "broken"
        /\ Held(row) <=> product.write = "denied" /\ product.data = "denied"
    BY <1>1, <1>2, <1>3, AsksN1
  <1>5. Complete("N1", row)
    BY <1>1, AsksN1
  <1>6. Says("N1", row, IF ~Met(row) THEN "blocked" ELSE IF Held(row) THEN "passed" ELSE "failed")
    BY <1>5, RecordedIs DEF Says
  <1> QED BY <1>1, <1>4, <1>6 DEF row

\* A chart keeps what a change does not mention, and takes what it does.
LEMMA S1Says ==
    ASSUME NEW product \in Product
    PROVE  Says("S1", case_s1(product),
                IF Meets(product, Contract["row_limit"]) THEN "passed" ELSE "failed")
  <1> DEFINE row == case_s1(product)
             before == Generate(product, Config(137, "google", "asc"))
             sorted == Update(product, before, Config(Omitted, "omitted", "desc"))
             given  == Update(product, sorted, Only(275))
             other  == Update(product, given, Only(DEFAULT_LIMIT))
             plain  == Generate(product, Config(Omitted, "omitted", "omitted"))
  <1>1. Shaped("S1", row)
    <2> HIDE DEF before, sorted, given, other, plain
    <2>1. DOMAIN row = 1..7
      BY DEF row, case_s1
    <2>2. /\ row[1].holds \in BOOLEAN /\ row[2].holds \in BOOLEAN /\ row[3].holds \in BOOLEAN
          /\ row[4].holds \in BOOLEAN /\ row[5].holds \in BOOLEAN /\ row[6].holds \in BOOLEAN
          /\ row[7].holds \in BOOLEAN
      BY DEF row, case_s1, setup, target, control, Check
    <2>3. /\ row[1].name = "starts" /\ row[1].kind = "setup"
          /\ row[2].name = "sort_persists" /\ row[2].kind = "target"
          /\ row[3].name = "row_limit_kept" /\ row[3].kind = "target"
          /\ row[4].name = "palette_kept" /\ row[4].kind = "control"
          /\ row[5].name = "explicit_limit" /\ row[5].kind = "control"
          /\ row[6].name = "explicit_default" /\ row[6].kind = "control"
          /\ row[7].name = "new_chart_default" /\ row[7].kind = "control"
      BY DEF row, case_s1, setup, target, control, Check
    <2> HIDE DEF row
    <2> QED BY <2>1, <2>2, <2>3 DEF Shaped, Asked
  <1>2. /\ row[1].holds <=> before.limit = 137 /\ before.palette = "google"
        /\ row[2].holds <=> sorted.sort = "desc"
        /\ row[3].holds <=> sorted.limit = 137
        /\ row[4].holds <=> sorted.palette = "google"
        /\ row[5].holds <=> given.limit = 275
        /\ row[6].holds <=> other.limit = DEFAULT_LIMIT
        /\ row[7].holds <=> plain.limit = DEFAULT_LIMIT
    BY DEF case_s1, setup, target, control, Check
  <1> HIDE DEF row
  <1>3. before = [limit |-> 137, palette |-> "google", sort |-> "asc"]
    BY DEF Generate, Config, Omitted
  <1>4. /\ sorted.limit = IF product.omitted = "kept" THEN 137 ELSE 1000
        /\ sorted.palette = IF product.palette = "kept" THEN "google" ELSE "none"
        /\ sorted.sort = IF product.sorts THEN "desc" ELSE "asc"
    <2> HIDE DEF before
    <2> QED BY <1>3, TermsTyped DEF Update, Limit, Config, Omitted, DEFAULT_LIMIT
  <1>5. given.limit = IF product.explicit = "ignored" THEN sorted.limit ELSE 275
    <2> HIDE DEF sorted
    <2> QED BY TermsTyped DEF Update, Limit, Only, Config, Omitted, DEFAULT_LIMIT
  <1>6. other.limit = IF product.explicit = "applied" THEN 1000 ELSE given.limit
    <2> HIDE DEF given
    <2> QED BY TermsTyped DEF Update, Limit, Only, Config, Omitted, DEFAULT_LIMIT
  <1>7. plain.limit = IF product.defaults THEN 1000 ELSE 0
    BY DEF Generate, Config, Omitted, DEFAULT_LIMIT
  <1>8. row[1].holds
    <2> HIDE DEF before
    <2> QED BY <1>2, <1>3
  <1> HIDE DEF before, sorted, given, other, plain
  <1>9. /\ row[2].holds <=> product.sorts
        /\ row[3].holds <=> product.omitted = "kept"
        /\ row[4].holds <=> product.palette = "kept"
        /\ row[7].holds <=> product.defaults
    BY <1>2, <1>4, <1>7, TermsTyped DEF DEFAULT_LIMIT
  <1>10. row[5].holds /\ row[6].holds <=> product.explicit = "applied"
    BY <1>2, <1>4, <1>5, <1>6, TermsTyped DEF DEFAULT_LIMIT
  <1>11. Complete("S1", row) /\ Met(row) /\ (Held(row) <=> \A i \in 2..7 : row[i].holds)
    BY <1>1, <1>8, AsksS1
  <1>12. Held(row) <=> Meets(product, Contract["row_limit"])
    <2>1. (\A i \in 2..7 : row[i].holds) <=>
              /\ row[2].holds /\ row[3].holds /\ row[4].holds
              /\ row[5].holds /\ row[6].holds /\ row[7].holds
      OBVIOUS
    <2> QED BY <1>9, <1>10, <1>11, <2>1, ContractTerms
  <1>13. Says("S1", row, IF ~Met(row) THEN "blocked" ELSE IF Held(row) THEN "passed" ELSE "failed")
    BY <1>11, RecordedIs DEF Says
  <1> QED BY <1>11, <1>12, <1>13 DEF row

\* Whichever pages come up: of a page that does not, the product has the
\* benefit of the doubt.
LEMMA PresumedTerms ==
    ASSUME NEW product \in Product, NEW shown \in Showings, shown.fresh = "page"
    PROVE  Meets(Presumed(product, shown), Contract["number_format"]) <=>
              /\ "fresh" \in product.large /\ "fresh" \in product.small
              /\ "control" \in product.small /\ "fresh" \in product.quiet
              /\ shown.again = "page" => "again" \in product.large
              /\ shown.again # "nothing" => "again" \in product.quiet
              /\ shown.control # "nothing" => "control" \in product.quiet
  <1> DEFINE its == Presumed(product, shown)
  <1>1. /\ its \in Product
        /\ its.large = product.large \union {page \in {"fresh", "again"} : shown[page] # "page"}
        /\ its.quiet = product.quiet \union {page \in Pages : shown[page] = "nothing"}
        /\ its.small = product.small
    BY DEF Presumed, Product, Pages
  <1> HIDE DEF its
  <1>2. Meets(its, Contract["number_format"]) <=>
            /\ its.large = {"fresh", "again"} /\ its.small = {"fresh", "control"}
            /\ its.quiet = Pages
    BY <1>1, ContractTerms
  <1>3. its.large = {"fresh", "again"} <=>
            "fresh" \in product.large /\ (shown.again = "page" => "again" \in product.large)
    BY <1>1, TermsTyped
  <1>4. its.small = {"fresh", "control"} <=>
            "fresh" \in product.small /\ "control" \in product.small
    BY <1>1, TermsTyped
  <1>5. its.quiet = Pages <=>
            /\ "fresh" \in product.quiet
            /\ shown.again # "nothing" => "again" \in product.quiet
            /\ shown.control # "nothing" => "control" \in product.quiet
    BY <1>1, TermsTyped DEF Pages
  <1> QED BY <1>2, <1>3, <1>4, <1>5 DEF its

LEMMA B1Says ==
    ASSUME NEW product \in Product, NEW shown \in Showings
    PROVE  Says("B1", case_b1(product, shown),
                IF shown.fresh # "page" THEN "blocked"
                ELSE IF /\ shown.control = "page"
                        /\ Meets(Presumed(product, shown), Contract["number_format"])
                THEN "passed" ELSE "failed")
  <1> DEFINE row == case_b1(product, shown)
  <1>1. /\ DOMAIN row = 1..8
        /\ row[1].name = "rendered" /\ row[1].kind = "setup"
        /\ row[2].name = "formatted" /\ row[2].kind = "target"
        /\ row[3].name = "no_warning" /\ row[3].kind = "target"
        /\ row[4].name = "formatted_again" /\ row[4].kind = "target"
        /\ row[5].name = "no_warning_again" /\ row[5].kind = "target"
        /\ row[6].name = "small_values_kept" /\ row[6].kind = "control"
        /\ row[7].name = "control_chart_kept" /\ row[7].kind = "control"
        /\ row[8].name = "control_chart_silent" /\ row[8].kind = "control"
    BY DEF row, case_b1, setup, target, control, Check
  <1>2. /\ row[1].holds = (shown.fresh = "page")
        /\ row[2].holds = ("fresh" \in product.large)
        /\ row[3].holds = ("fresh" \in product.quiet)
        /\ row[4].holds = (shown.again = "page" => "again" \in product.large)
        /\ row[5].holds = (shown.again # "nothing" => "again" \in product.quiet)
        /\ row[6].holds = ("fresh" \in product.small)
        /\ row[7].holds = (shown.control = "page" /\ "control" \in product.small)
        /\ row[8].holds = (shown.control # "nothing" => "control" \in product.quiet)
    BY DEF row, case_b1, setup, target, control, Check
  <1> HIDE DEF row
  <1>3. \A i \in 1..8 : row[i].holds \in BOOLEAN
    <2>1. /\ (shown.fresh = "page") \in BOOLEAN
          /\ ("fresh" \in product.large) \in BOOLEAN
          /\ ("fresh" \in product.quiet) \in BOOLEAN
          /\ (shown.again = "page" => "again" \in product.large) \in BOOLEAN
          /\ (shown.again # "nothing" => "again" \in product.quiet) \in BOOLEAN
          /\ ("fresh" \in product.small) \in BOOLEAN
          /\ (shown.control = "page" /\ "control" \in product.small) \in BOOLEAN
          /\ (shown.control # "nothing" => "control" \in product.quiet) \in BOOLEAN
      OBVIOUS
    <2>2. /\ row[1].holds \in BOOLEAN /\ row[2].holds \in BOOLEAN
          /\ row[3].holds \in BOOLEAN /\ row[4].holds \in BOOLEAN
          /\ row[5].holds \in BOOLEAN /\ row[6].holds \in BOOLEAN
          /\ row[7].holds \in BOOLEAN /\ row[8].holds \in BOOLEAN
      BY <1>2, <2>1, ZenonT(30)
    <2> QED BY <2>2
  <1>4. Shaped("B1", row)
    BY <1>1, <1>3 DEF Shaped, Asked
  <1>5. /\ Complete("B1", row) /\ (Met(row) <=> row[1].holds)
        /\ Held(row) <=> \A i \in 2..8 : row[i].holds
    BY <1>4, AsksB1
  <1>6. (\A i \in 2..8 : row[i].holds) <=>
            /\ row[2].holds /\ row[3].holds /\ row[4].holds /\ row[5].holds
            /\ row[6].holds /\ row[7].holds /\ row[8].holds
    OBVIOUS
  <1>7. shown.fresh = "page" =>
            (Held(row) <=> /\ shown.control = "page"
                           /\ Meets(Presumed(product, shown), Contract["number_format"]))
    BY <1>2, <1>5, <1>6, PresumedTerms
  <1>8. Says("B1", row, IF ~Met(row) THEN "blocked" ELSE IF Held(row) THEN "passed" ELSE "failed")
    BY <1>5, RecordedIs DEF Says
  <1>9. Met(row) <=> shown.fresh = "page"
    BY <1>2, <1>5
  <1> QED BY <1>7, <1>8, <1>9 DEF row

-----------------------------------------------------------------------------
(* S2, save by save. *)

Three == {1, 2, 3}
Said  == {"a", "b", "c", "d1", "d2", "gone"}

Explored(s) ==
    /\ s \in [saved: Seq(Said), current: [Three -> Nat]]
    /\ \A t \in Three : s.current[t] \in 0 .. Len(s.saved)

\* The tab whose key a tab goes on with.
Slot(product, tab) == IF product.tabs = "own" THEN tab ELSE CHOOSE t \in Three : TRUE

LEMMA Slots ==
    ASSUME NEW product, NEW tab \in Three
    PROVE  /\ Slot(product, tab) \in Three
           /\ \A s : DOMAIN s.current = Three =>
                 /\ Tab(product, s, tab) = Slot(product, tab)
                 /\ KeyOf(product, s, tab) = s.current[Slot(product, tab)]
  <1>1. (CHOOSE t \in Three : TRUE) \in Three
    BY DEF Three
  <1>2. \A s : DOMAIN s.current = Three => Tab(product, s, tab) = Slot(product, tab)
    BY DEF Tab, Slot
  <1> QED BY <1>1, <1>2 DEF Slot, KeyOf

\* A save under the next key.
SavedNew(s, r, slot, spec) ==
    /\ Len(r.saved) = Len(s.saved) + 1
    /\ r.saved[Len(s.saved) + 1] = spec
    /\ \A i \in 1 .. Len(s.saved) : r.saved[i] = s.saved[i]
    /\ r.current[slot] = Len(s.saved) + 1
    /\ \A t \in Three \ {slot} : r.current[t] = s.current[t]

\* A save under the key the tab has.
SavedOver(s, r, slot, spec) ==
    /\ Len(r.saved) = Len(s.saved)
    /\ r.saved[s.current[slot]] = spec
    /\ \A i \in 1 .. Len(s.saved) : i # s.current[slot] => r.saved[i] = s.saved[i]
    /\ r.current = s.current

SavedAs(product, s, r, slot, spec) ==
    /\ s.current[slot] = 0 \/ product.keys = "unshared" => SavedNew(s, r, slot, spec)
    /\ s.current[slot] # 0 /\ product.keys # "unshared" => SavedOver(s, r, slot, spec)

\* The two branches of a save.
LEMMA SaveIs ==
    ASSUME NEW product, NEW s, NEW tab, NEW spec
    PROVE  /\ KeyOf(product, s, tab) = 0 \/ product.keys = "unshared"
               => Save(product, s, tab, spec) =
                    [saved   |-> Append(s.saved, spec),
                     current |-> [s.current EXCEPT ![Tab(product, s, tab)] = Len(s.saved) + 1]]
           /\ ~(KeyOf(product, s, tab) = 0 \/ product.keys = "unshared")
               => Save(product, s, tab, spec) =
                    [s EXCEPT !.saved[KeyOf(product, s, tab)] = spec]
  <1> DEFINE fresh == KeyOf(product, s, tab) = 0 \/ product.keys = "unshared"
             new   == [saved   |-> Append(s.saved, spec),
                       current |-> [s.current EXCEPT ![Tab(product, s, tab)] = Len(s.saved) + 1]]
             over  == [s EXCEPT !.saved[KeyOf(product, s, tab)] = spec]
  <1>1. Save(product, s, tab, spec) = IF fresh THEN new ELSE over
    BY DEF Save
  <1> HIDE DEF fresh, new, over
  <1>2. /\ fresh => Save(product, s, tab, spec) = new
        /\ ~fresh => Save(product, s, tab, spec) = over
    BY <1>1
  <1> QED BY <1>2 DEF fresh, new, over

LEMMA SaveDoes ==
    ASSUME NEW product, NEW s, Explored(s), NEW tab \in Three, NEW spec \in Said,
           NEW r, r = Save(product, s, tab, spec)
    PROVE  /\ Explored(r)
           /\ KeyOf(product, r, tab) = r.current[Slot(product, tab)]
           /\ SavedAs(product, s, r, Slot(product, tab), spec)
  <1> PICK slot \in Three : slot = Slot(product, tab)
    BY Slots
  <1>1. /\ s.saved \in Seq(Said) /\ s.current \in [Three -> Nat] /\ Len(s.saved) \in Nat
        /\ \A t \in Three : s.current[t] \in 0 .. Len(s.saved)
        /\ s = [saved |-> s.saved, current |-> s.current]
    BY DEF Explored
  <1>2. Tab(product, s, tab) = slot /\ KeyOf(product, s, tab) = s.current[slot]
    BY <1>1, Slots
  <1>3. CASE s.current[slot] = 0 \/ product.keys = "unshared"
    <2>1. r = [saved   |-> Append(s.saved, spec),
               current |-> [s.current EXCEPT ![slot] = Len(s.saved) + 1]]
      <3>1. KeyOf(product, s, tab) = 0 \/ product.keys = "unshared"
        BY <1>2, <1>3
      <3>2. r = [saved   |-> Append(s.saved, spec),
                 current |-> [s.current EXCEPT ![Tab(product, s, tab)] = Len(s.saved) + 1]]
        BY <3>1, SaveIs
      <3> QED BY <1>2, <3>2, Zenon
    <2>2. /\ r.saved \in Seq(Said) /\ r.current \in [Three -> Nat]
          /\ SavedNew(s, r, slot, spec)
      BY <1>1, <2>1 DEF SavedNew
    <2>3. r \in [saved: Seq(Said), current: [Three -> Nat]]
      BY <2>1, <2>2
    <2>4. \A t \in Three : r.current[t] \in 0 .. Len(r.saved)
      BY <1>1, <2>2 DEF SavedNew
    <2>5. Explored(r)
      BY <2>3, <2>4 DEF Explored
    <2> QED BY <1>3, <2>2, <2>5, Slots DEF SavedAs
  <1>4. CASE ~(s.current[slot] = 0 \/ product.keys = "unshared")
    <2>1. r = [s EXCEPT !.saved[s.current[slot]] = spec]
      <3>1. ~(KeyOf(product, s, tab) = 0 \/ product.keys = "unshared")
        BY <1>2, <1>4
      <3>2. r = [s EXCEPT !.saved[KeyOf(product, s, tab)] = spec]
        BY <3>1, SaveIs
      <3> QED BY <1>2, <3>2, ZenonT(30)
    <2>2. r.saved = [s.saved EXCEPT ![s.current[slot]] = spec] /\ r.current = s.current
      BY <1>1, <2>1
    <2>3. s.current[slot] \in 1 .. Len(s.saved)
      BY <1>1, <1>4
    <2>4. r.saved \in Seq(Said) /\ SavedOver(s, r, slot, spec)
      BY <1>1, <2>2, <2>3 DEF SavedOver
    <2>5. r \in [saved: Seq(Said), current: [Three -> Nat]]
      BY <1>1, <2>1, <2>2, <2>4
    <2>6. Explored(r)
      BY <1>1, <2>2, <2>4, <2>5 DEF Explored, SavedOver
    <2> QED BY <1>1, <1>4, <2>2, <2>4, <2>6, Slots DEF SavedAs
  <1> QED BY <1>3, <1>4

LEMMA DeleteDoes ==
    ASSUME NEW product, NEW s, Explored(s), NEW k \in 1 .. Len(s.saved),
           NEW r, r = Delete(product, s, k)
    PROVE  /\ Explored(r)
           /\ Len(r.saved) = Len(s.saved)
           /\ r.saved[k] = IF product.deletes THEN "gone" ELSE s.saved[k]
           /\ \A i \in 1 .. Len(s.saved) : i # k => r.saved[i] = s.saved[i]
           /\ \A t \in Three :
                 r.current[t] = IF product.keys # "reused" /\ s.current[t] = k
                                THEN 0 ELSE s.current[t]
  <1>1. /\ s.saved \in Seq(Said) /\ s.current \in [Three -> Nat] /\ Len(s.saved) \in Nat
        /\ \A t \in Three : s.current[t] \in 0 .. Len(s.saved)
    BY DEF Explored
  <1>2. r = [saved |-> r.saved, current |-> r.current]
    BY DEF Delete
  <1>3. /\ r.saved \in Seq(Said)
        /\ Len(r.saved) = Len(s.saved)
        /\ r.saved[k] = IF product.deletes THEN "gone" ELSE s.saved[k]
        /\ \A i \in 1 .. Len(s.saved) : i # k => r.saved[i] = s.saved[i]
    <2>1. CASE product.deletes
      <3>1. r.saved = [s.saved EXCEPT ![k] = "gone"]
        BY <2>1 DEF Delete
      <3> QED BY <1>1, <2>1, <3>1 DEF Said
    <2>2. CASE ~product.deletes
      BY <1>1, <2>2 DEF Delete
    <2> QED BY <2>1, <2>2
  <1>4. /\ r.current \in [Three -> Nat]
        /\ \A t \in Three :
              r.current[t] = IF product.keys # "reused" /\ s.current[t] = k
                             THEN 0 ELSE s.current[t]
    <2>1. CASE product.keys = "reused"
      BY <1>1, <2>1 DEF Delete
    <2>2. CASE product.keys # "reused"
      <3>1. r.current = [t \in Three |-> IF s.current[t] = k THEN 0 ELSE s.current[t]]
        BY <1>1, <2>2 DEF Delete
      <3> QED BY <1>1, <2>2, <3>1
    <2> QED BY <2>1, <2>2
  <1>5. \A t \in Three : r.current[t] \in 0 .. Len(r.saved)
    BY <1>1, <1>3, <1>4
  <1>6. Explored(r)
    BY <1>2, <1>3, <1>4, <1>5 DEF Explored
  <1> QED BY <1>3, <1>4, <1>6

\* Deleting a link kills it, a tab's next save is under a new key, and a tab
\* saves over what it saved last.
LEMMA S2Says ==
    ASSUME NEW product \in Product
    PROVE  /\ Shaped("S2", case_s2(product))
           /\ Met(case_s2(product)) <=> product.deletes
           /\ Says("S2", case_s2(product),
                   IF ~product.deletes THEN "blocked"
                   ELSE IF product.keys = "renewed" /\ product.tabs = "own" THEN "passed"
                   ELSE "failed")
  <1> DEFINE row == case_s2(product)
             a  == Save(product, Unsaved(Three), 1, "a")
             k1 == KeyOf(product, a, 1)
             x  == Delete(product, a, k1)
             b  == Save(product, x, 1, "b")
             k2 == KeyOf(product, b, 1)
             c  == Save(product, b, 2, "c")
             k3 == KeyOf(product, c, 2)
             d1 == Save(product, c, 3, "d1")
             k4 == KeyOf(product, d1, 3)
             d2 == Save(product, d1, 3, "d2")
             k5 == KeyOf(product, d2, 3)
             s1 == Slot(product, 1)
             s2 == Slot(product, 2)
             s3 == Slot(product, 3)
  <1>1. Shaped("S2", row)
    <2>0. {1, 2, 3} = Three
      BY DEF Three
    <2> HIDE DEF a, k1, x, b, k2, c, k3, d1, k4, d2
    <2>1. DOMAIN row = 1..9
      BY DEF row, case_s2
    <2>2. /\ row[1].holds \in BOOLEAN /\ row[2].holds \in BOOLEAN /\ row[3].holds \in BOOLEAN
          /\ row[4].holds \in BOOLEAN /\ row[5].holds \in BOOLEAN /\ row[6].holds \in BOOLEAN
          /\ row[7].holds \in BOOLEAN /\ row[8].holds \in BOOLEAN /\ row[9].holds \in BOOLEAN
      BY DEF row, case_s2, setup, target, control, Check
    <2>3. /\ row[1].name = "read_a" /\ row[1].kind = "setup"
          /\ row[2].name = "gone" /\ row[2].kind = "setup"
          /\ row[3].name = "no_reused_key" /\ row[3].kind = "target"
          /\ row[4].name = "old_link_dead" /\ row[4].kind = "target"
          /\ row[5].name = "reads_back" /\ row[5].kind = "target"
          /\ row[6].name = "second_tab_own_key" /\ row[6].kind = "control"
          /\ row[7].name = "second_tab_own_state" /\ row[7].kind = "control"
          /\ row[8].name = "updates_in_place" /\ row[8].kind = "control"
          /\ row[9].name = "latest_state" /\ row[9].kind = "control"
      BY DEF row, case_s2, setup, target, control, Check
    <2> HIDE DEF row
    <2> QED BY <2>1, <2>2, <2>3 DEF Shaped, Asked
  <1>2. /\ row[1].holds <=> a.saved[k1] = "a"
        /\ row[2].holds <=> x.saved[k1] = "gone"
        /\ row[3].holds <=> k1 # k2
        /\ row[4].holds <=> b.saved[k1] = "gone"
        /\ row[5].holds <=> b.saved[k2] = "b"
        /\ row[6].holds <=> k3 # k2
        /\ row[7].holds <=> c.saved[k3] = "c"
        /\ row[8].holds <=> k5 = k4
        /\ row[9].holds <=> d2.saved[k4] = "d2"
    <2>1. {1, 2, 3} = Three
      BY DEF Three
    <2> QED BY <2>1 DEF case_s2, setup, target, control, Check
  <1> HIDE DEF row
  <1>3. /\ Complete("S2", row) /\ (Met(row) <=> row[1].holds /\ row[2].holds)
        /\ Held(row) <=> \A i \in 3..9 : row[i].holds
    BY <1>1, AsksS2
  <1>4. Says("S2", row, IF ~Met(row) THEN "blocked" ELSE IF Held(row) THEN "passed" ELSE "failed")
    BY <1>3, RecordedIs DEF Says
  <1>5. /\ 1 \in Three /\ 2 \in Three /\ 3 \in Three
        /\ "a" \in Said /\ "b" \in Said /\ "c" \in Said /\ "d1" \in Said /\ "d2" \in Said
        /\ s1 \in Three /\ s2 \in Three /\ s3 \in Three
        /\ product.tabs = "own" => s1 = 1 /\ s2 = 2 /\ s3 = 3
        /\ product.tabs # "own" => s1 = s2
    BY Slots DEF Three, Said, Slot
  <1>6. /\ Explored(Unsaved(Three)) /\ Len(Unsaved(Three).saved) = 0
        /\ \A t \in Three : Unsaved(Three).current[t] = 0
    BY DEF Unsaved, Explored
  <1>7. /\ Explored(a) /\ k1 = a.current[s1]
        /\ SavedAs(product, Unsaved(Three), a, s1, "a")
    BY <1>5, <1>6, SaveDoes
  <1> HIDE DEF a
  <1>8. /\ Explored(x) /\ Len(x.saved) = Len(a.saved)
        /\ x.saved[k1] = IF product.deletes THEN "gone" ELSE a.saved[k1]
        /\ \A t \in Three : x.current[t] = IF product.keys # "reused" /\ a.current[t] = k1
                                          THEN 0 ELSE a.current[t]
    <2>1. k1 \in 1 .. Len(a.saved)
      <3> HIDE DEF k1, s1
      <3> QED BY <1>5, <1>6, <1>7 DEF SavedAs, SavedNew
    <2> HIDE DEF k1
    <2>2. Explored(a)
      BY <1>7
    <2> HIDE DEF s1
    <2> QED BY <2>1, <2>2, DeleteDoes
  <1> HIDE DEF x
  <1>9. /\ Explored(b) /\ k2 = b.current[s1] /\ SavedAs(product, x, b, s1, "b")
    BY <1>5, <1>8, SaveDoes
  <1> HIDE DEF b
  <1>10. /\ Explored(c) /\ k3 = c.current[s2] /\ SavedAs(product, b, c, s2, "c")
    BY <1>5, <1>9, SaveDoes
  <1> HIDE DEF c
  <1>11. /\ Explored(d1) /\ k4 = d1.current[s3] /\ SavedAs(product, c, d1, s3, "d1")
    BY <1>5, <1>10, SaveDoes
  <1> HIDE DEF d1
  <1>12. /\ Explored(d2) /\ k5 = d2.current[s3] /\ SavedAs(product, d1, d2, s3, "d2")
    BY <1>5, <1>11, SaveDoes
  <1> HIDE DEF d2, k1, k2, k3, k4, k5, s1, s2, s3
  <1>13. /\ Len(a.saved) = 1 /\ a.saved[1] = "a" /\ k1 = 1
         /\ \A t \in Three : a.current[t] = IF t = s1 THEN 1 ELSE 0
    BY <1>5, <1>6, <1>7 DEF SavedAs, SavedNew
  <1>14. /\ Len(x.saved) = 1 /\ x.saved[1] = IF product.deletes THEN "gone" ELSE "a"
         /\ \A t \in Three : x.current[t] = IF product.keys = "reused" /\ t = s1 THEN 1 ELSE 0
    BY <1>8, <1>13
  <1>15. Met(row) <=> product.deletes
    BY <1>2, <1>3, <1>13, <1>14
  <1>16. CASE product.keys = "reused"
    <2>1. k2 = k1
      BY <1>5, <1>9, <1>13, <1>14, <1>16 DEF SavedAs, SavedOver
    <2>2. ~Held(row)
      BY <1>2, <1>3, <2>1
    <2> QED BY <1>1, <1>4, <1>15, <1>16, <2>2 DEF row
  <1>17. CASE product.keys # "reused"
    <2>1. /\ Len(b.saved) = 2 /\ b.saved[1] = x.saved[1] /\ b.saved[2] = "b" /\ k2 = 2
          /\ \A t \in Three : b.current[t] = IF t = s1 THEN 2 ELSE 0
      BY <1>5, <1>9, <1>14, <1>17 DEF SavedAs, SavedNew
    <2>2. CASE product.keys = "unshared"
      <3>1. Len(c.saved) = 3
        BY <1>5, <1>10, <2>1, <2>2 DEF SavedAs, SavedNew
      <3>2. Len(d1.saved) = 4 /\ k4 = 4
        BY <1>5, <1>11, <2>2, <3>1 DEF SavedAs, SavedNew
      <3>3. k5 = 5
        BY <1>5, <1>12, <2>2, <3>2 DEF SavedAs, SavedNew
      <3>4. ~Held(row)
        BY <1>2, <1>3, <3>2, <3>3
      <3> QED BY <1>1, <1>4, <1>15, <2>2, <3>4 DEF row
    <2>3. CASE product.keys = "renewed" /\ product.tabs # "own"
      <3>1. k3 = k2
        BY <1>5, <1>10, <2>1, <2>3 DEF SavedAs, SavedOver
      <3>2. ~Held(row)
        BY <1>2, <1>3, <3>1
      <3> QED BY <1>1, <1>4, <1>15, <2>3, <3>2 DEF row
    <2>4. CASE product.keys = "renewed" /\ product.tabs = "own"
      <3>1. s1 = 1 /\ s2 = 2 /\ s3 = 3
        BY <1>5, <2>4
      <3>2. Len(c.saved) = 3 /\ c.saved[3] = "c" /\ k3 = 3 /\ c.current[3] = 0
        BY <1>5, <1>10, <2>1, <3>1 DEF SavedAs, SavedNew
      <3>3. Len(d1.saved) = 4 /\ k4 = 4 /\ d1.current[3] = 4
        BY <1>5, <1>11, <3>1, <3>2 DEF SavedAs, SavedNew
      <3>4. k5 = 4 /\ d2.saved[4] = "d2"
        BY <1>5, <1>12, <2>4, <3>1, <3>3 DEF SavedAs, SavedOver
      <3>5. b.saved[1] = "gone" <=> product.deletes
        BY <1>14, <2>1
      <3>6. product.deletes => /\ row[3].holds /\ row[4].holds /\ row[5].holds /\ row[6].holds
                               /\ row[7].holds /\ row[8].holds /\ row[9].holds
        BY <1>2, <1>13, <2>1, <3>2, <3>3, <3>4, <3>5
      <3>7. product.deletes => Held(row)
        BY <1>3, <3>6
      <3> QED BY <1>1, <1>4, <1>15, <2>4, <3>7 DEF row
    <2> QED BY <1>17, <2>2, <2>3, <2>4, TermsTyped
  <1> QED BY <1>16, <1>17

-----------------------------------------------------------------------------
(* The verdict of a family. *)

Told(name, product) ==
    CASE name = "S2" ->
           IF ~product.deletes THEN "blocked"
           ELSE IF product.keys = "renewed" /\ product.tabs = "own" THEN "passed"
           ELSE "failed"
      [] name = "S1" -> IF Meets(product, Contract["row_limit"]) THEN "passed" ELSE "failed"
      [] name = "N1" ->
           IF product.write = "broken" THEN "blocked"
           ELSE IF product.write = "denied" /\ product.data = "denied" THEN "passed"
           ELSE "failed"
      [] name = "B1" -> IF Meets(product, Contract["number_format"]) THEN "passed" ELSE "failed"

LEMMA CaseSays ==
    ASSUME NEW product \in Product, NEW name \in {"S2", "S1", "N1", "B1"}
    PROVE  Says(name, case(name, product), Told(name, product))
  <1>1. CASE name = "S2"
    BY <1>1, S2Says DEF case, Told
  <1>2. CASE name = "S1"
    BY <1>2, S1Says DEF case, Told
  <1>3. CASE name = "N1"
    BY <1>3, N1Says DEF case, Told
  <1>4. CASE name = "B1"
    <2>1. /\ AllShown \in Showings /\ AllShown.fresh = "page"
          /\ AllShown.again = "page" /\ AllShown.control = "page"
      BY DEF AllShown, Showings, Pages
    <2>2. Meets(Presumed(product, AllShown), Contract["number_format"])
              <=> Meets(product, Contract["number_format"])
      BY <2>1, PresumedTerms, ContractTerms, TermsTyped DEF Pages
    <2>3. Says("B1", case_b1(product, AllShown),
               IF Meets(product, Contract["number_format"]) THEN "passed" ELSE "failed")
      BY <2>1, <2>2, B1Says
    <2> QED BY <1>4, <2>3 DEF case, Told
  <1> QED BY <1>1, <1>2, <1>3, <1>4

\* The results of a replay, every call answered.
Replayed(names, product) ==
    [i \in DOMAIN names |-> Recorded(names[i], case(names[i], product))]

LEMMA ReplaySays ==
    ASSUME NEW product \in Product, NEW names \in Namings
    PROVE  LET results == Replayed(names, product)
           IN  /\ DOMAIN results = DOMAIN names
               /\ \A i \in DOMAIN names :
                     /\ results[i].case = names[i] /\ Honestly(results[i])
                     /\ results[i].verdict = Told(names[i], product)
               /\ run(names, product) = Folded(results)
               /\ run(names, product).cases = results
               /\ Settled(run(names, product), names) = Worst(results)
  <1> DEFINE results == Replayed(names, product)
  <1>1. \A i \in DOMAIN names : names[i] \in {"S2", "S1", "N1", "B1"}
    BY DEF Namings
  <1>2. \A i \in DOMAIN names : Says(names[i], case(names[i], product), Told(names[i], product))
    BY <1>1, CaseSays
  <1>3. DOMAIN results = DOMAIN names
        /\ \A i \in DOMAIN names : results[i] = Recorded(names[i], case(names[i], product))
    BY DEF Replayed
  <1>4. run(names, product) = Folded(results)
    BY DEF run, Replayed
  <1> HIDE DEF results
  <1>5. \A i \in DOMAIN names :
           /\ results[i].case = names[i] /\ Honestly(results[i])
           /\ results[i].verdict = Told(names[i], product)
    BY <1>2, <1>3 DEF Says
  <1>6. Settled(Folded(results), names) = Worst(results)
    BY <1>3, <1>5, SettledIsWorst
  <1>7. Folded(results).cases = results
    BY DEF Folded
  <1> QED BY <1>3, <1>4, <1>5, <1>6, <1>7 DEF results

\* A family passes when the product keeps its contract, and is blocked when the
\* product keeps one of its cases from the assertions.
LEMMA FamilySays ==
    ASSUME NEW product \in Product, NEW family \in DOMAIN CASES_BY_FAMILY
    PROVE  Verdict(family, product) =
              IF Unanswerable(product, family) THEN "blocked"
              ELSE IF InContract(product, family) THEN "passed" ELSE "failed"
  <1> DEFINE names == CASES_BY_FAMILY[family]
             results == Replayed(names, product)
  <1>1. family \in {"discarded_key", "row_limit", "number_format"} /\ names \in Namings
    BY FamilyNamings DEF Namings
  <1>2. /\ DOMAIN results = DOMAIN names
        /\ \A i \in DOMAIN names : results[i].verdict = Told(names[i], product)
        /\ Verdict(family, product) = Worst(results)
    BY <1>1, ReplaySays DEF Verdict
  <1> HIDE DEF results
  <1>3. CASE family = "number_format"
    <2>1. names = <<"B1">>
      BY <1>3, FamilyNamings
    <2>2. DOMAIN results = {1} /\ results[1].verdict = Told("B1", product)
      BY <1>2, <2>1
    <2>3. Worst(results) = IF Meets(product, Contract["number_format"]) THEN "passed" ELSE "failed"
      BY <2>2 DEF Worst, Told
    <2> QED BY <1>2, <1>3, <2>3 DEF Unanswerable, InContract
  <1>4. CASE family = "row_limit"
    <2>1. names = <<"S1", "N1">>
      BY <1>4, FamilyNamings
    <2>2. DOMAIN results = {1, 2} /\ results[1].verdict = Told("S1", product)
          /\ results[2].verdict = Told("N1", product)
      BY <1>2, <2>1
    <2>3. Worst(results) =
              IF product.write = "broken" THEN "blocked"
              ELSE IF /\ Meets(product, Contract["row_limit"])
                      /\ product.write = "denied" /\ product.data = "denied"
              THEN "passed" ELSE "failed"
      BY <2>2 DEF Worst, Told
    <2> QED BY <1>2, <1>4, <2>3, ContractTerms DEF Unanswerable, InContract
  <1>5. CASE family = "discarded_key"
    <2>1. names = <<"S2", "N1">>
      BY <1>5, FamilyNamings
    <2>2. DOMAIN results = {1, 2} /\ results[1].verdict = Told("S2", product)
          /\ results[2].verdict = Told("N1", product)
      BY <1>2, <2>1
    <2>3. Worst(results) =
              IF ~product.deletes \/ product.write = "broken" THEN "blocked"
              ELSE IF /\ product.keys = "renewed" /\ product.tabs = "own"
                      /\ product.write = "denied" /\ product.data = "denied"
              THEN "passed" ELSE "failed"
      BY <2>2 DEF Worst, Told
    <2> QED BY <1>2, <1>5, <2>3, ContractTerms DEF Unanswerable, InContract
  <1> QED BY <1>1, <1>3, <1>4, <1>5

\* One call that goes unanswered blocks the whole replay.
LEMMA CutShort ==
    ASSUME NEW product \in Product, NEW names \in Namings, NEW i \in DOMAIN names, NEW n
    PROVE  Settled(runCutShort(names, product, i, n), names) = "blocked"
  <1> DEFINE results == Replayed(names, product)
             cut == BlockedResult(names[i], SubSeq(case(names[i], product), 1, n))
             left == [results EXCEPT ![i] = cut]
  <1>1. /\ DOMAIN results = DOMAIN names
        /\ \A j \in DOMAIN names : results[j].case = names[j] /\ Honestly(results[j])
        /\ run(names, product).cases = results
    BY ReplaySays
  <1>2. cut.case = names[i] /\ cut.verdict = "blocked"
    BY DEF BlockedResult
  <1>3. runCutShort(names, product, i, n) = Folded(left)
    BY <1>1 DEF runCutShort
  <1> HIDE DEF results, cut
  <1>4. /\ DOMAIN left = DOMAIN names /\ left[i] = cut
        /\ \A j \in DOMAIN names : j # i => left[j] = results[j]
    BY <1>1
  <1> HIDE DEF left
  <1>5. \A j \in DOMAIN names : left[j].case = names[j] /\ Honestly(left[j])
    BY <1>1, <1>2, <1>4 DEF Honestly
  <1>6. Settled(Folded(left), names) = Worst(left)
    BY <1>4, <1>5, SettledIsWorst
  <1>7. Worst(left) = "blocked"
    BY <1>2, <1>4 DEF Worst
  <1> QED BY <1>3, <1>6, <1>7

\* An error status where a check is made without a look at it: the check fails,
\* and with it the case, whatever the product is.
LEMMA Erred ==
    ASSUME NEW name, NEW row, Shaped(name, row), NEW n \in DOMAIN row,
           row[n] = Check(Asked[name][n][1], Asked[name][n][2], row[n].holds),
           NEW erred, erred = [row EXCEPT ![n].holds = FALSE]
    PROVE  /\ Shaped(name, erred) /\ ~erred[n].holds
           /\ \A j \in DOMAIN row : j # n => erred[j] = row[j]
  <1>1. erred[n] = [row[n] EXCEPT !.holds = FALSE]
    OBVIOUS
  <1>2. /\ erred[n].name = row[n].name /\ erred[n].kind = row[n].kind
        /\ erred[n].holds = FALSE
    <2> DEFINE its == row[n]
    <2>1. {"name", "kind", "holds"} \subseteq DOMAIN its
      BY DEF Check
    <2> HIDE DEF its
    <2>2. /\ [its EXCEPT !.holds = FALSE].name = its.name
          /\ [its EXCEPT !.holds = FALSE].kind = its.kind
      BY <2>1
    <2>3. [its EXCEPT !.holds = FALSE].holds = FALSE
      BY <2>1, ZenonT(30)
    <2> QED BY <1>1, <2>2, <2>3 DEF its
  <1>3. DOMAIN erred = DOMAIN row /\ \A j \in DOMAIN row : j # n => erred[j] = row[j]
    OBVIOUS
  <1>4. \A j \in DOMAIN row : /\ erred[j].name = row[j].name /\ erred[j].kind = row[j].kind
                              /\ erred[j].holds \in BOOLEAN
    <2>1. SUFFICES ASSUME NEW j \in DOMAIN row
                   PROVE  /\ erred[j].name = row[j].name /\ erred[j].kind = row[j].kind
                          /\ erred[j].holds \in BOOLEAN
      OBVIOUS
    <2>2. CASE j = n
      BY <1>2, <2>2
    <2>3. CASE j # n
      BY <1>3, <2>3 DEF Shaped
    <2> QED BY <2>2, <2>3
  <1>5. Shaped(name, erred)
    BY <1>3, <1>4 DEF Shaped
  <1> QED BY <1>2, <1>3, <1>5

\* Where the product keeps a case itself from its assertions.
HeldUp(name, product) ==
    \/ name = "S2" /\ ~product.deletes
    \/ name = "N1" /\ product.write = "broken"

LEMMA ErredSays ==
    ASSUME NEW product \in Product, NEW name \in {"S2", "S1", "N1", "B1"},
           NEW n \in Unguarded(name, product)
    PROVE  Says(name, [case(name, product) EXCEPT ![n].holds = FALSE],
                IF HeldUp(name, product) THEN "blocked" ELSE "failed")
  <1> DEFINE row == case(name, product)
             erred == [row EXCEPT ![n].holds = FALSE]
  <1>1. /\ name = "S2" \/ name = "N1"
        /\ n \in DOMAIN row /\ row[n].name \in ErrorFails[name]
    BY DEF Unguarded
  <1>2. CASE name = "S2"
    <2>1. row = case_s2(product)
      BY <1>2 DEF case
    <2>2. Shaped("S2", row) /\ (Met(row) <=> product.deletes)
      BY <2>1, S2Says
    <2> HIDE DEF row
    <2>3. n \in {4, 5, 7, 9}
      <3>1. row[n].name \in {"old_link_dead", "reads_back", "second_tab_own_state",
                             "latest_state"}
        BY <1>1, <1>2 DEF ErrorFails
      <3>2. n \in 1..9 /\ row[n].name = Asked["S2"][n][1]
        BY <1>1, <2>2 DEF Shaped, Asked
      <3> QED BY <3>1, <3>2 DEF Asked
    <2>4. row[n] = Check(Asked["S2"][n][1], Asked["S2"][n][2], row[n].holds)
      <3>1. /\ row[4] = Check("old_link_dead", "target", row[4].holds)
            /\ row[5] = Check("reads_back", "target", row[5].holds)
            /\ row[7] = Check("second_tab_own_state", "control", row[7].holds)
            /\ row[9] = Check("latest_state", "control", row[9].holds)
        BY <2>1 DEF case_s2, setup, target, control, Check
      <3> QED BY <2>3, <3>1 DEF Asked
    <2>5. /\ Shaped("S2", erred) /\ ~erred[n].holds
          /\ \A j \in DOMAIN row : j # n => erred[j] = row[j]
      BY <1>1, <2>2, <2>4, Erred
    <2> HIDE DEF erred
    <2>6. erred[1] = row[1] /\ erred[2] = row[2]
      BY <2>2, <2>3, <2>5 DEF Shaped, Asked
    <2>7. /\ Complete("S2", erred) /\ ~Held(erred)
          /\ Met(erred) <=> product.deletes
      BY <2>2, <2>3, <2>5, <2>6, AsksS2
    <2>8. Says("S2", erred, IF ~Met(erred) THEN "blocked"
                            ELSE IF Held(erred) THEN "passed" ELSE "failed")
      BY <2>7, RecordedIs DEF Says
    <2>9. Says("S2", erred, IF HeldUp("S2", product) THEN "blocked" ELSE "failed")
      BY <2>7, <2>8 DEF HeldUp
    <2> QED BY <1>2, <2>9 DEF erred, row
  <1>3. CASE name = "N1"
    <2>1. row = case_n1(product)
      BY <1>3 DEF case
    <2>2. Shaped("N1", row) /\ (Met(row) <=> product.write # "broken")
      BY <2>1, N1Says
    <2> HIDE DEF row
    <2>3. n \in {1, 4}
      <3>1. row[n].name \in {"can_list", "data_denied"}
        BY <1>1, <1>3 DEF ErrorFails
      <3>2. n \in 1..4 /\ row[n].name = Asked["N1"][n][1]
        BY <1>1, <2>2 DEF Shaped, Asked
      <3> QED BY <3>1, <3>2 DEF Asked
    <2>4. row[n] = Check(Asked["N1"][n][1], Asked["N1"][n][2], row[n].holds)
      <3>1. /\ row[1] = Check("can_list", "control", row[1].holds)
            /\ row[4] = Check("data_denied", "target", row[4].holds)
        BY <2>1 DEF case_n1, setup, target, control, Check
      <3> QED BY <2>3, <3>1 DEF Asked
    <2>5. /\ Shaped("N1", erred) /\ ~erred[n].holds
          /\ \A j \in DOMAIN row : j # n => erred[j] = row[j]
      BY <1>1, <2>2, <2>4, Erred
    <2> HIDE DEF erred
    <2>6. erred[2] = row[2]
      BY <2>2, <2>3, <2>5 DEF Shaped, Asked
    <2>7. /\ Complete("N1", erred) /\ ~Held(erred)
          /\ Met(erred) <=> product.write # "broken"
      BY <2>2, <2>3, <2>5, <2>6, AsksN1
    <2>8. Says("N1", erred, IF ~Met(erred) THEN "blocked"
                            ELSE IF Held(erred) THEN "passed" ELSE "failed")
      BY <2>7, RecordedIs DEF Says
    <2>9. Says("N1", erred, IF HeldUp("N1", product) THEN "blocked" ELSE "failed")
      BY <2>7, <2>8 DEF HeldUp
    <2> QED BY <1>3, <2>9 DEF erred, row
  <1> QED BY <1>1, <1>2, <1>3

LEMMA ErredVerdict ==
    ASSUME NEW product \in Product, NEW family \in DOMAIN CASES_BY_FAMILY,
           NEW i \in DOMAIN CASES_BY_FAMILY[family],
           NEW n \in Unguarded(CASES_BY_FAMILY[family][i], product)
    PROVE  Settled(runErred(CASES_BY_FAMILY[family], product, i, n), CASES_BY_FAMILY[family]) =
              IF Unanswerable(product, family) THEN "blocked" ELSE "failed"
  <1> DEFINE names == CASES_BY_FAMILY[family]
             results == Replayed(names, product)
             erred == Recorded(names[i], [case(names[i], product) EXCEPT ![n].holds = FALSE])
             left == [results EXCEPT ![i] = erred]
  <1>1. /\ family \in {"discarded_key", "row_limit", "number_format"}
        /\ names \in Namings /\ i \in DOMAIN names
    BY FamilyNamings DEF Namings
  <1>2. /\ DOMAIN results = DOMAIN names
        /\ \A j \in DOMAIN names : /\ results[j].case = names[j] /\ Honestly(results[j])
                                   /\ results[j].verdict = Told(names[j], product)
        /\ run(names, product).cases = results
    BY <1>1, ReplaySays
  <1>3. names[i] \in {"S2", "S1", "N1", "B1"}
    BY <1>1 DEF Namings
  <1>4. /\ erred.case = names[i] /\ Honestly(erred)
        /\ erred.verdict = IF HeldUp(names[i], product) THEN "blocked" ELSE "failed"
    BY <1>3, ErredSays DEF Says
  <1>5. runErred(names, product, i, n) = Folded(left)
    BY <1>2 DEF runErred
  <1>6. /\ DOMAIN left = DOMAIN names /\ left[i] = erred
        /\ \A j \in DOMAIN names : j # i => left[j] = results[j]
    <2> HIDE DEF results, erred, names
    <2> QED BY <1>1, <1>2
  <1>7. names[i] \in {"S2", "N1"}
    BY DEF Unguarded
  <1> HIDE DEF results, erred, left
  <1>8. \A j \in DOMAIN names : left[j].case = names[j] /\ Honestly(left[j])
    <2> HIDE DEF names
    <2> QED BY <1>2, <1>4, <1>6
  <1>9. Settled(Folded(left), names) = Worst(left)
    <2> HIDE DEF names
    <2> QED BY <1>1, <1>6, <1>8, SettledIsWorst
  <1>10. Worst(left) = IF Unanswerable(product, family) THEN "blocked" ELSE "failed"
    <2>1. CASE family = "number_format"
      <3>1. names = <<"B1">>
        BY <2>1, FamilyNamings
      <3> QED BY <1>1, <1>7, <3>1
    <2>2. CASE family = "row_limit"
      <3>1. names = <<"S1", "N1">>
        BY <2>2, FamilyNamings
      <3> HIDE DEF names
      <3>2. i = 2 /\ DOMAIN left = {1, 2}
        BY <1>1, <1>6, <1>7, <3>1
      <3>3. /\ left[1].verdict = Told("S1", product)
            /\ left[2].verdict = IF product.write = "broken" THEN "blocked" ELSE "failed"
        BY <1>2, <1>4, <1>6, <3>1, <3>2 DEF HeldUp
      <3>4. Told("S1", product) \in {"passed", "failed"}
        BY DEF Told
      <3> QED BY <2>2, <3>2, <3>3, <3>4 DEF Worst, Unanswerable
    <2>3. CASE family = "discarded_key"
      <3>1. names = <<"S2", "N1">>
        BY <2>3, FamilyNamings
      <3> HIDE DEF names
      <3>2. i \in {1, 2} /\ DOMAIN left = {1, 2}
        BY <1>1, <1>6, <3>1
      <3>3. /\ results[1].verdict = Told("S2", product)
            /\ results[2].verdict = Told("N1", product)
        BY <1>2, <3>1
      <3>4. /\ Told("S2", product) = "blocked" <=> ~product.deletes
            /\ Told("N1", product) = "blocked" <=> product.write = "broken"
        BY DEF Told
      <3>5. CASE i = 1
        <4>1. /\ left[1].verdict = IF ~product.deletes THEN "blocked" ELSE "failed"
              /\ left[2].verdict = Told("N1", product)
          BY <1>1, <1>4, <1>6, <3>1, <3>3, <3>5 DEF HeldUp
        <4> QED BY <2>3, <3>2, <3>4, <4>1 DEF Worst, Unanswerable
      <3>6. CASE i = 2
        <4>1. /\ left[1].verdict = Told("S2", product)
              /\ left[2].verdict = IF product.write = "broken" THEN "blocked" ELSE "failed"
          BY <1>1, <1>4, <1>6, <3>1, <3>3, <3>6 DEF HeldUp
        <4> QED BY <2>3, <3>2, <3>4, <4>1 DEF Worst, Unanswerable
      <3> QED BY <3>2, <3>5, <3>6
    <2> QED BY <1>1, <2>1, <2>2, <2>3
  <1> QED BY <1>5, <1>9, <1>10 DEF names

\* B1 with some of its pages not shown.
LEMMA PagesMissing ==
    ASSUME NEW product \in Product, NEW shown \in Showings
    PROVE  Settled(runPages(product, shown), <<"B1">>) =
              IF shown.fresh # "page" THEN "blocked"
              ELSE IF shown.control = "page" /\ InContract(Presumed(product, shown), "number_format")
              THEN "passed" ELSE "failed"
  <1> DEFINE result == Recorded("B1", case_b1(product, shown))
             results == <<result>>
             verdict == IF shown.fresh # "page" THEN "blocked"
                        ELSE IF /\ shown.control = "page"
                                /\ Meets(Presumed(product, shown), Contract["number_format"])
                        THEN "passed" ELSE "failed"
  <1>1. result.case = "B1" /\ Honestly(result) /\ result.verdict = verdict
    BY B1Says DEF Says
  <1>2. runPages(product, shown) = Folded(results)
    BY DEF runPages
  <1> HIDE DEF result
  <1>3. <<"B1">> \in Namings /\ DOMAIN <<"B1">> = {1} /\ <<"B1">>[1] = "B1"
    BY DEF Namings
  <1>4. DOMAIN results = {1} /\ results[1] = result
    OBVIOUS
  <1> HIDE DEF results
  <1>5. Settled(Folded(results), <<"B1">>) = Worst(results)
    BY <1>1, <1>3, <1>4, SettledIsWorst
  <1>6. verdict \in {"passed", "failed", "blocked"}
    OBVIOUS
  <1> HIDE DEF verdict
  <1>7. Worst(results) = verdict
    BY <1>1, <1>4, <1>6 DEF Worst
  <1> QED BY <1>2, <1>5, <1>7 DEF verdict, InContract
===============================================================================
