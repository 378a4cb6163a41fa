------------------------------- MODULE Validator -------------------------------
(***************************************************************************)
(* The independent validator (portal/validator.py): what each case records *)
(* when it is replayed against a product, and what is left of it when a    *)
(* call is not answered.  Every replay works in tabs and on charts of its  *)
(* own.                                                                    *)
(***************************************************************************)
EXTENDS Superset, FiniteSets, FiniteSetsExt, Reports

setup(name, holds)   == Check(name, "setup", holds)
target(name, holds)  == Check(name, "target", holds)
control(name, holds) == Check(name, "control", holds)

\* Save, discard, save again in one tab; a second tab; two saves in a third.
case_s2(product) ==
    LET a  == Save(product, Unsaved({1, 2, 3}), 1, "a")
        k1 == KeyOf(product, a, 1)
        x  == Delete(product, a, k1)
        b  == Save(product, x, 1, "b")
        k2 == KeyOf(product, b, 1)
        c  == Save(product, b, 2, "c")
        k3 == KeyOf(product, c, 2)
        d1 == Save(product, c, 3, "d1")
        k4 == KeyOf(product, d1, 3)
        d2 == Save(product, d1, 3, "d2")
    IN  <<setup("read_a", a.saved[k1] = "a"),
          setup("gone", x.saved[k1] = "gone"),
          target("no_reused_key", k1 # k2),
          target("old_link_dead", b.saved[k1] = "gone"),
          target("reads_back", b.saved[k2] = "b"),
          control("second_tab_own_key", k3 # k2),
          control("second_tab_own_state", c.saved[k3] = "c"),
          control("updates_in_place", KeyOf(product, d2, 3) = k4),
          control("latest_state", d2.saved[k4] = "d2")>>

\* The chart of the fixture, and the changes made to it.
Config(limit, palette, sort) == [limit |-> limit, palette |-> palette, sort |-> sort]
Only(limit) == Config(limit, "omitted", "omitted")

\* Mutant of case_s1: both explicit limits differ from the default.
case_s1_twice(product) ==
    LET before == Generate(product, Config(137, "google", "asc"))
        sorted == Update(product, before, Config(Omitted, "omitted", "desc"))
        given  == Update(product, sorted, Only(275))
        other  == Update(product, given, Only(276))
        plain  == Generate(product, Config(Omitted, "omitted", "omitted"))
    IN  <<setup("starts", before.limit = 137 /\ before.palette = "google"),
          target("sort_persists", sorted.sort = "desc"),
          target("row_limit_kept", sorted.limit = 137),
          control("palette_kept", sorted.palette = "google"),
          control("explicit_limit", given.limit = 275),
          control("explicit_default", other.limit = 276),
          control("new_chart_default", plain.limit = DEFAULT_LIMIT)>>

\* A sort alone, then two explicit limits of which one is the default, and a
\* chart that is generated without any.
case_s1(product) ==
    LET before == Generate(product, Config(137, "google", "asc"))
        sorted == Update(product, before, Config(Omitted, "omitted", "desc"))
        given  == Update(product, sorted, Only(275))
        plain  == Generate(product, Config(Omitted, "omitted", "omitted"))
    IN  <<setup("starts", before.limit = 137 /\ before.palette = "google"),
          target("sort_persists", sorted.sort = "desc"),
          target("row_limit_kept", sorted.limit = 137),
          control("palette_kept", sorted.palette = "google"),
          control("explicit_limit", given.limit = 275),
          control("explicit_default",
                  Update(product, given, Only(DEFAULT_LIMIT)).limit = DEFAULT_LIMIT),
          control("new_chart_default", plain.limit = DEFAULT_LIMIT)>>

\* A server error is no answer to the write; to the read of data it is one.
case_n1(product) ==
    <<control("can_list", TRUE),
      setup("write_answered", Answer(product.write, 201) < 500),
      target("write_denied", Answer(product.write, 201) = 403),
      target("data_denied", Answer(product.data, 200) = 403)>>

\* Three page loads, and only the first is asked whether it came up.  Of one
\* that did not there is at most what it logged: no raw value to be seen, and
\* no formatted one either.
case_b1(product, shown) ==
    <<setup("rendered", shown.fresh = "page"),
      target("formatted", "fresh" \in product.large),
      target("no_warning", "fresh" \in product.quiet),
      target("formatted_again", shown.again = "page" => "again" \in product.large),
      target("no_warning_again", shown.again # "nothing" => "again" \in product.quiet),
      control("small_values_kept", "fresh" \in product.small),
      control("control_chart_kept", shown.control = "page" /\ "control" \in product.small),
      control("control_chart_silent",
              shown.control # "nothing" => "control" \in product.quiet)>>

Showings == [Pages -> {"page", "log", "nothing"}]
AllShown == [page \in Pages |-> "page"]

case(name, product) == CASE name = "S2" -> case_s2(product)
                         [] name = "S1" -> case_s1(product)
                         [] name = "N1" -> case_n1(product)
                         [] name = "B1" -> case_b1(product, AllShown)

\* Recorder.require: the first precondition that fails ends the case.
Recorded(name, checks) ==
    LET failed == {i \in DOMAIN checks : checks[i].kind = "setup" /\ ~checks[i].holds}
    IN  IF failed = {} THEN Result(name, checks)
        ELSE BlockedResult(name, SubSeq(checks, 1, Min(failed)))

\* run(), every call answered.
run(names, product) ==
    Folded([i \in DOMAIN names |-> Recorded(names[i], case(names[i], product))])

\* run(), case i left after n checks by an exception: a call unanswered, or a
\* browser that does not start.  What B1 asserts comes after all it asks.
Cuts(name, product) == IF name = "B1" THEN {0} ELSE 0 .. Len(case(name, product)) - 1

runCutShort(names, product, i, n) ==
    LET cut == BlockedResult(names[i], SubSeq(case(names[i], product), 1, n))
    IN  Folded([run(names, product).cases EXCEPT ![i] = cut])

\* run(), an error status where check n of case i compares what it reads without
\* a look at the status.
Unguarded(name, product) ==
    {n \in DOMAIN case(name, product) :
        name \in {"S2", "N1"} /\ case(name, product)[n].name \in ErrorFails[name]}

runErred(names, product, i, n) ==
    LET erred == [case(names[i], product) EXCEPT ![n].holds = FALSE]
    IN  Folded([run(names, product).cases EXCEPT ![i] = Recorded(names[i], erred)])

\* run(), some pages of B1 not shown.
runPages(product, shown) == Folded(<<Recorded("B1", case_b1(product, shown))>>)

Verdict(family, product) ==
    LET names == CASES_BY_FAMILY[family] IN Settled(run(names, product), names)

-------------------------------------------------------------------------------
\* What is asked of a product, family by family.
Contract ==
    [discarded_key |-> [keys |-> "renewed", tabs |-> "own", deletes |-> TRUE],
     row_limit     |-> [omitted |-> "kept", explicit |-> "applied", palette |-> "kept",
                        sorts |-> TRUE, defaults |-> TRUE],
     number_format |-> [large |-> {"fresh", "again"}, small |-> {"fresh", "control"},
                       quiet |-> Pages]]

Denials == [write |-> "denied", data |-> "denied"]

Meets(product, terms) == \A term \in DOMAIN terms : product[term] = terms[term]

InContract(product, family) ==
    /\ Meets(product, Contract[family])
    /\ family # "number_format" => Meets(product, Denials)

\* Where the product itself keeps a case from getting to its assertions.
Unanswerable(product, family) ==
    \/ family = "discarded_key" /\ ~product.deletes
    \/ family # "number_format" /\ product.write = "broken"

\* The product with the benefit of the doubt where a page was not shown.
Presumed(product, shown) ==
    [product EXCEPT !.large = @ \union {page \in {"fresh", "again"} : shown[page] # "page"},
                    !.quiet = @ \union {page \in Pages : shown[page] = "nothing"}]
===============================================================================
