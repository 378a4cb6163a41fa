---------------------------- MODULE MCIncidentStore ----------------------------
(* Small instances of IncidentStore. *)
EXTENDS IncidentStore, TLC

MCActions   == {"a1", "a2"}
MCActors    == {"analyst"}
MCRevisions == {"base"}
MCParent    == [sha |-> "base", family |-> "S2", actor |-> "analyst"]

Failure(name, trace) ==
    [outcome |-> "assertion_failed", name |-> name, kind |-> "baseline", sha |-> "base",
     fixture |-> TRUE, scenario |-> "S2", actor |-> "analyst", trace |-> trace]

\* Two assertions of one action, and one of a second action without a fixture;
\* the parent's reproduction; a control; an unmatched checkout; a row nobody
\* may store; and one that says nothing.
MCInputs ==
    {Failure("key_is_reused", "a1"),
     Failure("link_came_back", "a1"),
     [Failure("key_is_reused", "a2") EXCEPT !.fixture = FALSE],
     [Failure("key_is_reused", "a2") EXCEPT !.kind = "preview"],
     Failure("color_scheme_was_reset", "a2"),
     [Failure("row_limit_was_reset", "a2") EXCEPT !.scenario = "S1", !.sha = ""],
     [Failure("key_is_reused", "a2") EXCEPT !.kind = "unheard_of"],
     [Failure("key_is_reused", "a2") EXCEPT !.outcome = "ok"]}

Scan(trace) == [Failure("", trace) EXCEPT !.outcome = "telemetry", !.scenario = "B1"]

MCEntries ==
    {[severity |-> "warning", text |-> "formatter_failed", of |-> Scan("a1")],
     [severity |-> "error", text |-> "formatter_failed", of |-> Scan("a2")]}

MCAdmission == [portal |-> "dry_run", coordinator |-> "enabled"]
===============================================================================
