---------------------------- MODULE MCVerification ----------------------------
(* Small instances of Verification. *)
EXTENDS Verification

\* A repair in two commits whose last is its tests, one that repairs nothing,
\* and one that reaches beyond its scope.
MCDiff ==
    [good |-> <<{<<"superset", "charts", "update">>, <<"tests", "charts">>},
                {<<"superset", "charts", "update">>}>>,
     vain |-> <<{<<"superset", "mcp_service", "schemas">>}>>,
     wide |-> <<{<<"superset", "charts", "update">>},
                {<<"superset", "charts", "update">>, <<"superset", "security", "manager">>}>>]

\* The defect itself, with another, and a role that may do more.
MCSymptoms == {{"sort_persists", "row_limit_kept"}, {"write_denied"}}
===============================================================================
