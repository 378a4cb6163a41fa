------------------------------- MODULE Superset -------------------------------
(***************************************************************************)
(* Superset as the portal and the validator use it: explorations saved     *)
(* under a key per browser tab, and charts updated through MCP.  Not part  *)
(* of the repository; a product is described by how it answers, so that    *)
(* one with a known defect, with another one, and with none can be put in  *)
(* its place.                                                              *)
(***************************************************************************)
EXTENDS Integers, Sequences

DEFAULT_LIMIT == 1000
Omitted       == 0     \* no row limit in the request

\* A saved chart opened, the same chart opened again, and another chart.
Pages == {"fresh", "again", "control"}

Product ==
    [keys     : {"renewed",     \* a tab gets a new key after a discard
                 "reused",      \* the known defect: the tab's old key again
                 "unshared"},   \* every save gets a new key
     tabs     : {"own", "shared"},
     deletes  : BOOLEAN,
     omitted  : {"kept",        \* a row limit that is not sent stays
                 "default"},    \* the known defect: it becomes the default
     explicit : {"applied", "unless_default", "ignored"},
     palette  : {"kept", "dropped"},
     sorts    : BOOLEAN,
     defaults : BOOLEAN,        \* a new chart has the default row limit
     write    : {"denied", "allowed", "broken"},   \* the restricted role: explorations,
     data     : {"denied", "allowed", "broken"},   \* and chart data
     large    : SUBSET {"fresh", "again"},    \* the pages that format large numbers,
     small    : SUBSET {"fresh", "control"},  \* those that format small ones,
     quiet    : SUBSET Pages]                 \* and those that log nothing

Sound ==
    [keys |-> "renewed", tabs |-> "own", deletes |-> TRUE,
     omitted |-> "kept", explicit |-> "applied", palette |-> "kept",
     sorts |-> TRUE, defaults |-> TRUE, write |-> "denied", data |-> "denied",
     large |-> {"fresh", "again"}, small |-> {"fresh", "control"}, quiet |-> Pages]

(***************************************************************************)
(* Explorations: what each key holds, and the key each tab goes on with.   *)
(***************************************************************************)
Unsaved(tabs) == [saved |-> <<>>, current |-> [t \in tabs |-> 0]]

Tab(product, s, tab) == IF product.tabs = "own" THEN tab
                        ELSE CHOOSE t \in DOMAIN s.current : TRUE

KeyOf(product, s, tab) == s.current[Tab(product, s, tab)]

Save(product, s, tab, spec) ==
    LET key == KeyOf(product, s, tab)
    IN  IF key = 0 \/ product.keys = "unshared"
        THEN [saved   |-> Append(s.saved, spec),
              current |-> [s.current EXCEPT ![Tab(product, s, tab)] = Len(s.saved) + 1]]
        ELSE [s EXCEPT !.saved[key] = spec]

Delete(product, s, key) ==
    [saved   |-> IF product.deletes THEN [s.saved EXCEPT ![key] = "gone"] ELSE s.saved,
     current |-> IF product.keys = "reused" THEN s.current
                 ELSE [t \in DOMAIN s.current |-> IF s.current[t] = key THEN 0 ELSE s.current[t]]]

(***************************************************************************)
(* Charts, and what a request to change one asks for.                      *)
(***************************************************************************)
Generate(product, config) ==
    [limit   |-> IF config.limit # Omitted THEN config.limit
                 ELSE IF product.defaults THEN DEFAULT_LIMIT ELSE Omitted,
     palette |-> config.palette,
     sort    |-> config.sort]

Limit(product, chart, limit) ==
    IF limit = Omitted
    THEN IF product.omitted = "kept" THEN chart.limit ELSE DEFAULT_LIMIT
    ELSE IF \/ product.explicit = "ignored"
            \/ product.explicit = "unless_default" /\ limit = DEFAULT_LIMIT
         THEN chart.limit
         ELSE limit

Update(product, chart, config) ==
    [limit   |-> Limit(product, chart, config.limit),
     palette |-> IF config.palette # "omitted" THEN config.palette
                 ELSE IF product.palette = "kept" THEN chart.palette ELSE "none",
     sort    |-> IF config.sort = "omitted" \/ ~product.sorts THEN chart.sort
                 ELSE config.sort]

\* What the restricted role is answered.
Answer(policy, granted) == CASE policy = "denied"  -> 403
                             [] policy = "allowed" -> granted
                             [] policy = "broken"  -> 500
===============================================================================
