-------------------------------- MODULE MCPortal --------------------------------
EXTENDS Portal, TLC

MCDeployed == {Sound,
               [Sound EXCEPT !.keys = "reused", !.omitted = "default", !.write = "allowed"],
               [Sound EXCEPT !.deletes = FALSE, !.explicit = "ignored", !.write = "broken"]}

\* And products that differ from a sound one in one area and, for the two
\* families whose cases include N1, in what the restricted role is answered.
Answered  == {"denied", "allowed", "broken"}

Explorers ==
    {[Sound EXCEPT !.keys = keys, !.tabs = tabs, !.deletes = deletes, !.write = write,
                   !.data = data] :
        keys \in {"renewed", "reused", "unshared"}, tabs \in {"own", "shared"},
        deletes \in BOOLEAN, write \in Answered, data \in Answered}

Charters ==
    {[Sound EXCEPT !.omitted = omitted, !.explicit = explicit, !.palette = palette,
                   !.sorts = sorts, !.defaults = defaults, !.write = write, !.data = data] :
        omitted \in {"kept", "default"}, palette \in {"kept", "dropped"},
        explicit \in {"applied", "unless_default", "ignored"},
        sorts \in BOOLEAN, defaults \in BOOLEAN, write \in Answered, data \in Answered}

Formatters ==
    {[Sound EXCEPT !.large = large, !.small = small, !.quiet = quiet] :
        large \in SUBSET {"fresh", "again"}, small \in SUBSET {"fresh", "control"},
        quiet \in SUBSET Pages}

MCProducts == MCDeployed \union Explorers \union Charters \union Formatters

Symmetry == Permutations(Threads)
===============================================================================
