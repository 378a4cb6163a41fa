---------------------------- MODULE SingleFlight ----------------------------
(***************************************************************************)
(* What the repair controller promises whoever pays for the sessions: one  *)
(* repair holds the claim at a time; under its claim it files one issue    *)
(* and then opens one session; and the claim is given back only once that  *)
(* session no longer runs, or once it has settled that there is nothing to *)
(* repair.  (The module docstring of portal/controller.py, the comment on  *)
(* its table repair_slot, and _candidate.)                                 *)
(***************************************************************************)
CONSTANTS Repairs, None

VARIABLES
    holder,   \* the repair that holds the claim, or None
    filed,    \* repairs whose issue exists
    opened,   \* repairs whose session was created
    running,  \* repairs whose session is open
    settled   \* repairs whose session reported that there is no product defect

vars == <<holder, filed, opened, running, settled>>

Init ==
    /\ holder = None
    /\ filed = {}
    /\ opened = {}
    /\ running = {}
    /\ settled = {}

Take(r) ==
    /\ holder = None
    /\ holder' = r
    /\ UNCHANGED <<filed, opened, running, settled>>

File(r) ==
    /\ holder = r
    /\ r \notin filed
    /\ filed' = filed \cup {r}
    /\ UNCHANGED <<holder, opened, running, settled>>

Open(r) ==
    /\ holder = r
    /\ r \in filed \ opened
    /\ opened' = opened \cup {r}
    /\ running' = running \cup {r}
    /\ UNCHANGED <<holder, filed, settled>>

\* It may stay open after its report, waiting for its user.
Settle(r) ==
    /\ r \in running \ settled
    /\ settled' = settled \cup {r}
    /\ running' \in {running, running \ {r}}
    /\ UNCHANGED <<holder, filed, opened>>

End(r) ==
    /\ r \in running
    /\ running' = running \ {r}
    /\ UNCHANGED <<holder, filed, opened, settled>>

Give(r) ==
    /\ holder = r
    /\ r \notin running \ settled
    /\ holder' = None
    /\ UNCHANGED <<filed, opened, running, settled>>

Next ==
    \E r \in Repairs : Take(r) \/ File(r) \/ Open(r) \/ Settle(r) \/ End(r) \/ Give(r)

Spec == Init /\ [][Next]_vars

=============================================================================
