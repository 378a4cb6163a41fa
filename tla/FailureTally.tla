----------------------------- MODULE FailureTally -----------------------------
(***************************************************************************)
(* What the incident store promises of counting: a customer action that    *)
(* failed is counted at most once, under its own incident, however many    *)
(* of its assertions failed and however often its events are delivered.    *)
(***************************************************************************)
EXTENDS Integers

CONSTANT Incident, Action

VARIABLES
    happened,  \* the failures so far: which incident, in which action
    counted,   \* those that are in the store
    tally      \* per incident, how many actions it says failed

Init ==
    /\ happened = {}
    /\ counted = {}
    /\ tally = [i \in Incident |-> 0]

\* One more action fails.
Fail ==
    /\ \E f \in happened' \ happened :
           f \in Incident \X Action /\ happened' = happened \union {f}
    /\ UNCHANGED <<counted, tally>>

\* One that failed is counted.
Count ==
    /\ \E f \in counted' \ counted :
           /\ f \in happened
           /\ counted' = counted \union {f}
           /\ tally' = [tally EXCEPT ![f[1]] = @ + 1]
    /\ UNCHANGED happened

Next == Fail \/ Count

Spec == Init /\ [][Next]_<<happened, counted, tally>>
===============================================================================
