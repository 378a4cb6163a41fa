-------------------------------- MODULE Outbox --------------------------------
(***************************************************************************)
(* What the ledger of messages promises the channel: an event is recorded  *)
(* once and never removed or reworded; what counts as sent was posted; and *)
(* only an attempt that died or ran unaware of another is an excuse to post*)
(* a message again, or to take one that was settled for one that was not.  *)
(* Of repairs, processes, attempts and threads it knows nothing.  (The     *)
(* docstring of portal/notify.py.)                                         *)
(***************************************************************************)
EXTENDS Integers, Sequences

CONSTANT Message

VARIABLES
    event,      \* what is recorded, in the order it was
    standing,   \* of each: "pending", or how it was settled
    posted,     \* which of them may be in the channel
    excuse      \* how many excuses are left

Init ==
    /\ event \in {<<>>} \cup {<<m>> : m \in Message}
    /\ standing = [n \in DOMAIN event |-> "sent"]
    /\ posted = DOMAIN event
    /\ excuse = 0

Record ==
    /\ Len(event') = Len(event) + 1
    /\ \E m \in Message :
          /\ \A n \in DOMAIN event : event[n] # m
          /\ event' = Append(event, m)
    /\ standing' = Append(standing, "pending")
    /\ UNCHANGED <<posted, excuse>>

\* It may be in the channel, or was settled.
Spoken(n) == n \in posted \/ standing[n] # "pending"

\* The answer may be lost: the message counts as unknown from then on.
Post(n) ==
    /\ Spoken(n) => excuse > 0
    /\ posted' = posted \cup {n}
    /\ excuse' = IF n \in posted THEN excuse - 1 ELSE excuse
    /\ standing' \in {standing, [standing EXCEPT ![n] = "unknown"]}
    /\ UNCHANGED event

\* Posted, turned away for now or for good, or not to be posted at all.
Settle(n, st) ==
    /\ st = "sent" => n \in posted
    /\ st # "sent" /\ Spoken(n) => excuse > 0
    /\ standing' = [standing EXCEPT ![n] = st]
    /\ UNCHANGED <<event, posted, excuse>>

\* An attempt dies, perhaps after it posted, or begins unaware of another.
Excuse ==
    /\ excuse' = excuse + 1
    /\ posted' \in {posted} \cup {posted \cup {n} : n \in DOMAIN event}
    /\ UNCHANGED <<event, standing>>

Next ==
    \/ Record
    \/ \E n \in DOMAIN event :
          \/ Post(n)
          \/ \E st \in {"sent", "pending", "failed", "disabled"} : Settle(n, st)
    \/ Excuse

Spec == Init /\ [][Next]_<<event, standing, posted, excuse>>
===============================================================================
