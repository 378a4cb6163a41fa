--------------------------- MODULE RecordingPromise ---------------------------
(***************************************************************************)
(* What check_media() promises: two recordings are owed over a repair's    *)
(* life, one of the symptom and, after a merge, one of the merged commit.  *)
(* Each is asked for at most once, reaches Slack at most once, and is      *)
(* delivered or has failed for good; only Slack's word makes it delivered. *)
(***************************************************************************)

VARIABLES
    stage,   \* the recording that is owed
    state,   \* how far it is
    asked,   \* the recordings the session was asked for
    stored   \* those that Slack has

Init ==
    /\ stage = "symptom" /\ state = "pending"
    /\ asked = {} /\ stored = {}

Ask ==
    /\ state = "pending" /\ stage \notin asked
    /\ asked' = asked \union {stage}
    /\ UNCHANGED <<stage, state, stored>>

\* From here on it is waited for, also when the request got lost.
Await ==
    /\ state = "pending" /\ state' = "requested"
    /\ UNCHANGED <<stage, asked, stored>>

Capture ==
    /\ state = "requested" /\ stage \in asked
    /\ state' = "captured"
    /\ UNCHANGED <<stage, asked, stored>>

Store ==
    /\ state = "captured" /\ stage \notin stored
    /\ stored' = stored \union {stage}
    /\ UNCHANGED <<stage, state, asked>>

Deliver ==
    /\ state = "captured" /\ stage \in stored
    /\ state' = "delivered"
    /\ UNCHANGED <<stage, asked, stored>>

Fail ==
    /\ state \in {"pending", "requested", "captured"}
    /\ state' = "failed"
    /\ UNCHANGED <<stage, asked, stored>>

\* The merge was accepted: whatever became of the symptom's recording, the
\* merged commit's is owed now.
Merge ==
    /\ stage = "symptom"
    /\ stage' = "merged" /\ state' = "pending"
    /\ UNCHANGED <<asked, stored>>

Next == Ask \/ Await \/ Capture \/ Store \/ Deliver \/ Fail \/ Merge

Spec == Init /\ [][Next]_<<stage, state, asked, stored>>
===============================================================================
