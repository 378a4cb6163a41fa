------------------------------ MODULE Acceptance ------------------------------
(***************************************************************************)
(* What the verifier and the merge gate promise together: a repair moves   *)
(* on by a verdict that was put on record first, is the only one that is   *)
(* not yet acted on, and concerns the stage the repair is at; it says what *)
(* its commit does, or that nothing can be said, unless that commit is in  *)
(* doubt, and a failure unless it was misread besides; and a repair is     *)
(* accepted only by the verdict                                            *)
(* on the very commit that was merged.  Of checkouts, containers, replays, *)
(* calls and coordinators it knows nothing.  (The docstrings of            *)
(* portal/verification.py and of Controller.verify.)                       *)
(***************************************************************************)
CONSTANTS
    Commit, NoCommit,
    Mended      \* the commits that do what the repair is to achieve

VARIABLES
    state,      \* of the repair
    merge,      \* the commit that merging its pull request made, or NoCommit
    verdicts,   \* on record
    said,       \* the verdict that was put on record and not yet acted on
    doubted,    \* commits of which a verdict may say anything
    misread     \* commits of which it may say that they failed

Verdict == [stage : {"preview", "post_merge"}, commit : Commit \union {NoCommit},
            verdict : {"passed", "failed", "blocked"}]

Init ==
    /\ state = "candidate"
    /\ merge = NoCommit
    /\ verdicts = {} /\ said = {} /\ doubted = {} /\ misread = {}

Merge(c) ==
    /\ merge = NoCommit
    /\ merge' = c
    /\ UNCHANGED <<state, verdicts, said, doubted, misread>>

Doubt(c) ==
    /\ doubted' \in {doubted, doubted \union {c}}
    /\ misread' \in {misread, misread \union {c}}
    /\ UNCHANGED <<state, merge, verdicts, said>>

Judge(v) ==
    /\ said = {}
    /\ v.verdict = "passed" /\ v.commit \notin doubted => v.commit \in Mended
    /\ v.verdict = "failed" /\ v.commit \notin doubted \union misread
          => v.commit \notin Mended
    /\ verdicts' = verdicts \union {v}
    /\ said' = {v}
    /\ UNCHANGED <<state, merge, doubted, misread>>

\* Whoever was to act on the verdict dies: it stays on record, and that is all.
Forget ==
    /\ said' = {}
    /\ \E lost \in {{}} \union {{c} : c \in Commit} : doubted' = doubted \union lost
    /\ UNCHANGED <<state, merge, verdicts, misread>>

Conclude(v) ==
    /\ v \in said
    /\ said' = {}
    /\ \/ /\ state = "candidate" /\ v.stage = "preview"
          /\ state' = CASE v.verdict = "passed"  -> "awaiting_merge"
                        [] v.verdict = "failed"  -> "working"
                        [] v.verdict = "blocked" -> "attention"
       \/ /\ state = "awaiting_merge" /\ v.stage = "post_merge"
          /\ \/ v.verdict = "passed" /\ v.commit = merge /\ state' = "merged"
             \/ v.verdict # "passed" /\ state' = "attention"
    /\ UNCHANGED <<merge, verdicts, doubted, misread>>

\* Without a verdict: a new candidate, or a pull request that was not merged,
\* or not as it was previewed.
Deliver ==
    /\ said = {} /\ state = "working"
    /\ state' = "candidate"
    /\ UNCHANGED <<merge, verdicts, said, doubted, misread>>

Refuse ==
    /\ said = {} /\ state = "awaiting_merge"
    /\ state' \in {"refused", "attention"}
    /\ UNCHANGED <<merge, verdicts, said, doubted, misread>>

Next ==
    \/ \E c \in Commit : Merge(c) \/ Doubt(c)
    \/ \E v \in Verdict : Judge(v) \/ Conclude(v)
    \/ Forget \/ Deliver \/ Refuse

Spec == Init /\ [][Next]_<<state, merge, verdicts, said, doubted, misread>>

===============================================================================
