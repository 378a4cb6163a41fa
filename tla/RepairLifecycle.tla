--------------------------- MODULE RepairLifecycle ---------------------------
(***************************************************************************)
(* A dispatched repair until its claim is given back or a person is asked: *)
(* Controller.poll, verify, feedback, check_merge and check_media, and the *)
(* part of RepairWorker.tick that offers a capture to Slack.               *)
(*                                                                         *)
(* One coordinator ticks over the one repair that holds the slot.  A step  *)
(* is one committed database write or one remote call that changes         *)
(* something, and the coordinator may crash between any two; remote reads  *)
(* belong to the step that acts on them.  The session, the pull request,   *)
(* Slack and the clock move by themselves.                                 *)
(***************************************************************************)
EXTENDS Naturals, FiniteSets

CONSTANT Sizes       \* the instances: which bounds, and the merge gate

ASSUME SizesAreBounds ==
    Sizes \subseteq [commits : Nat, followUps : Nat, mediaPolls : Nat, gate : BOOLEAN]

VARIABLES
    st,       \* repairs.state
    held,     \* repair_slot names this repair
    head,     \* repairs.pr_head_sha, 0 while unset
    ups,      \* repairs.follow_ups
    mstate,   \* repairs.media_state
    mstage,   \* repairs.media_stage
    mfile,    \* the stage repairs.media_path is footage of
    mpolls,   \* repairs.media_polls, capped one above MaxMediaPolls
    classified, \* repairs.terminal_reason says there is no product defect
    passed,   \* commits a stored preview attempt passed
    msg,      \* repair_intents.state of the messages to the session
    upload,   \* notification_uploads.state, per stage
    agent,    \* the session is working, asking, finished, or terminated: "ended"
    output,   \* its structured output, where that reproduced the failure
    told,     \* how often each message reached it
    shot,     \* its captures: taken since they were asked for, or outdated
    pushed,   \* the pull request's head, 0 before there is one
    newest,   \* the newest commit its branch was ever at
    forced,   \* the commits its branch was forced back to
    pr,       \* the pull request's state
    budget,   \* "left", "spent": the ACUs are, or "over": the deadline passed
    size,     \* the instance, chosen at the start
    pc, mark, back, word, offer   \* locals of the tick

repair  == <<st, held, head, ups, classified, passed>>
media   == <<mstate, mstage, mfile, mpolls>>
session == <<agent, output, told, shot>>
github  == <<pushed, newest, forced, pr>>
limits  == <<budget, size>>
locals  == <<pc, mark, back, word, offer>>
vars    == <<repair, media, msg, upload, session, github, limits, locals>>

LastCommit    == size.commits      \* the session makes commits 1, 2, ...
MaxFollowUps  == size.followUps    \* MAX_FOLLOW_UPS
MaxMediaPolls == size.mediaPolls   \* MAX_MEDIA_POLLS
MergeGate     == size.gate         \* Controller.merge_gate

Commits == 1 .. LastCommit
Stages  == {"symptom", "merged"}

\* A follow-up is keyed by the commit that failed, a recording by its stage.
Marks == ({"follow-up"} \X Commits) \cup (Stages \X {0})
NoMark == <<"none", 0>>
Asking(s) == <<s, 0>>

IntentStates == {"absent", "intended", "confirmed", "ambiguous"}
Unresolved == {"pending", "requested", "captured"}

Locations ==
    {"idle", "down", "recover", "media", "ask", "send", "confirm", "doubt", "refuse",
     "asked", "turned", "look", "look_asked", "close", "kept", "shut", "open", "release",
     "step", "feedback", "followed", "doubtful", "stop", "stopped", "unstopped", "retire",
     "offer", "uploading"}

TypeOK ==
    /\ st \in {"dispatched", "candidate", "awaiting_merge", "verified", "merged",
               "needs_attention", "terminal"}
    /\ held \in BOOLEAN
    /\ head \in 0 .. LastCommit
    /\ ups \in 0 .. MaxFollowUps
    /\ mstate \in Unresolved \cup {"delivered", "failed"}
    /\ mstage \in Stages
    /\ mfile \in Stages \cup {"none"}
    /\ mpolls \in 0 .. MaxMediaPolls + 1
    /\ classified \in BOOLEAN
    /\ passed \subseteq Commits
    /\ msg \in [Marks -> IntentStates]
    /\ upload \in [Stages -> {"none", "pending", "sent", "unknown", "failed"}]
    /\ agent \in {"working", "asking", "finished", "ended"}
    /\ output \in {"none", "no_defect", "defect"}
    /\ told \in [Marks -> Nat]
    /\ shot \in [Stages -> {"none", "taken", "outdated"}]
    /\ pushed \in 0 .. newest
    /\ newest \in 0 .. LastCommit
    /\ forced \subseteq 1 .. newest
    /\ pr \in {"open", "merged", "closed"}
    /\ size \in Sizes
    /\ budget \in {"left", "spent", "over"}
    /\ pc \in Locations
    /\ mark \in Marks \cup {NoMark}
    /\ back \in {"step", "end"}
    /\ word \in {"failed", "delivered"}
    /\ offer \in BOOLEAN

\* What dispatch() leaves behind: the symptom's recording is owed.
Init ==
    /\ size \in Sizes
    /\ st = "dispatched" /\ held = TRUE /\ head = 0 /\ ups = 0
    /\ classified = FALSE /\ passed = {}
    /\ mstate = "pending" /\ mstage = "symptom" /\ mfile = "none" /\ mpolls = 0
    /\ msg = [m \in Marks |-> "absent"]
    /\ upload = [s \in Stages |-> "none"]
    /\ agent = "working" /\ output = "none"
    /\ told = [m \in Marks |-> 0] /\ shot = [s \in Stages |-> "none"]
    /\ pushed = 0 /\ newest = 0 /\ forced = {} /\ pr = "open" /\ budget = "left"
    /\ pc = "idle" /\ mark = NoMark /\ back = "end" /\ word = "failed" /\ offer = FALSE

-----------------------------------------------------------------------------
(* Moving through a tick. *)

Goto(l) == pc' = l /\ UNCHANGED <<mark, back, word, offer>>

\* The decisions are in: a capture among them is offered to Slack next.
End ==
    /\ pc' = IF offer THEN "offer" ELSE "idle"
    /\ mark' = NoMark /\ back' = "end" /\ word' = "failed" /\ UNCHANGED offer

\* check_media() returns to _walk(), which goes on to _step(), or to tick().
Return == IF back = "step" THEN pc' = "step" /\ back' = "end" /\ mark' = NoMark
                                /\ word' = "failed" /\ UNCHANGED offer
          ELSE End

\* An exception leaves the tick, or the process dies: locals are gone.
Abandon(l) ==
    /\ pc' = l /\ mark' = NoMark /\ back' = "end" /\ word' = "failed" /\ offer' = FALSE

\* Into _settle_media() with its verdict on the recording.
Close(w) == pc' = "close" /\ word' = w /\ offer' = FALSE /\ UNCHANGED <<mark, back>>

Park == st' = "needs_attention" /\ UNCHANGED <<held, head, ups, classified, passed>>

\* terminate_session(): confirmed, or refused or unknown whatever Devin did.
Terminated(yes, no) ==
    /\ \/ agent' = "ended" /\ Goto(yes)
       \/ agent' \in {agent, "ended"} /\ Goto(no)
    /\ UNCHANGED <<output, told, shot>>

-----------------------------------------------------------------------------
(* The start of a tick: recover(), then _walk(). *)

\* settle(AMBIGUOUS) for an intent older than the cutoff.  Only a tick that was
\* cut short leaves one intended, and how long ago that was is open, ...
RecoverSettles ==
    \E m \in Marks :
        /\ pc = "idle"
        /\ msg[m] = "intended"
        /\ msg' = [msg EXCEPT ![m] = "ambiguous"]
        /\ Goto("recover")
        /\ UNCHANGED <<repair, media, upload, session, github, limits>>

\* ... and its repair is parked, in whatever state it is by now.
RecoverParks ==
    /\ pc = "recover"
    /\ Park
    /\ Goto("idle")
    /\ UNCHANGED <<media, msg, upload, session, github, limits>>

\* Mutant of Walk: the symptom's recording is carried on once it is settled.
WalkCarriesOn ==
    LET beside == mstage = "symptom" /\ st # "terminal" IN
    /\ pc = "idle"
    /\ held
    /\ pc' = IF beside THEN "media" ELSE "step"
    /\ back' = IF beside THEN "step" ELSE "end"
    /\ UNCHANGED <<repair, media, msg, upload, session, github, limits, mark, word, offer>>

\* _walk(): the symptom's recording is carried alongside the repair.
Walk ==
    LET beside == mstage = "symptom" /\ mstate \in Unresolved /\ st # "terminal" IN
    /\ pc = "idle"
    /\ held
    /\ pc' = IF beside THEN "media" ELSE "step"
    /\ back' = IF beside THEN "step" ELSE "end"
    /\ UNCHANGED <<repair, media, msg, upload, session, github, limits, mark, word, offer>>

\* _step(): a merged repair owes its recording; every other settled or parked
\* one is left alone.
StepMerged ==
    /\ pc = "step"
    /\ st = "merged" /\ mstate \in Unresolved
    /\ Goto("media")
    /\ UNCHANGED <<repair, media, msg, upload, session, github, limits>>

StepParked ==
    /\ pc = "step"
    /\ \/ st \in {"needs_attention", "terminal", "verified"}
       \/ st = "merged" /\ mstate \notin Unresolved
    /\ End
    /\ UNCHANGED <<repair, media, msg, upload, session, github, limits>>

-----------------------------------------------------------------------------
(* poll() and _candidate(). *)

\* session.agent_finished, or a question asked with a result handed over.
Delivered ==
    \/ agent \in {"finished", "ended"}
    \/ agent = "asking" /\ output # "none" /\ pushed > 0

Polling == pc = "step" /\ st = "dispatched"

\* The session cannot be read; it is blocked, or waits with nothing to show;
\* its output is missing or reproduced nothing; its pull request is unusable.
PollParks ==
    /\ Polling
    /\ Park
    /\ End
    /\ UNCHANGED <<media, msg, upload, session, github, limits>>

PollRunning ==
    /\ Polling
    /\ agent = "working" /\ budget = "left"
    /\ End
    /\ UNCHANGED <<repair, media, msg, upload, session, github, limits>>

PollStops ==
    /\ Polling
    /\ agent = "working" /\ budget # "left"
    /\ Goto("stop")
    /\ UNCHANGED <<repair, media, msg, upload, session, github, limits>>

\* Not a product defect: terminal, and the slot is given back.
PollClassifies ==
    /\ Polling
    /\ Delivered /\ output = "no_defect"
    /\ st' = "terminal"
    /\ classified' = TRUE
    /\ Goto("release")
    /\ UNCHANGED <<held, head, ups, passed, media, msg, upload, session, github, limits>>

PollCandidate ==
    /\ Polling
    /\ Delivered /\ output = "defect"
    /\ pr = "open" /\ pushed > 0
    /\ st' = "candidate"
    /\ head' = pushed
    /\ End
    /\ UNCHANGED <<held, ups, classified, passed, media, msg, upload, session, github, limits>>

\* pull_request_head() raises Ambiguous or Refused, which _candidate() does not
\* catch: the tick is given up and the row stays as it is.
PollRaises ==
    /\ Polling
    /\ Delivered /\ output = "defect"
    /\ Abandon("idle")
    /\ UNCHANGED <<repair, media, msg, upload, session, github, limits>>

-----------------------------------------------------------------------------
(* verify() and feedback(). *)

Verifying == pc = "step" /\ st = "candidate"

\* No verifier, an unusable pull request, a stack that never came up.
VerifyBlocked ==
    /\ Verifying
    /\ Park
    /\ End
    /\ UNCHANGED <<media, msg, upload, session, github, limits>>

\* Verifier.verify() raises what neither it nor verify() catches: nothing is
\* written, and no budget is looked at before the next tick tries again.
VerifyRaises ==
    /\ Verifying
    /\ Abandon("idle")
    /\ UNCHANGED <<repair, media, msg, upload, session, github, limits>>

\* The pull request's own head is read anew and graded; pr_head_sha stays.
VerifyPasses ==
    /\ Verifying
    /\ pr = "open" /\ pushed > 0
    /\ passed' = passed \cup {pushed}
    /\ st' = IF MergeGate THEN "awaiting_merge" ELSE "verified"
    /\ IF MergeGate THEN End ELSE Goto("retire")
    /\ UNCHANGED <<held, head, ups, classified, media, msg, upload, session, github, limits>>

VerifyFails ==
    /\ Verifying
    /\ pr = "open" /\ pushed > 0
    /\ pc' = "feedback"
    /\ mark' = <<"follow-up", pushed>>
    /\ UNCHANGED <<repair, media, msg, upload, session, github, limits, back, word, offer>>

\* The budget and the follow-up limit come before anything is sent.  The ACUs
\* are the ones last stored, so running out of them may have gone unnoticed.
FeedbackStops ==
    /\ pc = "feedback"
    /\ budget # "left" \/ ups >= MaxFollowUps
    /\ Goto("stop")
    /\ UNCHANGED <<repair, media, msg, upload, session, github, limits>>

\* Mutant of FeedbackIntends: the follow-up limit is not looked at.
FeedbackUnlimited ==
    /\ pc = "feedback"
    /\ budget # "over"
    /\ IF msg[mark] = "absent"
       THEN msg' = [msg EXCEPT ![mark] = "intended"] /\ Goto("send")
       ELSE End /\ UNCHANGED msg
    /\ UNCHANGED <<repair, media, upload, session, github, limits>>

\* Mutant of FeedbackIntends: an intent left unsettled is taken up again.
FeedbackResends ==
    /\ pc = "feedback"
    /\ budget # "over" /\ ups < MaxFollowUps
    /\ IF msg[mark] \in {"absent", "intended"}
       THEN msg' = [msg EXCEPT ![mark] = "intended"] /\ Goto("send")
       ELSE End /\ UNCHANGED msg
    /\ UNCHANGED <<repair, media, upload, session, github, limits>>

\* intend(): only the first attempt for this commit sends.  A confirmed or an
\* unsettled one ends the tick; an ambiguous one raises Parked, which nothing
\* up to _run() catches.
FeedbackIntends ==
    /\ pc = "feedback"
    /\ budget # "over" /\ ups < MaxFollowUps
    /\ \/ /\ msg[mark] = "absent"
          /\ msg' = [msg EXCEPT ![mark] = "intended"]
          /\ Goto("send")
       \/ msg[mark] \in {"confirmed", "intended"} /\ End /\ UNCHANGED msg
       \/ msg[mark] = "ambiguous" /\ Abandon("idle") /\ UNCHANGED msg
    /\ UNCHANGED <<repair, media, upload, session, github, limits>>

FollowedUp ==
    /\ pc = "followed"
    /\ st' = "dispatched"
    /\ ups' = ups + 1
    /\ End
    /\ UNCHANGED <<held, head, classified, passed, media, msg, upload, session, github, limits>>

FollowUpUnknown ==
    /\ pc = "doubtful"
    /\ Park
    /\ End
    /\ UNCHANGED <<media, msg, upload, session, github, limits>>

-----------------------------------------------------------------------------
(* send_message() and the settling of its intent, for follow-ups and for     *)
(* recordings.                                                               *)

Reaches ==
    /\ told' = [told EXCEPT ![mark] = @ + 1]
    /\ agent' = IF agent = "ended" THEN "ended" ELSE "working"
    /\ UNCHANGED <<output, shot>>

SendDelivered ==
    /\ pc = "send"
    /\ Reaches
    /\ Goto("confirm")
    /\ UNCHANGED <<repair, media, msg, upload, github, limits>>

\* Ambiguous (and, for a recording, an error status).
SendUnknown ==
    /\ pc = "send"
    /\ Reaches \/ UNCHANGED session
    /\ Goto("doubt")
    /\ UNCHANGED <<repair, media, msg, upload, github, limits>>

\* A refused follow-up raises through feedback(); a refused recording, or one
\* whose family names no single case, is settled.
SendRefused ==
    /\ pc = "send"
    /\ IF mark[1] = "follow-up" THEN Abandon("idle") ELSE Goto("refuse")
    /\ UNCHANGED <<repair, media, msg, upload, session, github, limits>>

Settles ==
    /\ pc \in {"confirm", "doubt", "refuse"}
    /\ msg' = [msg EXCEPT ![mark] = IF pc = "confirm" THEN "confirmed" ELSE "ambiguous"]
    /\ Goto(CASE mark[1] = "follow-up" /\ pc = "confirm" -> "followed"
              [] mark[1] = "follow-up" /\ pc = "doubt"   -> "doubtful"
              [] mark[1] \in Stages /\ pc # "refuse"     -> "asked"
              [] OTHER                                   -> "turned")
    /\ UNCHANGED <<repair, media, upload, session, github, limits>>

-----------------------------------------------------------------------------
(* check_merge(). *)

Gating == pc = "step" /\ st = "awaiting_merge"

MergeStops ==
    /\ Gating
    /\ budget # "left"
    /\ Goto("stop")
    /\ UNCHANGED <<repair, media, msg, upload, session, github, limits>>

\* Mutant of MergeWaits: the gate waits whatever the budget says.
MergeWaitsOn ==
    /\ Gating
    /\ End
    /\ UNCHANGED <<repair, media, msg, upload, session, github, limits>>

\* Open and unmerged, or the pull request or the session cannot be read: then
\* only the deadline is sure to be noticed.
MergeWaits ==
    /\ Gating
    /\ budget # "over"
    /\ End
    /\ UNCHANGED <<repair, media, msg, upload, session, github, limits>>

\* Reading the pull request is refused, or verify() of the merge raises.
MergeRaises ==
    /\ Gating
    /\ budget # "over"
    /\ Abandon("idle")
    /\ UNCHANGED <<repair, media, msg, upload, session, github, limits>>

\* Closed, merged elsewhere or at another head, or graded anything but passed.
MergeParks ==
    /\ Gating
    /\ budget # "over"
    /\ pr # "open"
    /\ Park
    /\ End
    /\ UNCHANGED <<media, msg, upload, session, github, limits>>

\* Mutant of MergePasses: the merged head is not compared with the candidate.
MergeOfAnyHead ==
    /\ Gating
    /\ budget = "left"
    /\ pr = "merged"
    /\ st' = "merged"
    /\ mstate' = "pending" /\ mstage' = "merged" /\ mfile' = "none" /\ mpolls' = 0
    /\ End
    /\ UNCHANGED <<held, head, ups, classified, passed, msg, upload, session, github, limits>>

\* Mutant of MergePasses: the claim is released with the verdict.
MergeReleases ==
    /\ Gating
    /\ budget = "left"
    /\ pr = "merged" /\ pushed = head
    /\ st' = "merged" /\ held' = FALSE
    /\ mstate' = "pending" /\ mstage' = "merged" /\ mfile' = "none" /\ mpolls' = 0
    /\ End
    /\ UNCHANGED <<head, ups, classified, passed, msg, upload, session, github, limits>>

\* Mutant of MergePasses: the symptom's file stays in media_path.
MergeKeepsFile ==
    /\ Gating
    /\ budget = "left"
    /\ pr = "merged" /\ pushed = head
    /\ st' = "merged"
    /\ mstate' = "pending" /\ mstage' = "merged" /\ mpolls' = 0
    /\ End
    /\ UNCHANGED <<held, head, ups, classified, passed, mfile, msg, upload, session,
                   github, limits>>

\* The merged head is the recorded one and the merge commit passed: its
\* recording is owed, and nothing of the symptom's may pass for it.
MergePasses ==
    /\ Gating
    /\ budget = "left"
    /\ pr = "merged" /\ pushed = head
    /\ st' = "merged"
    /\ mstate' = "pending" /\ mstage' = "merged" /\ mfile' = "none" /\ mpolls' = 0
    /\ End
    /\ UNCHANGED <<held, head, ups, classified, passed, msg, upload, session, github, limits>>

-----------------------------------------------------------------------------
(* _stop(), _release_after_verification() and release_slot(). *)

Stops ==
    /\ pc = "stop"
    /\ Terminated("stopped", "unstopped")
    /\ UNCHANGED <<repair, media, msg, upload, github, limits>>

\* Mutant of Stopped: an unconfirmed stop gives the claim back, too.
StoppedReleases ==
    /\ pc \in {"stopped", "unstopped"}
    /\ st' = "terminal"
    /\ Goto("release")
    /\ UNCHANGED <<held, head, ups, classified, passed, media, msg, upload, session,
                   github, limits>>

\* update(state=TERMINAL); only a confirmed stop goes on to release.
Stopped ==
    /\ pc \in {"stopped", "unstopped"}
    /\ st' = "terminal"
    /\ IF pc = "stopped" THEN Goto("release") ELSE End
    /\ UNCHANGED <<held, head, ups, classified, passed, media, msg, upload, session,
                   github, limits>>

Retires ==
    /\ pc = "retire"
    /\ Terminated("release", "kept")
    /\ UNCHANGED <<repair, media, msg, upload, github, limits>>

Kept ==
    /\ pc = "kept"
    /\ End
    /\ UNCHANGED <<repair, media, msg, upload, session, github, limits>>

Releases ==
    /\ pc = "release"
    /\ held' = FALSE
    /\ End
    /\ UNCHANGED <<st, head, ups, classified, passed, media, msg, upload, session,
                   github, limits>>

-----------------------------------------------------------------------------
(* check_media(). *)

\* Mutant of MediaUnread: an unreadable session is waited for past the deadline.
MediaDeferred ==
    /\ pc = "media"
    /\ Return
    /\ UNCHANGED <<repair, media, msg, upload, session, github, limits>>

\* The session's usage cannot be read: only the wall clock decides.
MediaUnread ==
    /\ pc = "media"
    /\ IF budget = "over" THEN Close("failed") ELSE Return
    /\ UNCHANGED <<repair, media, msg, upload, session, github, limits>>

MediaRead ==
    /\ pc = "media"
    /\ IF budget # "left"
       THEN UNCHANGED mpolls /\ Close("failed")
       ELSE /\ mpolls' = IF mpolls <= MaxMediaPolls THEN mpolls + 1 ELSE mpolls
            /\ \/ mpolls' > MaxMediaPolls /\ Close("failed")
               \/ /\ mpolls' <= MaxMediaPolls
                  /\ IF mstate = "pending" THEN Goto("ask") ELSE Goto("look")
    /\ UNCHANGED <<repair, mstate, mstage, mfile, msg, upload, session, github, limits>>

\* Mutant of MediaIntends: only a confirmed request is not made again.
MediaAsksAgain ==
    /\ pc = "ask"
    /\ mark' = Asking(mstage)
    /\ IF msg[mark'] # "confirmed"
       THEN msg' = [msg EXCEPT ![mark'] = "intended"] /\ pc' = "send"
       ELSE UNCHANGED msg /\ pc' = "asked"
    /\ UNCHANGED <<repair, media, upload, session, github, limits, back, word, offer>>

\* _ask_for_media(): a message already intended, whatever became of it, is not
\* sent again.
MediaIntends ==
    /\ pc = "ask"
    /\ mark' = Asking(mstage)
    /\ IF msg[mark'] = "absent"
       THEN msg' = [msg EXCEPT ![mark'] = "intended"] /\ pc' = "send"
       ELSE UNCHANGED msg /\ pc' = "asked"
    /\ UNCHANGED <<repair, media, upload, session, github, limits, back, word, offer>>

\* media_asked_at is now: what the session recorded before it is outdated.
MediaAsked ==
    /\ pc = "asked"
    /\ mstate' = "requested"
    /\ shot' = [shot EXCEPT ![mstage] = IF @ = "taken" THEN "outdated" ELSE @]
    /\ Goto("look_asked")
    /\ UNCHANGED <<repair, mstage, mfile, mpolls, msg, upload,
                   agent, output, told, github, limits>>

MediaTurnedDown ==
    /\ pc = "turned"
    /\ mstate' = "failed"
    /\ Close("failed")
    /\ UNCHANGED <<repair, mstage, mfile, mpolls, msg, upload, session, github, limits>>

\* _find_capture(): the pass that asked still judges by the row it read before,
\* which holds the time of the merged verdict, or no time at all.
Found ==
    \/ pc = "look" /\ shot[mstage] = "taken"
    \/ pc = "look_asked" /\ mstage = "merged" /\ shot[mstage] = "outdated"

\* Downloaded now or in an earlier pass: it is offered to Slack.
MediaFound ==
    /\ \/ Found
       \/ pc = "look" /\ mstate = "captured"
    /\ mstate' = "captured"
    /\ mfile' = mstage
    /\ offer' = TRUE
    /\ pc' = IF back = "step" THEN "step" ELSE "offer"
    /\ mark' = NoMark /\ back' = "end" /\ UNCHANGED word
    /\ UNCHANGED <<repair, mstage, mpolls, msg, upload, session, github, limits>>

\* No baseline is known to record the symptom on, or there is no directory to
\* keep a capture in.
MediaImpossible ==
    /\ \/ Found
       \/ pc = "media" /\ mstage = "symptom"
    /\ Close("failed")
    /\ UNCHANGED <<repair, media, msg, upload, session, github, limits>>

\* No capture yet, or it cannot be listed or downloaded.
MediaNotFound ==
    /\ pc \in {"look", "look_asked"}
    /\ mstate # "captured"
    /\ Return
    /\ UNCHANGED <<repair, media, msg, upload, session, github, limits>>

\* _settle_media(), by the stage the row names now: the symptom's promise is
\* only written down, the merged one ends the session first.
SettlesSymptom ==
    /\ pc = "close" /\ mstage = "symptom"
    /\ mstate' = word
    /\ Return
    /\ UNCHANGED <<repair, mstage, mfile, mpolls, msg, upload, session, github, limits>>

EndsForMedia ==
    /\ pc = "close" /\ mstage = "merged"
    /\ Terminated("shut", "open")
    /\ UNCHANGED <<repair, media, msg, upload, github, limits>>

SettlesMerged ==
    /\ pc \in {"shut", "open"}
    /\ mstate' = word
    /\ IF pc = "shut" THEN Goto("release") ELSE End
    /\ UNCHANGED <<repair, mstage, mfile, mpolls, msg, upload, session, github, limits>>

-----------------------------------------------------------------------------
(* tick(): _publish_capture(), Notifier.attach() and its upload ledger. *)

\* The path is empty or names no capture, attach() refuses the clip, or the
\* ledger says that it failed or was never heard of again.
OfferFails ==
    /\ pc = "offer"
    /\ mfile \in Stages => upload[mfile] \notin {"sent", "unknown"}
    /\ Close("failed")
    /\ UNCHANGED <<repair, media, msg, upload, session, github, limits>>

\* The ledger knows the clip as sent, or as neither delivered nor refused.
OfferKnown ==
    /\ pc = "offer"
    /\ mfile \in Stages
    /\ \/ upload[mfile] = "sent" /\ Close("delivered")
       \/ upload[mfile] = "unknown" /\ Abandon("idle")
    /\ UNCHANGED <<repair, media, msg, upload, session, github, limits>>

\* claim_upload(): the reservation, before a byte is sent.
OfferReserves ==
    /\ pc = "offer"
    /\ mfile \in Stages
    /\ upload[mfile] = "none"
    /\ upload' = [upload EXCEPT ![mfile] = "pending"]
    /\ pc' = "uploading"
    /\ UNCHANGED <<repair, media, msg, session, github, limits, mark, back, word, offer>>

\* bot.upload() and settle_upload(), and what the outcome makes of the promise.
Uploads ==
    /\ pc = "uploading"
    /\ \E outcome \in {"sent", "unknown", "failed"} :
        /\ upload' = [upload EXCEPT ![mfile] = outcome]
        /\ CASE outcome = "sent"    -> Close("delivered")
             [] outcome = "failed"  -> Close("failed")
             [] outcome = "unknown" -> Abandon("idle")
    /\ UNCHANGED <<repair, media, msg, session, github, limits>>

-----------------------------------------------------------------------------
(* The session, the people, the clock, and crashes. *)

\* A new commit, or the branch forced back to one it was at before.
AgentPushes ==
    /\ agent = "working" /\ pr = "open"
    /\ \/ /\ newest < LastCommit
          /\ newest' = newest + 1
          /\ pushed' = newest'
          /\ UNCHANGED forced
       \/ /\ pushed' \in 1 .. newest \ {pushed}
          /\ forced' = forced \cup {pushed'}
          /\ UNCHANGED newest
    /\ UNCHANGED <<repair, media, msg, upload, session, pr, limits, locals>>

AgentReports ==
    /\ agent = "working"
    /\ agent' \in {"asking", "finished"}
    /\ output' \in {output, "no_defect", "defect"}
    /\ UNCHANGED <<repair, media, msg, upload, told, shot, github, limits, locals>>

AgentRecords ==
    \E s \in Stages :
        /\ agent = "working"
        /\ told[Asking(s)] > 0 /\ shot[s] = "none"
        /\ shot' = [shot EXCEPT ![s] = "taken"]
        /\ UNCHANGED <<repair, media, msg, upload, agent, output, told, github, limits, locals>>

HumanDecides ==
    /\ pr = "open" /\ pushed > 0
    /\ pr' \in {"merged", "closed"}
    /\ UNCHANGED <<repair, media, msg, upload, session, pushed, newest, forced, limits, locals>>

AcusRunOut ==
    /\ budget = "left"
    /\ budget' = "spent"
    /\ UNCHANGED <<repair, media, msg, upload, session, github, size, locals>>

DeadlinePasses ==
    /\ budget # "over"
    /\ budget' = "over"
    /\ UNCHANGED <<repair, media, msg, upload, session, github, size, locals>>

Crash ==
    /\ pc \notin {"idle", "down"}
    /\ Abandon("down")
    /\ UNCHANGED <<repair, media, msg, upload, session, github, limits>>

Restart ==
    /\ pc = "down"
    /\ Goto("idle")
    /\ UNCHANGED <<repair, media, msg, upload, session, github, limits>>

-----------------------------------------------------------------------------
Tick ==
    \/ Restart \/ RecoverSettles \/ RecoverParks \/ Walk \/ StepMerged \/ StepParked
    \/ PollParks \/ PollRunning \/ PollStops \/ PollClassifies \/ PollCandidate \/ PollRaises
    \/ VerifyBlocked \/ VerifyPasses \/ VerifyFails \/ VerifyRaises
    \/ FeedbackStops \/ FeedbackIntends \/ FollowedUp \/ FollowUpUnknown
    \/ SendDelivered \/ SendUnknown \/ SendRefused \/ Settles
    \/ MergeStops \/ MergeWaits \/ MergeRaises \/ MergeParks \/ MergePasses
    \/ Stops \/ Stopped \/ Retires \/ Kept \/ Releases
    \/ MediaUnread \/ MediaRead \/ MediaIntends \/ MediaAsked \/ MediaTurnedDown
    \/ MediaFound \/ MediaImpossible \/ MediaNotFound
    \/ SettlesSymptom \/ EndsForMedia \/ SettlesMerged
    \/ OfferFails \/ OfferKnown \/ OfferReserves \/ Uploads

Outside ==
    \/ AgentPushes \/ AgentReports \/ AgentRecords \/ HumanDecides
    \/ AcusRunOut \/ DeadlinePasses

Next == Tick \/ Outside \/ Crash

Spec == Init /\ [][Next]_vars

\* The pull request of a finished session, or of a candidate, is read.
Answered ==
    \/ Delivered /\ output = "defect" /\ (PollParks \/ PollCandidate)
    \/ VerifyBlocked \/ VerifyPasses \/ VerifyFails

\* The worker's loop survives every exception, it is killed only finitely
\* often, and time passes.  GitHub answers at last when it is asked again and
\* again for the pull request: neither _candidate() nor verify() looks at a
\* budget or counts a tick on which the question raised.  What it answers is
\* open, and the session, Slack and the human owe nothing.
Fairness ==
    /\ WF_vars(Tick) /\ <>[][~Crash]_vars /\ WF_vars(DeadlinePasses)
    /\ SF_vars(Answered)

FairSpec == Spec /\ Fairness

-----------------------------------------------------------------------------
(* Safety. *)

\* A merge is accepted only at a head that passed its preview, whatever was
\* pushed after the candidate was recorded or verified, except at one the branch
\* was forced back to: verify() grades the head of its day and _merge_problem()
\* compares the merged one with pr_head_sha, which is recorded before that.
MergedWasVerified == st = "merged" => pushed \in passed \cup forced

\* README: "Failures return ... to the same session, once per candidate SHA",
\* and a recording is asked for once: no crash, lost answer or repeated pass
\* sends a message twice (intend, _ask_for_media, feedback).
EachToldOnce == \A m \in Marks : told[m] <= 1

\* check_merge(): the claim is held until the merged commit's recording is
\* delivered or has failed.
HeldWhileOwed == st = "merged" /\ mstate \in Unresolved => held

\* check_media(): "Delivery is Slack's word": a recording is called delivered
\* only when Slack stored the clip of that very stage.
DeliveredIsSlacksWord == mstate = "delivered" => upload[mstage] = "sent"

\* Two recordings are owed, one after the other, and each goes its way once:
\* no crash, lost answer, late capture or repeated pass asks or uploads a second
\* time, settles one that is settled, or takes one stage's footage for the
\* other's (check_media, _settle_media, _publish_capture and the upload ledger).
Promise == INSTANCE RecordingPromise
           WITH stage  <- mstage,
                state  <- mstate,
                asked  <- {s \in Stages : told[Asking(s)] > 0},
                stored <- {s \in Stages : upload[s] = "sent"}

PromiseKept == Promise!Spec

\* The claim is given back only by a confirmed termination, or by a repair
\* that turned out to be no product defect.
ReleasedWhenEnded == ~held => agent = "ended" \/ classified

\* repair_slot: "released only when nothing can still be running under it".
NothingRunsUnclaimed == ~held => agent \in {"finished", "ended"}

\* README: failures return to the same session "at most twice".
AtMostTwice == Cardinality({c \in Commits : told[<<"follow-up", c>>] > 0}) <= MaxFollowUps

\* _settle_media(): closing the symptom's promise "closes nothing else": within
\* the budget, the merged recording fails only after check_media() went for it.
SymptomClosesNothingElse ==
    st = "merged" /\ mstate = "failed" /\ budget = "left" => mpolls > 0

-----------------------------------------------------------------------------
(* Liveness. *)

\* Nothing is left for the controller to do: the claim is free, or it is kept
\* for a person, with every recording closed.
AtRest ==
    \/ ~held
    \/ st \in {"needs_attention", "terminal", "verified"}
    \/ st = "merged" /\ mstate \notin Unresolved

\* An owed recording is delivered or has failed, unless the repair is over or
\* recover() parked it after its merge.
PromiseClosed ==
    mstate \in Unresolved =>
        \/ ~held \/ st = "terminal"
        \/ st = "needs_attention" /\ mstage = "merged"

\* A repair neither waits for ever on a session, a merge, a recording or Slack,
\* nor loops between poll, verify and feedback, as long as GitHub answers at last:
\* the budget bounds all of it but the reads of the pull request in _candidate()
\* and verify(), which are tried again without one while they raise;
\* and check_media()'s "the wait is bounded" holds of each recording, also when
\* the request, the download or the upload was never heard of again.
ComesToRest == <>[](AtRest /\ PromiseClosed)

=============================================================================
