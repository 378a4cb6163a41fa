------------------------ MODULE RecordingPromiseProofs ------------------------
(***************************************************************************)
(* For instances of any size, RepairLifecycle implements RecordingPromise: *)
(* through crashes, lost answers and late captures, each of a repair's two *)
(* recordings is asked for once, stored once and settled once.             *)
(***************************************************************************)
EXTENDS RepairLifecycleProofs

-----------------------------------------------------------------------------
(* The recordings: the promise that RecordingPromise states. *)

\* Which message is in the tick's hands.
FollowUpSent == pc \in Sends /\ mark[1] = "follow-up"
RequestSent  == pc \in Sends /\ mark[1] \in Stages

\* Which recording is owed, by what has become of the repair: the merged
\* commit's is not before the merge, and the symptom's not after it.
Staging ==
    /\ st \in {"dispatched", "candidate", "awaiting_merge"} => mstage = "symptom"
    /\ pc \in {"feedback", "followed", "doubtful"} \/ FollowUpSent => st = "candidate"
    /\ pc = "feedback" => mark[1] = "follow-up"
    /\ st = "merged" => mstage = "merged"
    /\ back = "step" => mstage = "symptom"
    /\ offer /\ pc = "step" => mstage = "symptom"

\* The session records what it was asked for.
Filming == \A s \in Stages : shot[s] # "none" => told[Asking(s)] > 0

\* How far the recording is, by where the tick is: what the steps ahead
\* presuppose of a row that was read at the start of the pass.
Owing ==
    /\ pc = "media" => mstate \in Unresolved
    /\ pc \in {"ask", "asked", "turned"} \/ RequestSent => mstate = "pending"
    /\ RequestSent => mark = Asking(mstage)
    /\ pc = "refuse" => mark[1] \in Stages
    /\ pc = "look" => mstate \in {"requested", "captured"}
    /\ pc = "look_asked" => mstate = "requested"
    /\ pc \in {"close", "shut", "open"} =>
          IF word = "delivered" THEN mstate = "captured" ELSE mstate \in Unresolved \cup {"failed"}

\* Where a tick may have a capture to offer.
Carrying == {"step", "feedback", "followed", "doubtful", "stop", "stopped", "unstopped",
             "retire", "kept", "release", "offer", "uploading"}

\* A capture that is offered was found in this tick, and is of the stage that
\* is owed, unless the merge was accepted in between.
Offered ==
    /\ offer => pc \in Carrying \/ FollowUpSent
    /\ offer => \/ mstate = "captured" /\ mfile = mstage
                \/ mstate = "pending" /\ mfile = "none"
    /\ pc \in {"offer", "uploading"} => offer

PInv == IInv /\ Staging /\ Filming /\ Owing /\ Offered

-----------------------------------------------------------------------------
(* It is invariant, part by part. *)

LEMMA StagingKept ==
    ASSUME PInv, [Next]_vars
    PROVE  Staging'
  <1> USE DEF repair, media, Goto, End, Return, Abandon, Close, Park, Staging, FollowUpSent,
              Sends
  <1>1. TypeOK /\ Staging /\ Owing /\ Offered
    BY DEF PInv, IInv
  <1>2. CASE Recovering
    BY <1>1, <1>2 DEF Recovering, Restart, RecoverSettles, RecoverParks, Walk, StepMerged,
           StepParked, Offered, Carrying
  <1>3. CASE Grading
    BY <1>1, <1>3 DEF Grading, PollParks, PollRunning, PollStops, PollClassifies,
           PollRaises, PollCandidate, VerifyBlocked, VerifyRaises, VerifyPasses,
           VerifyFails, Polling, Verifying
  <1>4. CASE Following
    BY <1>1, <1>4 DEF Following, FeedbackStops, FeedbackIntends, FollowedUp,
           FollowUpUnknown, SendDelivered, SendUnknown, SendRefused, Settles
  <1>5. CASE Accepting
    BY <1>1, <1>5 DEF Accepting, MergeStops, MergeWaits, MergeRaises, MergeParks,
           MergePasses, Gating, Stops, Stopped, Retires, Kept, Releases, Terminated
  <1>6. CASE Recording
    BY <1>1, <1>6 DEF Recording, MediaUnread, MediaRead, MediaIntends, MediaAsked,
           MediaTurnedDown, MediaFound, MediaImpossible, MediaNotFound, Found,
           SettlesSymptom, EndsForMedia, SettlesMerged, Terminated, Asking, TypeOK, Stages,
           Offered, Carrying
  <1>7. CASE Offering
    BY <1>1, <1>7 DEF Offering, OfferFails, OfferKnown, OfferReserves, Uploads
  <1>8. CASE Outside
    BY <1>1, <1>8 DEF Outside, AgentPushes, AgentReports, AgentRecords, HumanDecides,
           AcusRunOut, DeadlinePasses, locals
  <1>9. CASE Crash \/ UNCHANGED vars
    BY <1>1, <1>9 DEF Crash, vars, locals
  <1> QED BY <1>2, <1>3, <1>4, <1>5, <1>6, <1>7, <1>8, <1>9, NextIsOneOf

LEMMA FilmingKept ==
    ASSUME PInv, [Next]_vars
    PROVE  Filming'
  <1> USE DEF repair, media, session, Filming
  <1>1. TypeOK /\ Filming /\ (pc \in Sends => mark \in Marks)
    BY DEF PInv, IInv, Marked
  <1>2. \A s \in Stages : Asking(s) \in Marks /\ told[Asking(s)] \in Nat
    BY <1>1 DEF TypeOK, Asking, Marks
  <1>3. CASE UNCHANGED <<told, shot>>
    BY <1>1, <1>3
  <1>4. CASE SendDelivered \/ SendUnknown
    <2>1. shot' = shot
      BY <1>4 DEF SendDelivered, SendUnknown, Reaches
    <2>2. \A s \in Stages : told[Asking(s)] > 0 => told'[Asking(s)] > 0
      BY <1>1, <1>2, <1>4 DEF SendDelivered, SendUnknown, Reaches, Sends, TypeOK
    <2> QED BY <1>1, <2>1, <2>2
  <1>5. CASE MediaAsked \/ AgentRecords
    BY <1>1, <1>5 DEF MediaAsked, AgentRecords, TypeOK
  <1>6. \/ UNCHANGED <<told, shot>> \/ SendDelivered \/ SendUnknown
        \/ MediaAsked \/ AgentRecords
    <2> USE DEF Terminated
    <2>1. Recovering => UNCHANGED <<told, shot>>
      BY DEF Recovering, Restart, RecoverSettles, RecoverParks, Walk, StepMerged, StepParked
    <2>2. Grading => UNCHANGED <<told, shot>>
      BY DEF Grading, PollParks, PollRunning, PollStops, PollClassifies, PollRaises,
             PollCandidate, VerifyBlocked, VerifyRaises, VerifyPasses, VerifyFails
    <2>3. Following => UNCHANGED <<told, shot>> \/ SendDelivered \/ SendUnknown
      BY DEF Following, FeedbackStops, FeedbackIntends, FollowedUp, FollowUpUnknown,
             SendRefused, Settles
    <2>4. Accepting => UNCHANGED <<told, shot>>
      BY DEF Accepting, MergeStops, MergeWaits, MergeRaises, MergeParks, MergePasses,
             Stops, Stopped, Retires, Kept, Releases
    <2>5. Recording => UNCHANGED <<told, shot>> \/ MediaAsked
      BY DEF Recording, MediaUnread, MediaRead, MediaIntends, MediaTurnedDown, MediaFound,
             MediaImpossible, MediaNotFound, SettlesSymptom, EndsForMedia, SettlesMerged
    <2>6. Offering => UNCHANGED <<told, shot>>
      BY DEF Offering, OfferFails, OfferKnown, OfferReserves, Uploads
    <2>7. Outside => UNCHANGED <<told, shot>> \/ AgentRecords
      BY DEF Outside, AgentPushes, AgentReports, HumanDecides, AcusRunOut, DeadlinePasses
    <2>8. Crash \/ UNCHANGED vars => UNCHANGED <<told, shot>>
      BY DEF Crash, vars
    <2> QED BY <2>1, <2>2, <2>3, <2>4, <2>5, <2>6, <2>7, <2>8, NextIsOneOf
  <1> QED BY <1>3, <1>4, <1>5, <1>6

LEMMA OfferedKept ==
    ASSUME PInv, [Next]_vars
    PROVE  Offered'
  <1> USE DEF repair, media, Goto, End, Return, Abandon, Close, Park, Offered, FollowUpSent,
              Sends, Carrying
  <1>1. TypeOK /\ Staging /\ Owing /\ Offered
    BY DEF PInv, IInv
  <1>2. CASE Recovering
    BY <1>1, <1>2 DEF Recovering, Restart, RecoverSettles, RecoverParks, Walk, StepMerged,
           StepParked, Staging
  <1>3. CASE Grading
    BY <1>1, <1>3 DEF Grading, PollParks, PollRunning, PollStops, PollClassifies,
           PollRaises, PollCandidate, VerifyBlocked, VerifyRaises, VerifyPasses,
           VerifyFails, Polling, Verifying
  <1>4. CASE Following
    BY <1>1, <1>4 DEF Following, FeedbackStops, FeedbackIntends, FollowedUp,
           FollowUpUnknown, SendDelivered, SendUnknown, SendRefused, Settles, Staging,
           Owing, Stages
  <1>5. CASE Accepting
    BY <1>1, <1>5 DEF Accepting, MergeStops, MergeWaits, MergeRaises, MergeParks,
           MergePasses, Gating, Stops, Stopped, Retires, Kept, Releases, Terminated
  <1>6. CASE Recording
    BY <1>1, <1>6 DEF Recording, MediaUnread, MediaRead, MediaIntends, MediaAsked,
           MediaTurnedDown, MediaFound, MediaImpossible, MediaNotFound, Found,
           SettlesSymptom, EndsForMedia, SettlesMerged, Terminated
  <1>7. CASE Offering
    BY <1>1, <1>7 DEF Offering, OfferFails, OfferKnown, OfferReserves, Uploads
  <1>8. CASE Outside
    BY <1>1, <1>8 DEF Outside, AgentPushes, AgentReports, AgentRecords, HumanDecides,
           AcusRunOut, DeadlinePasses, locals
  <1>9. CASE Crash \/ UNCHANGED vars
    BY <1>1, <1>9 DEF Crash, vars, locals
  <1> QED BY <1>2, <1>3, <1>4, <1>5, <1>6, <1>7, <1>8, <1>9, NextIsOneOf

LEMMA OwingKept ==
    ASSUME PInv, [Next]_vars
    PROVE  Owing'
  <1> USE DEF repair, media, Goto, End, Return, Abandon, Close, Park, Owing,
              RequestSent, Sends, Asking
  <1>1. TypeOK /\ Staging /\ Owing /\ Offered /\ Delivering
    BY DEF PInv, IInv
  <1>2. CASE Recovering
    BY <1>1, <1>2 DEF Recovering, Restart, RecoverSettles, RecoverParks, Walk, StepMerged,
           StepParked
  <1>3. CASE Grading
    BY <1>1, <1>3 DEF Grading, PollParks, PollRunning, PollStops, PollClassifies,
           PollRaises, PollCandidate, VerifyBlocked, VerifyRaises, VerifyPasses,
           VerifyFails, Polling, Verifying
  <1>4. CASE Following
    <2>1. pc \in Sends => mark[1] = "follow-up" \/ mark[1] \in Stages
      <3>1. pc \in Sends => mark \in Marks
        BY DEF PInv, IInv, Marked
      <3> QED BY <3>1 DEF Marks
    <2>2. CASE SendRefused \/ Settles
      BY <1>1, <2>1, <2>2 DEF SendRefused, Settles, Stages
    <2>3. CASE FeedbackIntends
      BY <1>1, <2>3 DEF FeedbackIntends, Staging, Stages
    <2>4. CASE Following /\ ~SendRefused /\ ~Settles /\ ~FeedbackIntends
      BY <1>1, <2>4 DEF Following, FeedbackStops, FollowedUp, FollowUpUnknown,
             SendDelivered, SendUnknown, Reaches
    <2> QED BY <1>4, <2>2, <2>3, <2>4
  <1>5. CASE Accepting
    BY <1>1, <1>5 DEF Accepting, MergeStops, MergeWaits, MergeRaises, MergeParks,
           MergePasses, Gating, Stops, Stopped, Retires, Kept, Releases, Terminated
  <1>6. CASE Recording
    BY <1>1, <1>6 DEF Recording, MediaUnread, MediaRead, MediaIntends, MediaAsked,
           MediaTurnedDown, MediaFound, MediaImpossible, MediaNotFound, Found,
           SettlesSymptom, EndsForMedia, SettlesMerged, Terminated, TypeOK, Stages,
           Unresolved
  <1>7. CASE Offering
    BY <1>1, <1>7 DEF Offering, OfferFails, OfferKnown, OfferReserves, Uploads, Offered,
           Delivering, Unresolved, Stages
  <1>8. CASE Outside
    BY <1>1, <1>8 DEF Outside, AgentPushes, AgentReports, AgentRecords, HumanDecides,
           AcusRunOut, DeadlinePasses, locals
  <1>9. CASE Crash \/ UNCHANGED vars
    BY <1>1, <1>9 DEF Crash, vars, locals
  <1> QED BY <1>2, <1>3, <1>4, <1>5, <1>6, <1>7, <1>8, <1>9, NextIsOneOf

-----------------------------------------------------------------------------
(* Every step is one of the promise's, or changes nothing it speaks of. *)

AskedFor == {s \in Stages : told[Asking(s)] > 0}
Stored   == {s \in Stages : upload[s] = "sent"}

promise == <<mstage, mstate, AskedFor, Stored>>

\* What the messages and the uploads leave alone they leave as it was.
LEMMA SetsStay ==
    /\ UNCHANGED told => UNCHANGED AskedFor
    /\ UNCHANGED upload => UNCHANGED Stored
  BY DEF AskedFor, Stored

\* The steps that the promise tells apart from waiting.
Telling == SendDelivered \/ SendUnknown \/ MergePasses \/ MediaAsked \/ MediaTurnedDown
           \/ MediaFound \/ SettlesSymptom \/ SettlesMerged \/ OfferReserves \/ Uploads

LEMMA OthersWait ==
    ASSUME [Next]_vars, ~Telling
    PROVE  UNCHANGED <<mstage, mstate, told, upload>>
  <1> USE DEF media, session, Telling, Terminated
  <1>1. CASE Recovering
    BY <1>1 DEF Recovering, Restart, RecoverSettles, RecoverParks, Walk, StepMerged,
           StepParked
  <1>2. CASE Grading
    BY <1>2 DEF Grading, PollParks, PollRunning, PollStops, PollClassifies, PollRaises,
           PollCandidate, VerifyBlocked, VerifyRaises, VerifyPasses, VerifyFails
  <1>3. CASE Following
    BY <1>3 DEF Following, FeedbackStops, FeedbackIntends, FollowedUp, FollowUpUnknown,
           SendRefused, Settles
  <1>4. CASE Accepting
    BY <1>4 DEF Accepting, MergeStops, MergeWaits, MergeRaises, MergeParks, Stops, Stopped,
           Retires, Kept, Releases
  <1>5. CASE Recording
    BY <1>5 DEF Recording, MediaUnread, MediaRead, MediaIntends, MediaImpossible,
           MediaNotFound, EndsForMedia
  <1>6. CASE Offering
    BY <1>6 DEF Offering, OfferFails, OfferKnown
  <1>7. CASE Outside
    BY <1>7 DEF Outside, AgentPushes, AgentReports, AgentRecords, HumanDecides, AcusRunOut,
           DeadlinePasses
  <1>8. CASE Crash \/ UNCHANGED vars
    BY <1>8 DEF Crash, vars
  <1> QED BY <1>1, <1>2, <1>3, <1>4, <1>5, <1>6, <1>7, <1>8, NextIsOneOf

LEMMA StepsKeepPromise ==
    ASSUME PInv, [Next]_vars
    PROVE  [Promise!Next]_promise
  <1> USE DEF media, promise
  <1>1. /\ TypeOK /\ Marked /\ Sending /\ Delivering
        /\ Staging /\ Filming /\ Owing /\ Offered
    BY DEF PInv, IInv
  <1>2. CASE ~Telling
    BY <1>2, OthersWait, SetsStay
  <1>3. CASE SendDelivered \/ SendUnknown
    <2>1. UNCHANGED <<mstage, mstate, Stored>>
      BY <1>3, SetsStay DEF SendDelivered, SendUnknown
    <2>2. CASE UNCHANGED told
      BY <2>1, <2>2, SetsStay
    <2>3. CASE told' = [told EXCEPT ![mark] = @ + 1]
      <3>1. mark \in Marks /\ told[mark] = 0 /\ pc \in Sends
        BY <1>1, <1>3 DEF SendDelivered, SendUnknown, Marked, Sending, Sends
      <3>2. \A s \in Stages : told'[Asking(s)] = IF mark = Asking(s) THEN 1 ELSE told[Asking(s)]
        <4>1. \A s \in Stages : Asking(s) \in Marks
          BY DEF Asking, Marks
        <4> QED BY <1>1, <2>3, <3>1, <4>1 DEF TypeOK
      <3>3. CASE mark[1] \in Stages
        <4>1. mstate = "pending" /\ mark = Asking(mstage) /\ mstage \in Stages
          BY <1>1, <3>1, <3>3 DEF Owing, RequestSent, TypeOK
        <4>2. mstage \notin AskedFor
          BY <3>1, <4>1 DEF AskedFor
        <4>3. \A s \in Stages : Asking(s) = Asking(mstage) <=> s = mstage
          BY DEF Asking
        <4>4. AskedFor' = AskedFor \union {mstage}
          BY <3>2, <4>1, <4>3 DEF AskedFor
        <4>5. Promise!Ask
          BY <2>1, <4>1, <4>2, <4>4 DEF Promise!Ask, AskedFor, Stored
        <4> QED BY <4>5 DEF Promise!Next
      <3>4. CASE mark[1] \notin Stages
        <4>1. \A s \in Stages : mark # Asking(s)
          BY <3>4 DEF Asking
        <4>2. UNCHANGED AskedFor
          BY <3>2, <4>1 DEF AskedFor
        <4> QED BY <2>1, <4>2
      <3> QED BY <3>3, <3>4
    <2> QED BY <1>3, <2>2, <2>3 DEF SendDelivered, SendUnknown, Reaches, session
  <1>4. CASE MergePasses
    <2>1. mstage = "symptom"
      BY <1>1, <1>4 DEF MergePasses, Gating, Staging
    <2>2. Promise!Merge
      BY <1>4, <2>1, SetsStay DEF MergePasses, Promise!Merge, session, AskedFor, Stored
    <2> QED BY <2>2 DEF Promise!Next
  <1>5. CASE MediaAsked
    <2>1. mstate = "pending"
      BY <1>1, <1>5 DEF MediaAsked, Owing
    <2>2. Promise!Await
      BY <1>5, <2>1, SetsStay DEF MediaAsked, Promise!Await, AskedFor, Stored
    <2> QED BY <2>2 DEF Promise!Next
  <1>6. CASE MediaTurnedDown
    <2>1. mstate = "pending"
      BY <1>1, <1>6 DEF MediaTurnedDown, Owing
    <2>2. Promise!Fail
      BY <1>6, <2>1, SetsStay DEF MediaTurnedDown, Promise!Fail, session, AskedFor, Stored
    <2> QED BY <2>2 DEF Promise!Next
  <1>7. CASE MediaFound
    <2>1. UNCHANGED <<mstage, AskedFor, Stored>> /\ mstate' = "captured"
      BY <1>7, SetsStay DEF MediaFound, session
    <2>2. CASE mstate = "captured"
      BY <2>1, <2>2
    <2>3. CASE mstate # "captured"
      <3>1. mstate = "requested" /\ mstage \in Stages /\ shot[mstage] # "none"
        BY <1>1, <1>7, <2>3 DEF MediaFound, Found, Owing, TypeOK
      <3>2. mstage \in AskedFor
        BY <1>1, <3>1 DEF Filming, AskedFor
      <3>3. Promise!Capture
        BY <2>1, <3>1, <3>2 DEF Promise!Capture, AskedFor, Stored
      <3> QED BY <3>3 DEF Promise!Next
    <2> QED BY <2>2, <2>3
  <1>8. CASE SettlesSymptom \/ SettlesMerged
    <2>1. UNCHANGED <<mstage, AskedFor, Stored>> /\ mstate' = word
      BY <1>8, SetsStay DEF SettlesSymptom, SettlesMerged, session
    <2>2. CASE word = "delivered"
      <3>1. mstate = "captured" /\ mstage \in Stored
        BY <1>1, <1>8, <2>2 DEF SettlesSymptom, SettlesMerged, Owing, Delivering, TypeOK,
               Stored
      <3>2. Promise!Deliver
        BY <2>1, <2>2, <3>1 DEF Promise!Deliver, AskedFor, Stored
      <3> QED BY <3>2 DEF Promise!Next
    <2>3. CASE word # "delivered"
      <3>1. word = "failed" /\ mstate \in {"pending", "requested", "captured", "failed"}
        BY <1>1, <1>8, <2>3 DEF SettlesSymptom, SettlesMerged, Owing, TypeOK, Unresolved
      <3>2. CASE mstate = "failed"
        BY <2>1, <3>1, <3>2
      <3>3. CASE mstate # "failed"
        <4>1. Promise!Fail
          BY <2>1, <3>1, <3>3 DEF Promise!Fail, AskedFor, Stored
        <4> QED BY <4>1 DEF Promise!Next
      <3> QED BY <3>2, <3>3
    <2> QED BY <2>2, <2>3
  <1>9. CASE OfferReserves
    <2>1. UNCHANGED <<mstage, mstate, AskedFor>>
      BY <1>9, SetsStay DEF OfferReserves, session
    <2>2. UNCHANGED Stored
      BY <1>1, <1>9 DEF OfferReserves, TypeOK, Stored
    <2> QED BY <2>1, <2>2
  <1>10. CASE Uploads
    <2>1. UNCHANGED <<mstage, mstate, AskedFor>>
      BY <1>10, SetsStay DEF Uploads, session
    <2>2. mfile = mstage /\ mfile \in Stages /\ upload[mfile] = "pending" /\ mstate = "captured"
      BY <1>1, <1>10 DEF Uploads, Offered, Delivering, Stages
    <2>3. PICK outcome \in {"sent", "unknown", "failed"} :
              upload' = [upload EXCEPT ![mfile] = outcome]
      BY <1>10 DEF Uploads
    <2>4. CASE outcome = "sent"
      <3>1. Stored' = Stored \union {mstage} /\ mstage \notin Stored
        BY <1>1, <2>2, <2>3, <2>4 DEF TypeOK, Stored
      <3>2. Promise!Store
        BY <2>1, <2>2, <3>1 DEF Promise!Store, AskedFor, Stored
      <3> QED BY <3>2 DEF Promise!Next
    <2>5. CASE outcome # "sent"
      <3>1. UNCHANGED Stored
        BY <1>1, <2>2, <2>3, <2>5 DEF TypeOK, Stored
      <3> QED BY <2>1, <3>1
    <2> QED BY <2>4, <2>5
  <1> QED BY <1>2, <1>3, <1>4, <1>5, <1>6, <1>7, <1>8, <1>9, <1>10 DEF Telling

-----------------------------------------------------------------------------
\* No crash, lost answer, late capture or repeated pass asks for a recording or
\* uploads it a second time, settles what is settled, or takes one stage's
\* footage for the other's (check_media, _settle_media, _publish_capture).
THEOREM PromiseImplemented == Spec => PromiseKept
  <1>1. Init => Promise!Init /\ Staging /\ Filming /\ Owing /\ Offered
    BY DEF Init, Promise!Init, Staging, FollowUpSent, Filming, Owing, RequestSent, Sends,
           Offered, Stages, Asking, Marks
  <1>2. /\ IInv /\ Staging /\ Filming /\ Owing /\ Offered /\ [Next]_vars
        => (Staging /\ Filming /\ Owing /\ Offered)'
    BY StagingKept, FilmingKept, OwingKept, OfferedKept DEF PInv
  <1>3. /\ IInv /\ Staging /\ Filming /\ Owing /\ Offered /\ [Next]_vars
        => [Promise!Next]_promise
    BY StepsKeepPromise DEF PInv
  <1> QED BY <1>1, <1>2, <1>3, Invariant, PTL
          DEF Spec, PromiseKept, Promise!Spec, promise, AskedFor, Stored
===============================================================================
