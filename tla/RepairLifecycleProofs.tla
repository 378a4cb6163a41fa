------------------------- MODULE RepairLifecycleProofs -------------------------
(***************************************************************************)
(* For instances of any size: RepairLifecycle is type correct, accepts no  *)
(* merge but of a head that passed or that the branch was forced back to,  *)
(* sends no message twice, holds its claim for a recording it owes, calls  *)
(* delivered what Slack stored, and gives the claim back only when the     *)
(* session ended or there was no defect.                                   *)
(***************************************************************************)
EXTENDS RepairLifecycle, TLAPS

-----------------------------------------------------------------------------
(* The invariant, one part per theorem. *)

\* Where a tick works on the repair, and so under its claim; what it offers to
\* Slack it may settle after it gave the claim back.
Working == {"media", "ask", "send", "confirm", "doubt", "refuse", "asked", "turned", "look",
            "look_asked", "kept", "step", "feedback", "followed", "doubtful",
            "stop", "stopped", "unstopped", "retire"}

\* Where there is a message in the tick's hands.
Sends == {"send", "confirm", "doubt", "refuse"}

\* There is one where it is used, and a follow-up is within the limit.
Marked ==
    /\ pc \in Sends \cup {"feedback"} => mark \in Marks
    /\ pc \in {"send", "confirm"} /\ mark[1] = "follow-up" => ups < MaxFollowUps
    /\ pc = "followed" => ups < MaxFollowUps

\* A message that was not intended was not sent; the one that is about to be
\* sent is intended, and was not sent before.
Sending ==
    /\ \A m \in Marks : told[m] <= 1 /\ (msg[m] = "absent" => told[m] = 0)
    /\ pc \in Sends => msg[mark] # "absent"
    /\ pc = "send" => told[mark] = 0

\* The claim is held throughout the work, and given back only with the
\* recording closed.
Claiming ==
    /\ pc \in Working \/ back = "step" => held
    /\ pc = "retire" => st = "verified"
    /\ pc = "release" => ~(st = "merged" /\ mstate \in Unresolved)
    /\ HeldWhileOwed

\* What confirmed the end of the session is what leads to the release.
Ending ==
    /\ pc \in {"stopped", "shut"} => agent = "ended"
    /\ pc = "release" \/ ~held => agent = "ended" \/ classified

\* media_path is footage of the stage the row names; an upload in progress is
\* reserved; and a verdict that it arrived stands on the ledger's.
Delivering ==
    /\ mfile \in {"none", mstage}
    /\ pc = "uploading" => mfile \in Stages /\ upload[mfile] = "pending"
    /\ word = "delivered" =>
          pc \in {"close", "shut", "open", "release"} /\ upload[mstage] = "sent"
    /\ DeliveredIsSlacksWord

\* What awaits its merge was graded at the recorded head, or the branch has gone
\* on since, or it was forced back there.
Merging ==
    /\ head \in 0 .. newest
    /\ st = "awaiting_merge" => head \in passed \cup forced \/ pushed # head
    /\ st = "merged" => pr = "merged" /\ pushed \in passed \cup forced

IInv == TypeOK /\ Marked /\ Sending /\ Claiming /\ Ending /\ Delivering /\ Merging

-----------------------------------------------------------------------------
(* The instance, which no step changes. *)

LEMMA Bounds ==
    ASSUME TypeOK
    PROVE  /\ LastCommit \in Nat /\ MaxFollowUps \in Nat /\ MaxMediaPolls \in Nat
           /\ MergeGate \in BOOLEAN
  BY SizesAreBounds DEF TypeOK, LastCommit, MaxFollowUps, MaxMediaPolls, MergeGate

SameInstance ==
    UNCHANGED <<size, LastCommit, MaxFollowUps, MaxMediaPolls, MergeGate, Commits, Marks>>

LEMMA InstanceStays ==
    ASSUME UNCHANGED size
    PROVE  SameInstance
  BY DEF SameInstance, LastCommit, MaxFollowUps, MaxMediaPolls, MergeGate, Commits, Marks

\* The next-state relation by what its steps are about.
Recovering == Restart \/ RecoverSettles \/ RecoverParks \/ Walk \/ StepMerged \/ StepParked
Grading    == PollParks \/ PollRunning \/ PollStops \/ PollClassifies \/ PollCandidate
              \/ PollRaises \/ VerifyBlocked \/ VerifyPasses \/ VerifyFails \/ VerifyRaises
Following  == FeedbackStops \/ FeedbackIntends \/ FollowedUp \/ FollowUpUnknown
              \/ SendDelivered \/ SendUnknown \/ SendRefused \/ Settles
Accepting  == MergeStops \/ MergeWaits \/ MergeRaises \/ MergeParks \/ MergePasses
              \/ Stops \/ Stopped \/ Retires \/ Kept \/ Releases
Recording  == MediaUnread \/ MediaRead \/ MediaIntends \/ MediaAsked \/ MediaTurnedDown
              \/ MediaFound \/ MediaImpossible \/ MediaNotFound
              \/ SettlesSymptom \/ EndsForMedia \/ SettlesMerged
Offering   == OfferFails \/ OfferKnown \/ OfferReserves \/ Uploads

LEMMA NextIsOneOf ==
    ASSUME [Next]_vars
    PROVE  \/ Recovering \/ Grading \/ Following \/ Accepting \/ Recording \/ Offering
           \/ Outside \/ Crash \/ UNCHANGED vars
  BY DEF Next, Tick, Recovering, Grading, Following, Accepting, Recording, Offering

LEMMA SizeStays ==
    ASSUME [Next]_vars
    PROVE  SameInstance
  <1> USE DEF limits
  <1>1. Recovering => UNCHANGED size
    BY DEF Recovering, Restart, RecoverSettles, RecoverParks, Walk, StepMerged, StepParked
  <1>2. Grading => UNCHANGED size
    BY DEF Grading, PollParks, PollRunning, PollStops, PollClassifies, PollRaises,
           PollCandidate, VerifyBlocked, VerifyRaises, VerifyPasses, VerifyFails
  <1>3. Following => UNCHANGED size
    BY DEF Following, FeedbackStops, FeedbackIntends, FollowedUp, FollowUpUnknown,
           SendDelivered, SendUnknown, SendRefused, Settles
  <1>4. Accepting => UNCHANGED size
    BY DEF Accepting, MergeStops, MergeWaits, MergeRaises, MergeParks, MergePasses, Stops,
           Stopped, Retires, Kept, Releases
  <1>5. Recording => UNCHANGED size
    BY DEF Recording, MediaUnread, MediaRead, MediaIntends, MediaAsked, MediaTurnedDown,
           MediaFound, MediaImpossible, MediaNotFound, SettlesSymptom, EndsForMedia,
           SettlesMerged
  <1>6. Offering => UNCHANGED size
    BY DEF Offering, OfferFails, OfferKnown, OfferReserves, Uploads
  <1>7. Outside \/ Crash \/ UNCHANGED vars => UNCHANGED size
    BY DEF Outside, AgentPushes, AgentReports, AgentRecords, HumanDecides, AcusRunOut,
           DeadlinePasses, Crash, vars
  <1> QED BY <1>1, <1>2, <1>3, <1>4, <1>5, <1>6, <1>7, NextIsOneOf, InstanceStays

-----------------------------------------------------------------------------
(* Types. *)

LocalsTyped ==
    /\ pc \in Locations
    /\ mark \in Marks \cup {NoMark}
    /\ back \in {"step", "end"}
    /\ word \in {"failed", "delivered"}
    /\ offer \in BOOLEAN

\* The ways through a tick keep its locals typed.
LEMMA MovesTyped ==
    ASSUME TypeOK, SameInstance,
           \/ \E l \in Locations : Goto(l) \/ Abandon(l)
           \/ End \/ Return
           \/ \E w \in {"failed", "delivered"} : Close(w)
           \/ UNCHANGED locals
    PROVE  LocalsTyped'
  <1>1. LocalsTyped /\ Marks' = Marks
    BY DEF TypeOK, LocalsTyped, SameInstance
  <1>2. CASE \E l \in Locations : Goto(l) \/ Abandon(l)
    BY <1>1, <1>2 DEF LocalsTyped, Goto, Abandon
  <1>3. CASE End \/ Return
    BY <1>1, <1>3 DEF LocalsTyped, End, Return, Locations
  <1>4. CASE \E w \in {"failed", "delivered"} : Close(w)
    BY <1>1, <1>4 DEF LocalsTyped, Close, Locations
  <1>5. CASE UNCHANGED locals
    BY <1>1, <1>5 DEF LocalsTyped, locals
  <1> QED BY <1>2, <1>3, <1>4, <1>5

LEMMA LocalsKept ==
    ASSUME IInv, [Next]_vars
    PROVE  LocalsTyped'
  <1> DEFINE Moves == \/ \E l \in Locations : Goto(l) \/ Abandon(l)
                      \/ End \/ Return
                      \/ \E w \in {"failed", "delivered"} : Close(w)
                      \/ UNCHANGED locals
  <1>1. SameInstance /\ TypeOK /\ LocalsTyped
    BY SizeStays DEF IInv, TypeOK, LocalsTyped
  <1>2. Moves => LocalsTyped'
    BY <1>1, MovesTyped
  <1>3. CASE Recovering
    <2>1. CASE Walk
      BY <1>1, <2>1 DEF Walk, LocalsTyped, SameInstance, Locations
    <2>2. Recovering /\ ~Walk => Moves
      BY DEF Recovering, Restart, RecoverSettles, RecoverParks, StepMerged, StepParked,
             Locations
    <2> QED BY <1>2, <1>3, <2>1, <2>2
  <1>4. CASE Grading
    <2>1. CASE VerifyFails
      <3>1. pushed \in Commits
        BY <1>1, <2>1, Bounds DEF VerifyFails, TypeOK, Commits
      <3>2. <<"follow-up", pushed>> \in Marks'
        BY <1>1, <3>1 DEF Marks, SameInstance
      <3> QED BY <1>1, <2>1, <3>2 DEF VerifyFails, LocalsTyped, Locations
    <2>2. Grading /\ ~VerifyFails => Moves
      BY DEF Grading, PollParks, PollRunning, PollStops, PollClassifies, PollRaises,
             PollCandidate, VerifyBlocked, VerifyRaises, VerifyPasses, Locations
    <2> QED BY <1>2, <1>4, <2>1, <2>2
  <1>5. Following => Moves
    BY DEF Following, FeedbackStops, FeedbackIntends, FollowedUp, FollowUpUnknown,
           SendDelivered, SendUnknown, SendRefused, Settles, Locations
  <1>6. Accepting => Moves
    BY DEF Accepting, MergeStops, MergeWaits, MergeRaises, MergeParks, MergePasses, Stops,
           Stopped, Retires, Kept, Releases, Terminated, Locations
  <1>7. CASE Recording
    <2>1. CASE MediaIntends
      <3>1. Asking(mstage) \in Marks'
        BY <1>1 DEF TypeOK, Asking, Marks, SameInstance
      <3> QED BY <1>1, <2>1, <3>1 DEF MediaIntends, LocalsTyped, Locations
    <2>2. CASE MediaFound
      BY <1>1, <2>2 DEF MediaFound, LocalsTyped, SameInstance, Locations
    <2>3. Recording /\ ~MediaIntends /\ ~MediaFound => Moves
      BY DEF Recording, MediaUnread, MediaRead, MediaAsked, MediaTurnedDown,
             MediaImpossible, MediaNotFound, SettlesSymptom, EndsForMedia, SettlesMerged,
             Terminated, Locations
    <2> QED BY <1>2, <1>7, <2>1, <2>2, <2>3
  <1>8. CASE Offering
    <2>1. CASE OfferReserves
      BY <1>1, <2>1 DEF OfferReserves, LocalsTyped, SameInstance, Locations
    <2>2. Offering /\ ~OfferReserves => Moves
      BY DEF Offering, OfferFails, OfferKnown, Uploads, Locations
    <2> QED BY <1>2, <1>8, <2>1, <2>2
  <1>9. Outside \/ Crash \/ UNCHANGED vars => Moves
    BY DEF Outside, AgentPushes, AgentReports, AgentRecords, HumanDecides, AcusRunOut,
           DeadlinePasses, Crash, vars, Locations
  <1> QED BY <1>2, <1>3, <1>4, <1>5, <1>6, <1>7, <1>8, <1>9, NextIsOneOf

\* The repair's row, and what is outside.
DataTyped ==
    /\ st \in {"dispatched", "candidate", "awaiting_merge", "verified", "merged",
               "needs_attention", "terminal"}
    /\ held \in BOOLEAN
    /\ head \in 0 .. LastCommit
    /\ ups \in 0 .. MaxFollowUps
    /\ mstate \in Unresolved \cup {"delivered", "failed"}
    /\ mstage \in Stages
    /\ mfile \in Stages \cup {"none"}
    /\ mpolls \in 0 .. MaxMediaPolls + 1
    /\ classified \in BOOLEAN
    /\ passed \subseteq Commits
    /\ agent \in {"working", "asking", "finished", "ended"}
    /\ output \in {"none", "no_defect", "defect"}
    /\ pushed \in 0 .. newest
    /\ newest \in 0 .. LastCommit
    /\ forced \subseteq 1 .. newest
    /\ pr \in {"open", "merged", "closed"}
    /\ size \in Sizes
    /\ budget \in {"left", "spent", "over"}

MapsTyped ==
    /\ msg \in [Marks -> IntentStates]
    /\ upload \in [Stages -> {"none", "pending", "sent", "unknown", "failed"}]
    /\ told \in [Marks -> Nat]
    /\ shot \in [Stages -> {"none", "taken", "outdated"}]

LEMMA TypeParts == TypeOK <=> LocalsTyped /\ DataTyped /\ MapsTyped
  BY DEF TypeOK, LocalsTyped, DataTyped, MapsTyped

LEMMA DataKept ==
    ASSUME IInv, [Next]_vars
    PROVE  DataTyped'
  <1> USE DEF repair, media, session, github, limits, Park, Terminated, DataTyped,
              Unresolved
  <1>1. SameInstance /\ DataTyped
    BY SizeStays, TypeParts DEF IInv
  <1>2. LastCommit \in Nat /\ MaxFollowUps \in Nat /\ MaxMediaPolls \in Nat
    BY Bounds DEF IInv
  <1>3. CASE Recovering
    BY <1>1, <1>3 DEF SameInstance, Recovering, Restart, RecoverSettles, RecoverParks, Walk,
           StepMerged, StepParked
  <1>4. CASE Grading
    <2>1. CASE VerifyPasses
      <3>1. passed' \subseteq Commits
        BY <1>1, <1>2, <2>1 DEF VerifyPasses, Commits
      <3> QED BY <1>1, <2>1, <3>1 DEF VerifyPasses, SameInstance
    <2>2. CASE PollCandidate
      <3>1. head' \in 0 .. LastCommit
        BY <1>1, <1>2, <2>2 DEF PollCandidate
      <3> QED BY <1>1, <2>2, <3>1 DEF PollCandidate, SameInstance
    <2>3. CASE Grading /\ ~VerifyPasses /\ ~PollCandidate
      BY <1>1, <2>3 DEF SameInstance, Grading, PollParks, PollRunning, PollStops,
             PollClassifies, PollRaises, VerifyBlocked, VerifyRaises, VerifyFails
    <2> QED BY <1>4, <2>1, <2>2, <2>3
  <1>5. CASE Following
    <2>1. CASE FollowedUp
      <3>1. ups' \in 0 .. MaxFollowUps
        BY <1>1, <1>2, <2>1 DEF FollowedUp, IInv, Marked
      <3> QED BY <1>1, <2>1, <3>1 DEF FollowedUp, SameInstance
    <2>2. CASE Following /\ ~FollowedUp
      BY <1>1, <2>2 DEF SameInstance, Following, FeedbackStops, FeedbackIntends,
             FollowUpUnknown, SendDelivered, SendUnknown, SendRefused, Settles, Reaches
    <2> QED BY <1>5, <2>1, <2>2
  <1>6. CASE Accepting
    <2>1. CASE MergePasses
      BY <1>1, <1>2, <2>1 DEF SameInstance, MergePasses, Stages
    <2>2. CASE Stops \/ Retires
      BY <1>1, <2>2 DEF SameInstance, Stops, Retires
    <2>3. CASE Accepting /\ ~MergePasses /\ ~(Stops \/ Retires)
      BY <1>1, <2>3 DEF SameInstance, Accepting, MergeStops, MergeWaits, MergeRaises,
             MergeParks, Stopped, Kept, Releases
    <2> QED BY <1>6, <2>1, <2>2, <2>3
  <1>7. CASE Recording
    <2>1. CASE MediaRead
      <3>1. mpolls' \in 0 .. MaxMediaPolls + 1
        BY <1>1, <1>2, <2>1 DEF MediaRead
      <3> QED BY <1>1, <2>1, <3>1 DEF MediaRead, SameInstance
    <2>2. word \in {"failed", "delivered"}
      BY TypeParts DEF IInv, LocalsTyped
    <2>3. CASE Recording /\ ~MediaRead
      BY <1>1, <2>2, <2>3 DEF SameInstance, Recording, MediaUnread, MediaIntends,
             MediaAsked, MediaTurnedDown, MediaFound, MediaImpossible, MediaNotFound,
             SettlesSymptom, EndsForMedia, SettlesMerged
    <2> QED BY <1>7, <2>1, <2>3
  <1>8. CASE Offering
    BY <1>1, <1>8 DEF SameInstance, Offering, OfferFails, OfferKnown, OfferReserves, Uploads
  <1>9. CASE Outside
    <2>1. CASE AgentPushes
      <3>1. newest' \in newest .. LastCommit
        BY <1>1, <1>2, <2>1 DEF AgentPushes
      <3>2. pushed' \in 0 .. newest'
        BY <1>1, <1>2, <2>1 DEF AgentPushes
      <3>3. forced' \subseteq forced \cup 1 .. newest
        BY <2>1 DEF AgentPushes
      <3>4. newest' \in 0 .. LastCommit /\ forced' \subseteq 1 .. newest'
        BY <1>1, <1>2, <3>1, <3>3
      <3> QED BY <1>1, <2>1, <3>2, <3>4 DEF AgentPushes, SameInstance
    <2>2. CASE Outside /\ ~AgentPushes
      BY <1>1, <2>2 DEF SameInstance, Outside, AgentReports, AgentRecords, HumanDecides,
             AcusRunOut, DeadlinePasses
    <2> QED BY <1>9, <2>1, <2>2
  <1>10. CASE Crash \/ UNCHANGED vars
    BY <1>1, <1>10 DEF SameInstance, Crash, vars
  <1> QED BY <1>3, <1>4, <1>5, <1>6, <1>7, <1>8, <1>9, <1>10, NextIsOneOf

LEMMA MapsKept ==
    ASSUME IInv, [Next]_vars
    PROVE  MapsTyped'
  <1> USE DEF repair, media, session, github, limits, MapsTyped
  <1>1. Marks' = Marks /\ MapsTyped /\ mstage \in Stages /\ (pc \in Sends => mark \in Marks)
    BY SizeStays, TypeParts DEF IInv, DataTyped, Marked, SameInstance
  <1>2. CASE Recovering
    BY <1>1, <1>2 DEF Recovering, Restart, RecoverSettles, RecoverParks, Walk, StepMerged,
           StepParked, IntentStates
  <1>3. CASE Grading
    BY <1>1, <1>3 DEF Grading, PollParks, PollRunning, PollStops, PollClassifies,
           PollRaises, PollCandidate, VerifyBlocked, VerifyRaises, VerifyPasses, VerifyFails
  <1>4. CASE Following
    <2>1. pc = "feedback" => mark \in Marks
      BY DEF IInv, Marked
    <2> QED BY <1>1, <1>4, <2>1 DEF Following, FeedbackStops, FeedbackIntends, FollowedUp,
               FollowUpUnknown, SendDelivered, SendUnknown, SendRefused, Settles, Reaches,
               Sends, IntentStates
  <1>5. CASE Accepting
    BY <1>1, <1>5 DEF Accepting, MergeStops, MergeWaits, MergeRaises, MergeParks,
           MergePasses, Stops, Stopped, Retires, Kept, Releases, Terminated
  <1>6. CASE Recording
    <2>1. Asking(mstage) \in Marks
      BY <1>1 DEF Asking, Marks
    <2> QED BY <1>1, <1>6, <2>1 DEF Recording, MediaUnread, MediaRead, MediaIntends,
                   MediaAsked, MediaTurnedDown, MediaFound, MediaImpossible, MediaNotFound,
                   SettlesSymptom, EndsForMedia, SettlesMerged, Terminated, IntentStates
  <1>7. CASE Offering
    BY <1>1, <1>7 DEF Offering, OfferFails, OfferKnown, OfferReserves, Uploads
  <1>8. CASE Outside
    BY <1>1, <1>8 DEF Outside, AgentPushes, AgentReports, AgentRecords, HumanDecides,
           AcusRunOut, DeadlinePasses
  <1>9. CASE Crash \/ UNCHANGED vars
    BY <1>1, <1>9 DEF Crash, vars
  <1> QED BY <1>2, <1>3, <1>4, <1>5, <1>6, <1>7, <1>8, <1>9, NextIsOneOf

LEMMA TypesKept ==
    ASSUME IInv, [Next]_vars
    PROVE  TypeOK'
  <1>1. LocalsTyped' /\ DataTyped' /\ MapsTyped'
    BY LocalsKept, DataKept, MapsKept
  <1> QED BY <1>1 DEF TypeOK, LocalsTyped, DataTyped, MapsTyped

-----------------------------------------------------------------------------
(* Messages: intended, sent, settled. *)

\* The steps that have to do with a message, ...
Messages == RecoverSettles \/ VerifyFails \/ FeedbackIntends \/ SendDelivered \/ SendUnknown
            \/ SendRefused \/ Settles \/ MediaIntends

\* ... and those that have not.
Quiet ==
    /\ UNCHANGED <<msg, told>>
    /\ \/ UNCHANGED <<pc, mark, ups>>
       \/ pc' \notin Sends \cup {"feedback", "followed"}

LEMMA OthersAreQuiet ==
    ASSUME [Next]_vars, ~Messages
    PROVE  Quiet
  <1> USE DEF Quiet, Sends, repair, session, locals, Goto, End, Return, Abandon, Close,
              Park, Terminated
  <1>1. CASE Recovering
    BY <1>1 DEF Messages, Recovering, Restart, RecoverParks, Walk, StepMerged, StepParked
  <1>2. CASE Grading
    BY <1>2 DEF Messages, Grading, PollParks, PollRunning, PollStops, PollClassifies,
           PollRaises, PollCandidate, VerifyBlocked, VerifyRaises, VerifyPasses
  <1>3. CASE Following
    BY <1>3 DEF Messages, Following, FeedbackStops, FollowedUp, FollowUpUnknown
  <1>4. CASE Accepting
    BY <1>4 DEF Accepting, MergeStops, MergeWaits, MergeRaises, MergeParks, MergePasses,
           Stops, Stopped, Retires, Kept, Releases
  <1>5. CASE Recording
    BY <1>5 DEF Messages, Recording, MediaUnread, MediaRead, MediaAsked, MediaTurnedDown,
           MediaFound, MediaImpossible, MediaNotFound, SettlesSymptom, EndsForMedia,
           SettlesMerged
  <1>6. CASE Offering
    BY <1>6 DEF Offering, OfferFails, OfferKnown, OfferReserves, Uploads
  <1>7. CASE Outside
    BY <1>7 DEF Outside, AgentPushes, AgentReports, AgentRecords, HumanDecides, AcusRunOut,
           DeadlinePasses
  <1>8. CASE Crash \/ UNCHANGED vars
    BY <1>8 DEF Crash, vars
  <1> QED BY <1>1, <1>2, <1>3, <1>4, <1>5, <1>6, <1>7, <1>8, NextIsOneOf

LEMMA MarkedKept ==
    ASSUME IInv, [Next]_vars
    PROVE  Marked'
  <1> USE DEF Sends, repair, Goto, End, Abandon
  <1>1. /\ Marks' = Marks /\ MaxFollowUps' = MaxFollowUps /\ Commits' = Commits
        /\ TypeOK /\ Marked
    BY SizeStays DEF IInv, SameInstance
  <1>2. CASE Quiet
    BY <1>1, <1>2 DEF Quiet, Marked
  <1>3. CASE VerifyFails
    <2>1. pushed \in Commits
      BY <1>1, <1>3, Bounds DEF VerifyFails, TypeOK, Commits
    <2> QED BY <1>1, <1>3, <2>1 DEF VerifyFails, Marked, Marks
  <1>4. CASE MediaIntends
    <2>1. mark' = Asking(mstage) /\ pc' \in {"send", "asked"}
      BY <1>4 DEF MediaIntends
    <2>2. mark' \in Marks /\ mark'[1] \in Stages /\ Stages = {"symptom", "merged"}
      BY <1>1, <2>1 DEF TypeOK, Asking, Marks, Stages
    <2>3. mark'[1] # "follow-up"
      BY <2>2
    <2> QED BY <1>1, <2>1, <2>2, <2>3 DEF Marked
  <1>5. CASE FeedbackIntends \/ SendDelivered \/ SendUnknown
    BY <1>1, <1>5 DEF FeedbackIntends, SendDelivered, SendUnknown, Marked
  <1>6. CASE RecoverSettles \/ SendRefused \/ Settles
    BY <1>1, <1>6 DEF RecoverSettles, SendRefused, Settles, Marked
  <1> QED BY <1>2, <1>3, <1>4, <1>5, <1>6, OthersAreQuiet DEF Messages

LEMMA SendingKept ==
    ASSUME IInv, [Next]_vars
    PROVE  Sending'
  <1> USE DEF Sends, session, Goto, End, Abandon
  <1>1. /\ Marks' = Marks /\ Sending /\ Marked
        /\ msg \in [Marks -> IntentStates] /\ told \in [Marks -> Nat]
    BY SizeStays DEF IInv, SameInstance, TypeOK
  <1>2. CASE Quiet
    BY <1>1, <1>2 DEF Quiet, Sending
  <1>3. CASE VerifyFails \/ SendRefused
    BY <1>1, <1>3 DEF VerifyFails, SendRefused, Sending
  <1>4. CASE RecoverSettles
    BY <1>1, <1>4 DEF RecoverSettles, Sending
  <1>5. CASE FeedbackIntends
    BY <1>1, <1>5 DEF FeedbackIntends, Sending, Marked
  <1>6. CASE MediaIntends
    <2>1. mark' \in Marks
      <3>1. mark' = Asking(mstage) /\ mstage \in Stages
        BY <1>6 DEF MediaIntends, IInv, TypeOK
      <3> QED BY <3>1 DEF Asking, Marks
    <2> QED BY <1>1, <1>6, <2>1 DEF MediaIntends, Sending
  <1>7. CASE SendDelivered \/ SendUnknown
    BY <1>1, <1>7 DEF SendDelivered, SendUnknown, Reaches, Sending, Marked
  <1>8. CASE Settles
    BY <1>1, <1>8 DEF Settles, Sending, Marked
  <1> QED BY <1>2, <1>3, <1>4, <1>5, <1>6, <1>7, <1>8, OthersAreQuiet DEF Messages

-----------------------------------------------------------------------------
(* The claim, and the session. *)

LEMMA ClaimingKept ==
    ASSUME IInv, [Next]_vars
    PROVE  Claiming'
  <1> USE DEF repair, media, Goto, End, Return, Abandon, Close, Park, Claiming,
              HeldWhileOwed, Working
  <1>1. TypeOK /\ Claiming
    BY DEF IInv
  <1>2. CASE Recovering
    BY <1>1, <1>2 DEF Recovering, Restart, RecoverSettles, RecoverParks, Walk, StepMerged,
           StepParked
  <1>3. CASE Grading
    BY <1>1, <1>3 DEF Grading, PollParks, PollRunning, PollStops, PollClassifies,
           PollRaises, PollCandidate, VerifyBlocked, VerifyRaises, VerifyPasses,
           VerifyFails, Polling, Verifying
  <1>4. CASE Following
    BY <1>1, <1>4 DEF Following, FeedbackStops, FeedbackIntends, FollowedUp,
           FollowUpUnknown, SendDelivered, SendUnknown, SendRefused, Settles
  <1>5. CASE Accepting
    BY <1>1, <1>5 DEF Accepting, MergeStops, MergeWaits, MergeRaises, MergeParks,
           MergePasses, Gating, Stops, Stopped, Retires, Kept, Releases, Terminated
  <1>6. CASE Recording
    BY <1>1, <1>6 DEF Recording, MediaUnread, MediaRead, MediaIntends, MediaAsked,
           MediaTurnedDown, MediaFound, MediaImpossible, MediaNotFound, Found,
           SettlesSymptom, EndsForMedia, SettlesMerged, Terminated, TypeOK, Unresolved
  <1>7. CASE Offering
    BY <1>1, <1>7 DEF Offering, OfferFails, OfferKnown, OfferReserves, Uploads
  <1>8. CASE Outside
    BY <1>1, <1>8 DEF Outside, AgentPushes, AgentReports, AgentRecords, HumanDecides,
           AcusRunOut, DeadlinePasses, locals
  <1>9. CASE Crash \/ UNCHANGED vars
    BY <1>1, <1>9 DEF Crash, vars, locals
  <1> QED BY <1>2, <1>3, <1>4, <1>5, <1>6, <1>7, <1>8, <1>9, NextIsOneOf

LEMMA EndingKept ==
    ASSUME IInv, [Next]_vars
    PROVE  Ending'
  <1> USE DEF repair, session, Goto, End, Return, Abandon, Close, Park, Ending
  <1>1. TypeOK /\ Ending
    BY DEF IInv
  <1>2. CASE Recovering
    BY <1>1, <1>2 DEF Recovering, Restart, RecoverSettles, RecoverParks, Walk, StepMerged,
           StepParked
  <1>3. CASE Grading
    BY <1>1, <1>3 DEF Grading, PollParks, PollRunning, PollStops, PollClassifies,
           PollRaises, PollCandidate, VerifyBlocked, VerifyRaises, VerifyPasses, VerifyFails
  <1>4. CASE Following
    BY <1>1, <1>4 DEF Following, FeedbackStops, FeedbackIntends, FollowedUp,
           FollowUpUnknown, SendDelivered, SendUnknown, SendRefused, Settles, Reaches
  <1>5. CASE Accepting
    BY <1>1, <1>5 DEF Accepting, MergeStops, MergeWaits, MergeRaises, MergeParks,
           MergePasses, Stops, Stopped, Retires, Kept, Releases, Terminated
  <1>6. CASE Recording
    BY <1>1, <1>6 DEF Recording, MediaUnread, MediaRead, MediaIntends, MediaAsked,
           MediaTurnedDown, MediaFound, MediaImpossible, MediaNotFound, SettlesSymptom,
           EndsForMedia, SettlesMerged, Terminated
  <1>7. CASE Offering
    BY <1>1, <1>7 DEF Offering, OfferFails, OfferKnown, OfferReserves, Uploads
  <1>8. CASE Outside
    BY <1>1, <1>8 DEF Outside, AgentPushes, AgentReports, AgentRecords, HumanDecides,
           AcusRunOut, DeadlinePasses, locals
  <1>9. CASE Crash \/ UNCHANGED vars
    BY <1>1, <1>9 DEF Crash, vars, locals
  <1> QED BY <1>2, <1>3, <1>4, <1>5, <1>6, <1>7, <1>8, <1>9, NextIsOneOf

-----------------------------------------------------------------------------
(* Recordings, and the merge. *)

LEMMA DeliveringKept ==
    ASSUME IInv, [Next]_vars
    PROVE  Delivering'
  <1> USE DEF repair, media, Goto, End, Return, Abandon, Close, Park, Delivering,
              DeliveredIsSlacksWord
  <1>1. TypeOK /\ Delivering
    BY DEF IInv
  <1>2. CASE Recovering
    BY <1>1, <1>2 DEF Recovering, Restart, RecoverSettles, RecoverParks, Walk, StepMerged,
           StepParked
  <1>3. CASE Grading
    BY <1>1, <1>3 DEF Grading, PollParks, PollRunning, PollStops, PollClassifies,
           PollRaises, PollCandidate, VerifyBlocked, VerifyRaises, VerifyPasses,
           VerifyFails, Polling, Verifying
  <1>4. CASE Following
    BY <1>1, <1>4 DEF Following, FeedbackStops, FeedbackIntends, FollowedUp,
           FollowUpUnknown, SendDelivered, SendUnknown, SendRefused, Settles
  <1>5. CASE Accepting
    BY <1>1, <1>5 DEF Accepting, MergeStops, MergeWaits, MergeRaises, MergeParks,
           MergePasses, Gating, Stops, Stopped, Retires, Kept, Releases, Terminated
  <1>6. CASE Recording
    BY <1>1, <1>6 DEF Recording, MediaUnread, MediaRead, MediaIntends, MediaAsked,
           MediaTurnedDown, MediaFound, MediaImpossible, MediaNotFound, Found,
           SettlesSymptom, EndsForMedia, SettlesMerged, Terminated
  <1>7. CASE Offering
    <2>1. CASE Uploads
      <3>1. /\ pc = "uploading" /\ mfile \in Stages /\ mfile = mstage
            /\ upload[mfile] = "pending"
            /\ upload \in [Stages -> {"none", "pending", "sent", "unknown", "failed"}]
        BY <1>1, <2>1 DEF Uploads, TypeOK, Stages
      <3>2. mstate # "delivered" /\ word # "delivered"
        BY <1>1, <3>1
      <3> QED BY <2>1, <3>1, <3>2 DEF Uploads
    <2>2. CASE OfferReserves
      BY <1>1, <2>2 DEF OfferReserves, TypeOK
    <2>3. CASE OfferFails \/ OfferKnown
      BY <1>1, <2>3 DEF OfferFails, OfferKnown, Stages
    <2> QED BY <1>7, <2>1, <2>2, <2>3 DEF Offering
  <1>8. CASE Outside
    BY <1>1, <1>8 DEF Outside, AgentPushes, AgentReports, AgentRecords, HumanDecides,
           AcusRunOut, DeadlinePasses, locals
  <1>9. CASE Crash \/ UNCHANGED vars
    BY <1>1, <1>9 DEF Crash, vars, locals
  <1> QED BY <1>2, <1>3, <1>4, <1>5, <1>6, <1>7, <1>8, <1>9, NextIsOneOf

\* Only these steps have to do with commits, verdicts and merges.
LEMMA MergingKept ==
    ASSUME IInv, [Next]_vars
    PROVE  Merging'
  <1> USE DEF repair, github, Merging
  <1>1. TypeOK /\ Merging /\ head \in Nat /\ pushed \in Nat /\ newest \in Nat
    BY Bounds DEF IInv, TypeOK
  <1> DEFINE Still == /\ UNCHANGED <<head, passed, pushed, newest, forced, pr>>
                      /\ st' = st \/ st' \notin {"awaiting_merge", "merged"}
  <1>2. CASE Still
    BY <1>1, <1>2
  <1>3. CASE PollCandidate
    BY <1>1, <1>3 DEF PollCandidate, TypeOK
  <1>4. CASE VerifyPasses
    BY <1>1, <1>4 DEF VerifyPasses
  <1>5. CASE MergePasses
    BY <1>1, <1>5 DEF MergePasses, Gating
  <1>6. CASE AgentPushes \/ HumanDecides
    BY <1>1, <1>6 DEF AgentPushes, HumanDecides
  <1>7. Still \/ PollCandidate \/ VerifyPasses \/ MergePasses \/ AgentPushes \/ HumanDecides
    <2> USE DEF Park
    <2>1. Recovering => Still
      BY DEF Recovering, Restart, RecoverSettles, RecoverParks, Walk, StepMerged, StepParked
    <2>2. Grading => Still \/ PollCandidate \/ VerifyPasses
      BY DEF Grading, PollParks, PollRunning, PollStops, PollClassifies, PollRaises,
             VerifyBlocked, VerifyRaises, VerifyFails
    <2>3. Following => Still
      BY DEF Following, FeedbackStops, FeedbackIntends, FollowedUp, FollowUpUnknown,
             SendDelivered, SendUnknown, SendRefused, Settles
    <2>4. Accepting => Still \/ MergePasses
      BY DEF Accepting, MergeStops, MergeWaits, MergeRaises, MergeParks, Stops, Stopped,
             Retires, Kept, Releases
    <2>5. Recording => Still
      BY DEF Recording, MediaUnread, MediaRead, MediaIntends, MediaAsked, MediaTurnedDown,
             MediaFound, MediaImpossible, MediaNotFound, SettlesSymptom, EndsForMedia,
             SettlesMerged
    <2>6. Offering => Still
      BY DEF Offering, OfferFails, OfferKnown, OfferReserves, Uploads
    <2>7. Outside => Still \/ AgentPushes \/ HumanDecides
      BY DEF Outside, AgentReports, AgentRecords, AcusRunOut, DeadlinePasses
    <2>8. Crash \/ UNCHANGED vars => Still
      BY DEF Crash, vars
    <2> QED BY <2>1, <2>2, <2>3, <2>4, <2>5, <2>6, <2>7, <2>8, NextIsOneOf
  <1> QED BY <1>2, <1>3, <1>4, <1>5, <1>6, <1>7

-----------------------------------------------------------------------------
(* The invariant holds, and what it gives. *)

LEMMA Invariant == Spec => []IInv
  <1>1. Init => IInv
    <2> SUFFICES ASSUME Init
                 PROVE  IInv
      OBVIOUS
    <2>1. LastCommit \in Nat /\ MaxFollowUps \in Nat /\ MaxMediaPolls \in Nat
      BY SizesAreBounds DEF Init, LastCommit, MaxFollowUps, MaxMediaPolls
    <2>2. TypeOK
      <3>1. LocalsTyped
        BY DEF Init, LocalsTyped, Locations
      <3>2. DataTyped
        <4>1. 0 \in 0 .. LastCommit /\ 0 \in 0 .. MaxFollowUps /\ 0 \in 0 .. MaxMediaPolls + 1
          BY <2>1
        <4>2. Init => pushed \in 0 .. newest /\ newest \in 0 .. LastCommit
                      /\ forced \subseteq 1 .. newest
          BY <4>1 DEF Init
        <4> QED BY <4>1, <4>2 DEF Init, DataTyped, Unresolved, Stages
      <3>3. MapsTyped
        BY DEF Init, MapsTyped, IntentStates
      <3> QED BY <3>1, <3>2, <3>3, TypeParts
    <2>3. Marked /\ Sending
      BY DEF Init, Marked, Sending, Sends
    <2>4. Claiming /\ Ending
      BY DEF Init, Claiming, Ending, HeldWhileOwed, Working
    <2>5. Delivering /\ Merging
      BY DEF Init, Delivering, Merging, DeliveredIsSlacksWord
    <2> QED BY <2>2, <2>3, <2>4, <2>5 DEF IInv
  <1>2. IInv /\ [Next]_vars => IInv'
    BY TypesKept, MarkedKept, SendingKept, ClaimingKept, EndingKept, DeliveringKept,
           MergingKept
       DEF IInv
  <1> QED BY <1>1, <1>2, PTL DEF Spec

\* The repair's row, the ledgers and the locals of a tick are well typed, for
\* instances of any size; follow-ups stay within their limit as counted
\* (Controller.feedback, check_media).
THEOREM TypeCorrect == Spec => []TypeOK
  <1>1. IInv => TypeOK
    BY DEF IInv
  <1> QED BY <1>1, Invariant, PTL

\* A merge is accepted only with a head that passed its preview, whatever is
\* pushed after the candidate was recorded, or with one that the branch was
\* forced back to after it had left it (verify, check_merge).
THEOREM MergesVerified == Spec => []MergedWasVerified
  <1>1. IInv => MergedWasVerified
    BY DEF IInv, Merging, MergedWasVerified
  <1> QED BY <1>1, Invariant, PTL

\* No crash, lost answer or repeated pass sends a message twice (intend,
\* feedback, _ask_for_media).
THEOREM ToldOnce == Spec => []EachToldOnce
  <1>1. IInv => EachToldOnce
    BY DEF IInv, Sending, EachToldOnce
  <1> QED BY <1>1, Invariant, PTL

\* The claim is held while the merged commit's recording is owed (check_merge,
\* _settle_media).
THEOREM ClaimHeld == Spec => []HeldWhileOwed
  <1>1. IInv => HeldWhileOwed
    BY DEF IInv, Claiming
  <1> QED BY <1>1, Invariant, PTL

\* A recording is called delivered only when Slack stored the clip of that very
\* stage (check_media, _publish_capture).
THEOREM SlacksWord == Spec => []DeliveredIsSlacksWord
  <1>1. IInv => DeliveredIsSlacksWord
    BY DEF IInv, Delivering
  <1> QED BY <1>1, Invariant, PTL

\* The claim is given back only by a confirmed termination, or by a repair that
\* turned out to be no product defect (_stop, _release_after_verification).
THEOREM ReleasedAtEnd == Spec => []ReleasedWhenEnded
  <1>1. IInv => ReleasedWhenEnded
    BY DEF IInv, Ending, ReleasedWhenEnded
  <1> QED BY <1>1, Invariant, PTL
=============================================================================
