------------------------ MODULE RepairDispatchProofs ------------------------
(***************************************************************************)
(* For any number of repairs, workers and requests: RepairDispatch is type *)
(* correct, creates at most one issue and one session per repair, keeps    *)
(* every open session under the claim until it reported that there is no   *)
(* product defect, and implements SingleFlight.                            *)
(***************************************************************************)
EXTENDS RepairDispatch, TLAPS

-----------------------------------------------------------------------------
(* The inductive invariant. *)

\* Where a worker may still create something for the repair it is at.
Dispatching ==
    {"dispatch", "intend", "find", "reread", "create", "await", "unknown", "settle", "url",
     "finish"}

\* The one worker told claimed=True, until it sends its request, ...
Token(w, r, k) ==
    /\ at[w] = r
    /\ kind[w] = k
    /\ pc[w] \in {"find", "create"}
    /\ seen[w] = "absent"

\* ... and until it hears of it or stops waiting.
Owner(w, r, k) ==
    \/ Token(w, r, k)
    \/ pc[w] = "await" /\ at[w] = r /\ kind[w] = k

\* A worker past its first read is at some repair; lost repairs never get
\* as far as a dispatch.
PlacedAt(w) ==
    /\ pc[w] \notin {"idle", "down", "claim"} => at[w] \in Repairs
    /\ pc[w] = "create" => seen[w] = "absent"
    /\ pc[w] \in Dispatching => at[w] \notin Lost
    /\ pc[w] \in {"lost", "drop"} => at[w] \in Lost

\* What a worker's location says about the provider's objects.
KnownAt(w) ==
    /\ pc[w] = "await" => <<at[w], kind[w]>> \in wire \/ made[at[w]][kind[w]] > 0
    /\ pc[w] = "settle" => made[at[w]][kind[w]] > 0
    /\ pc[w] = "url" => made[at[w]]["issue"] > 0
    /\ pc[w] \in {"intend", "find", "create", "await", "settle"} /\ kind[w] = "session"
        => made[at[w]]["issue"] > 0
    /\ pc[w] \in {"reread", "finish", "poll", "stop", "close", "hold", "release"}
        => made[at[w]]["session"] > 0
    /\ pc[w] \in {"close", "release"} => at[w] \notin live \ reported

\* Until its session exists, a repair being dispatched keeps the slot.
HeldAt(w) ==
    /\ pc[w] \in Dispatching \cup {"takeover"}
    /\ at[w] \notin Lost
    /\ made[at[w]]["session"] = 0
    => slot = at[w]

\* The intent is the licence to create: absent, nobody has used it; and it is
\* used by one worker, which finds nothing made and nothing on the wire.
Licensed(r, k) ==
    /\ intent[r][k] = "absent" =>
        /\ made[r][k] = 0
        /\ <<r, k>> \notin wire
        /\ \A w \in Workers : ~Owner(w, r, k)
    /\ intent[r][k] = "confirmed" => made[r][k] > 0
    /\ \A w \in Workers : Token(w, r, k) => made[r][k] = 0 /\ <<r, k>> \notin wire
    /\ \A v, w \in Workers : Owner(v, r, k) /\ Owner(w, r, k) => v = w

\* A request on the wire is the first of its kind, for the slot's repair.
Sent(r, k) ==
    <<r, k>> \in wire =>
        /\ made[r][k] = 0
        /\ k = "session" => made[r]["issue"] > 0
        /\ r \notin Lost
        /\ slot = r

\* What the rows say about the provider's objects.
Recorded(r) ==
    /\ r \in url => made[r]["issue"] > 0
    /\ row[r] = "dispatched" => made[r]["session"] > 0
    /\ made[r]["session"] > 0 => made[r]["issue"] > 0
    /\ r \in live => r \notin Lost

IInv ==
    /\ TypeOK
    /\ AtMostOnce
    /\ RunningHoldsClaim
    /\ \A w \in Workers : PlacedAt(w) /\ KnownAt(w) /\ HeldAt(w)
    /\ \A r \in Repairs : Recorded(r)
    /\ \A r \in Repairs, k \in Kinds : Licensed(r, k) /\ Sent(r, k)

-----------------------------------------------------------------------------
(* Steps that create nothing. *)

\* Every worker but w stands where it stood.
Frame(w) ==
    \A v \in Workers \ {w} :
        pc'[v] = pc[v] /\ at'[v] = at[v] /\ kind'[v] = kind[v] /\ seen'[v] = seen[v]

\* Nothing is sent or made; the slot is taken when free and given back only by a
\* repair whose session is closed or reported; what the rows come to say is true.
QuietShared ==
    /\ UNCHANGED <<wire, made, reported>>
    /\ \/ UNCHANGED <<slot, live>>
       \/ slot = None /\ slot' \in Repairs /\ live' = live
       \/ slot \in Repairs /\ slot' = None /\ live' = live
       \/ slot' = slot /\ \E r \in Repairs : live' = live \ {r}
    /\ \A r \in Repairs :
        /\ slot = r /\ slot' # r => r \notin live' \ reported /\ (made[r]["session"] > 0 \/ r \in Lost)
        /\ row'[r] = "dispatched" => row[r] = "dispatched" \/ made[r]["session"] > 0
        /\ r \in url' => r \in url \/ made[r]["issue"] > 0
        /\ \A k \in Kinds :
            /\ intent'[r][k] = "absent" => intent[r][k] = "absent"
            /\ intent'[r][k] = "confirmed" => intent[r][k] = "confirmed" \/ made[r][k] > 0

\* w arrives where its location is justified, and gains no licence to create.
QuietLocal(w) ==
    /\ PlacedAt(w)' /\ KnownAt(w)' /\ HeldAt(w)'
    /\ \A r \in Repairs, k \in Kinds :
        (Token(w, r, k)' => Token(w, r, k)) /\ (Owner(w, r, k)' => Owner(w, r, k))

LEMMA QuietStep == ASSUME IInv, TypeOK', NEW w \in Workers, Frame(w), QuietShared, QuietLocal(w)
                   PROVE IInv'
  <1>1. AtMostOnce'
    BY DEF IInv, AtMostOnce, QuietShared
  <1>2. RunningHoldsClaim'
    BY DEF IInv, RunningHoldsClaim, QuietShared, Recorded, TypeOK
  <1>3. ASSUME NEW v \in Workers PROVE PlacedAt(v)' /\ KnownAt(v)' /\ HeldAt(v)'
    <2>1. CASE v = w
      BY <2>1 DEF QuietLocal
    <2>2. CASE v # w
      <3>1. PlacedAt(v)'
        BY <2>2 DEF IInv, Frame, PlacedAt
      <3>2. KnownAt(v)'
        BY <2>2 DEF IInv, Frame, KnownAt, QuietShared
      <3>3. HeldAt(v)'
        BY <2>2 DEF IInv, Frame, HeldAt, PlacedAt, QuietShared, Dispatching
      <3> QED BY <3>1, <3>2, <3>3
    <2> QED BY <2>1, <2>2
  <1>4. ASSUME NEW r \in Repairs PROVE Recorded(r)'
    BY DEF IInv, Recorded, QuietShared
  <1>5. ASSUME NEW r \in Repairs, NEW k \in Kinds PROVE Licensed(r, k)'
    <2>1. ASSUME NEW v \in Workers
          PROVE (Token(v, r, k)' => Token(v, r, k)) /\ (Owner(v, r, k)' => Owner(v, r, k))
      BY DEF QuietLocal, Frame, Token, Owner
    <2> QED
      BY <2>1 DEF IInv, Licensed, QuietShared
  <1>6. ASSUME NEW r \in Repairs, NEW k \in Kinds PROVE Sent(r, k)'
    <2>1. CASE <<r, k>> \in wire
      <3>1. made[r][k] = 0 /\ r \notin Lost /\ slot = r /\ (k = "session" => made[r]["issue"] > 0)
        BY <2>1 DEF IInv, Sent
      <3>2. ~(made[r]["session"] > 0)
        <4>1. CASE k = "session"
          BY <3>1, <4>1
        <4>2. CASE k = "issue"
          BY <3>1, <4>2 DEF IInv, Recorded
        <4> QED BY <4>1, <4>2 DEF Kinds
      <3>3. slot' = r
        BY <3>1, <3>2 DEF QuietShared
      <3> QED BY <3>1, <3>3 DEF Sent, QuietShared
    <2>2. CASE <<r, k>> \notin wire
      BY <2>2 DEF Sent, QuietShared
    <2> QED BY <2>1, <2>2
  <1> QED
    BY <1>1, <1>2, <1>3, <1>4, <1>5, <1>6 DEF IInv

LEMMA FrameStep == ASSUME TypeOK, NEW w \in Workers, Work(w) \/ Dies(w) PROVE Frame(w)
  <1>1. CASE Starts(w)
    BY <1>1 DEF Starts, Frame, TypeOK, Goto, Forget, Done, Enter, locals
  <1>2. CASE RecoverBegins(w)
    BY <1>2 DEF RecoverBegins, Frame, TypeOK, Goto, Forget, Done, Enter, locals
  <1>3. CASE RecoverSettles(w)
    BY <1>3 DEF RecoverSettles, Frame, TypeOK, Goto, Forget, Done, Enter, locals
  <1>4. CASE ReadQueue(w)
    BY <1>4 DEF ReadQueue, Frame, TypeOK, Goto, Forget, Done, Enter, locals
  <1>5. CASE ReadActive(w)
    BY <1>5 DEF ReadActive, Frame, TypeOK, Goto, Forget, Done, Enter, locals
  <1>6. CASE Claim(w)
    BY <1>6 DEF Claim, Frame, TypeOK, Goto, Forget, Done, Enter, locals
  <1>7. CASE LostParks(w)
    BY <1>7 DEF LostParks, Frame, TypeOK, Goto, Forget, Done, Enter, locals
  <1>8. CASE LostReleases(w)
    BY <1>8 DEF LostReleases, Frame, TypeOK, Goto, Forget, Done, Enter, locals
  <1>9. CASE Takeover(w)
    BY <1>9 DEF Takeover, Frame, TypeOK, Goto, Forget, Done, Enter, locals
  <1>10. CASE Dispatch(w)
    BY <1>10 DEF Dispatch, Frame, TypeOK, Goto, Forget, Done, Enter, locals
  <1>11. CASE Finds(w)
    BY <1>11 DEF Finds, Frame, TypeOK, Goto, Forget, Done, Enter, locals
  <1>12. CASE Misses(w)
    BY <1>12 DEF Misses, Frame, TypeOK, Goto, Forget, Done, Enter, locals
  <1>13. CASE Answered(w)
    BY <1>13 DEF Answered, Frame, TypeOK, Goto, Forget, Done, Enter, locals
  <1>14. CASE TimesOut(w)
    BY <1>14 DEF TimesOut, Frame, TypeOK, Goto, Forget, Done, Enter, locals
  <1>15. CASE SettlesAmbiguous(w)
    BY <1>15 DEF SettlesAmbiguous, Frame, TypeOK, Goto, Forget, Done, Enter, locals
  <1>16. CASE SettlesConfirmed(w)
    BY <1>16 DEF SettlesConfirmed, Frame, TypeOK, Goto, Forget, Done, Enter, locals
  <1>17. CASE WritesUrl(w)
    BY <1>17 DEF WritesUrl, Frame, TypeOK, Goto, Forget, Done, Enter, locals
  <1>18. CASE Parks(w)
    BY <1>18 DEF Parks, Frame, TypeOK, Goto, Forget, Done, Enter, locals
  <1>19. CASE Finishes(w)
    BY <1>19 DEF Finishes, Frame, TypeOK, Goto, Forget, Done, Enter, locals
  <1>20. CASE PollRunning(w)
    BY <1>20 DEF PollRunning, Frame, TypeOK, Goto, Forget, Done, Enter, locals
  <1>21. CASE PollParks(w)
    BY <1>21 DEF PollParks, Frame, TypeOK, Goto, Forget, Done, Enter, locals
  <1>22. CASE PollStops(w)
    BY <1>22 DEF PollStops, Frame, TypeOK, Goto, Forget, Done, Enter, locals
  <1>23. CASE Terminates(w)
    BY <1>23 DEF Terminates, Frame, TypeOK, Goto, Forget, Done, Enter, locals
  <1>24. CASE TerminationUnclear(w)
    BY <1>24 DEF TerminationUnclear, Frame, TypeOK, Goto, Forget, Done, Enter, locals
  <1>25. CASE Closes(w)
    BY <1>25 DEF Closes, Frame, TypeOK, Goto, Forget, Done, Enter, locals
  <1>26. CASE Releases(w)
    BY <1>26 DEF Releases, Frame, TypeOK, Goto, Forget, Done, Enter, locals
  <1>27. CASE Dies(w)
    BY <1>27 DEF Dies, Frame, TypeOK, Goto, Forget, Done, Enter, locals
  <1>28. CASE Intend(w)
    BY <1>28 DEF Intend, Frame, TypeOK, Goto, Forget, Done, Enter, locals
  <1>29. CASE Create(w)
    BY <1>29 DEF Create, Frame, TypeOK, Goto, Forget, Done, Enter, locals
  <1>30. CASE TurnedDown(w)
    BY <1>30 DEF TurnedDown, Frame, TypeOK, Goto, Forget, Done, Enter, locals
  <1>31. CASE Rereads(w)
    BY <1>31 DEF Rereads, Frame, TypeOK, Goto, Forget, Done, Enter, locals
  <1>32. CASE Raises(w)
    BY <1>32 DEF Raises, Frame, TypeOK, Goto, Forget, Done, Enter, locals
  <1>33. CASE PollClassifies(w)
    BY <1>33 DEF PollClassifies, Frame, TypeOK, Goto, Forget, Done, Enter, locals
  <1> QED BY <1>1, <1>2, <1>3, <1>4, <1>5, <1>6, <1>7, <1>8, <1>9, <1>10, <1>11, <1>12, <1>13,
    <1>14, <1>15, <1>16, <1>17, <1>18, <1>19, <1>20, <1>21, <1>22, <1>23, <1>24, <1>25, <1>26,
    <1>27, <1>28, <1>29, <1>30, <1>31, <1>32, <1>33 DEF Work

LEMMA QuietAction == ASSUME IInv, TypeOK', NEW w \in Workers, Work(w) \/ Dies(w),
                            ~Intend(w), ~Create(w), ~TurnedDown(w)
                     PROVE QuietShared /\ QuietLocal(w)
  <1> USE RepairsAreIds, NoneIsNoRepair, LostAreRepairs
  <1> USE DEF Goto, Forget, Done, Enter, Release, Dispatching, Token, Owner, PlacedAt, KnownAt,
              HeldAt, QuietShared, QuietLocal, db, remote, locals
  <1>1. CASE Starts(w)
    BY <1>1 DEF Starts, Recorded, IInv, TypeOK, Kinds
  <1>2. CASE RecoverBegins(w)
    BY <1>2 DEF RecoverBegins, Recorded, IInv, TypeOK, Kinds
  <1>3. CASE RecoverSettles(w)
    BY <1>3 DEF RecoverSettles, Recorded, IInv, TypeOK, Kinds
  <1>4. CASE ReadQueue(w)
    BY <1>4 DEF ReadQueue, Recorded, IInv, TypeOK, Kinds
  <1>5. CASE ReadActive(w)
    BY <1>5 DEF ReadActive, Recorded, IInv, TypeOK, Kinds
  <1>6. CASE Claim(w)
    BY <1>6 DEF Claim, Recorded, IInv, TypeOK, Kinds
  <1>7. CASE LostParks(w)
    <2>1. QuietShared
      BY <1>7 DEF LostParks, IInv, TypeOK
    <2>2. QuietLocal(w)
      BY <1>7 DEF LostParks, IInv
    <2> QED BY <2>1, <2>2
  <1>8. CASE LostReleases(w)
    <2>1. QuietShared
      <3>1. at[w] \in Lost /\ at[w] \in Repairs
        BY <1>8 DEF LostReleases, IInv
      <3>2. at[w] \notin live
        BY <3>1 DEF IInv, Recorded
      <3> QED BY <1>8, <3>1, <3>2 DEF LostReleases
    <2>2. QuietLocal(w)
      BY <1>8 DEF LostReleases, Recorded, IInv, TypeOK, Kinds
    <2> QED BY <2>1, <2>2
  <1>9. CASE Takeover(w)
    <2>1. QuietShared
      BY <1>9 DEF Takeover
    <2>2. QuietLocal(w)
      BY <1>9 DEF Takeover, IInv, TypeOK
    <2> QED BY <2>1, <2>2
  <1>10. CASE Dispatch(w)
    BY <1>10 DEF Dispatch, Recorded, IInv, TypeOK, Kinds
  <1>11. CASE Finds(w)
    BY <1>11 DEF Finds, Recorded, IInv, TypeOK, Kinds
  <1>12. CASE Misses(w)
    BY <1>12 DEF Misses, Recorded, IInv, TypeOK, Kinds
  <1>13. CASE Answered(w)
    BY <1>13 DEF Answered, Recorded, IInv, TypeOK, Kinds
  <1>14. CASE TimesOut(w)
    BY <1>14 DEF TimesOut, Recorded, IInv, TypeOK, Kinds
  <1>15. CASE SettlesAmbiguous(w)
    BY <1>15 DEF SettlesAmbiguous, Recorded, IInv, TypeOK, Kinds
  <1>16. CASE SettlesConfirmed(w)
    <2>1. QuietShared
      <3>1. made[at[w]][kind[w]] > 0 /\ at[w] \in Repairs /\ kind[w] \in Kinds
        BY <1>16 DEF SettlesConfirmed, IInv, TypeOK
      <3>2. \A r \in Repairs, k \in Kinds : intent'[r][k] = IF r = at[w] /\ k = kind[w]
        THEN "confirmed" ELSE intent[r][k]
        BY <1>16, <3>1 DEF SettlesConfirmed, IInv, TypeOK
      <3> QED BY <1>16, <3>1, <3>2 DEF SettlesConfirmed, remote
    <2>2. QuietLocal(w)
      BY <1>16 DEF SettlesConfirmed, Recorded, IInv, TypeOK, Kinds
    <2> QED BY <2>1, <2>2
  <1>17. CASE WritesUrl(w)
    BY <1>17 DEF WritesUrl, Recorded, IInv, TypeOK, Kinds
  <1>18. CASE Parks(w)
    BY <1>18 DEF Parks, Recorded, IInv, TypeOK, Kinds
  <1>19. CASE Finishes(w)
    <2>1. QuietShared
      <3>1. made[at[w]]["session"] > 0 /\ at[w] \in Repairs
        BY <1>19 DEF Finishes, IInv
      <3>2. \A r \in Repairs : r # at[w] => row'[r] = row[r]
        BY <1>19 DEF Finishes, IInv, TypeOK
      <3> QED BY <1>19, <3>1, <3>2 DEF Finishes, remote
    <2>2. QuietLocal(w)
      BY <1>19 DEF Finishes, Recorded, IInv, TypeOK, Kinds
    <2> QED BY <2>1, <2>2
  <1>20. CASE PollRunning(w)
    BY <1>20 DEF PollRunning, Recorded, IInv, TypeOK, Kinds
  <1>21. CASE PollParks(w)
    BY <1>21 DEF PollParks, Recorded, IInv, TypeOK, Kinds
  <1>22. CASE PollStops(w)
    BY <1>22 DEF PollStops, Recorded, IInv, TypeOK, Kinds
  <1>23. CASE Terminates(w)
    BY <1>23 DEF Terminates, Recorded, IInv, TypeOK, Kinds
  <1>24. CASE TerminationUnclear(w)
    BY <1>24 DEF TerminationUnclear, Recorded, IInv, TypeOK, Kinds
  <1>25. CASE Closes(w)
    BY <1>25 DEF Closes, Recorded, IInv, TypeOK, Kinds
  <1>26. CASE Releases(w)
    <2>1. QuietShared
      <3>1. made[at[w]]["session"] > 0 /\ at[w] \notin live \ reported /\ at[w] \in Repairs
        BY <1>26 DEF Releases, IInv
      <3> QED BY <1>26, <3>1 DEF Releases
    <2>2. QuietLocal(w)
      BY <1>26 DEF Releases, Recorded, IInv, TypeOK, Kinds
    <2> QED BY <2>1, <2>2
  <1>27. CASE Dies(w)
    BY <1>27 DEF Dies, Recorded, IInv, TypeOK, Kinds
  <1>28. CASE Rereads(w)
    BY <1>28 DEF Rereads, Recorded, IInv, TypeOK, Kinds
  <1>29. CASE Raises(w)
    BY <1>29 DEF Raises, Recorded, IInv, TypeOK, Kinds
  <1>30. CASE PollClassifies(w)
    BY <1>30 DEF PollClassifies, Recorded, IInv, TypeOK, Kinds
  <1> QED BY <1>1, <1>2, <1>3, <1>4, <1>5, <1>6, <1>7, <1>8, <1>9, <1>10, <1>11, <1>12, <1>13,
    <1>14, <1>15, <1>16, <1>17, <1>18, <1>19, <1>20, <1>21, <1>22, <1>23, <1>24, <1>25, <1>26,
    <1>27, <1>28, <1>29, <1>30 DEF Work

-----------------------------------------------------------------------------
(* Steps that create something: the intent, the request, its refusal and its *)
(* execution.                                                                *)

LEMMA IntendStep == ASSUME IInv, TypeOK', NEW w \in Workers, Intend(w) PROVE IInv'
  <1> USE DEF Kinds
  <1>0. Frame(w)
    BY FrameStep DEF Work, IInv
  <1>1. /\ UNCHANGED <<row, url, slot, wire, made, live, reported>>
        /\ pc[w] = "intend" /\ at[w] \in Repairs /\ kind[w] \in Kinds
        /\ pc'[w] \in {"find", "url", "reread"} /\ at'[w] = at[w] /\ kind'[w] = kind[w]
        /\ seen'[w] = intent[at[w]][kind[w]]
    BY DEF Intend, IInv, TypeOK, PlacedAt, Goto, remote
  <1>2. \A r \in Repairs, k \in Kinds :
            intent'[r][k] = IF r = at[w] /\ k = kind[w] /\ intent[r][k] = "absent"
                            THEN "intended" ELSE intent[r][k]
    BY DEF Intend, IInv, TypeOK, PlacedAt
  <1>3. AtMostOnce' /\ RunningHoldsClaim'
    BY <1>1 DEF IInv, AtMostOnce, RunningHoldsClaim
  <1>4. ASSUME NEW r \in Repairs PROVE Recorded(r)'
    BY <1>1 DEF IInv, Recorded
  <1>5. ASSUME NEW v \in Workers PROVE PlacedAt(v)' /\ KnownAt(v)' /\ HeldAt(v)'
    <2>1. CASE v = w
      <3>1. PlacedAt(w) /\ KnownAt(w) /\ HeldAt(w)
        BY DEF IInv
      <3>2. pc'[w] = "url" => made[at[w]]["issue"] > 0
        BY <1>1 DEF Intend, IInv, Licensed, TypeOK, Goto
      <3>3. pc'[w] = "reread" => made[at[w]]["session"] > 0
        BY <1>1 DEF Intend, IInv, Licensed, TypeOK, Goto
      <3> QED
        BY <1>1, <2>1, <3>1, <3>2, <3>3 DEF PlacedAt, KnownAt, HeldAt, Dispatching
    <2>2. CASE v # w
      BY <1>0, <1>1, <2>2 DEF IInv, Frame, PlacedAt, KnownAt, HeldAt, Dispatching
    <2> QED BY <2>1, <2>2
  <1>6. ASSUME NEW r \in Repairs, NEW k \in Kinds PROVE Licensed(r, k)' /\ Sent(r, k)'
    <2>1. Licensed(r, k) /\ Sent(r, k)
      BY DEF IInv
    <2>2. ASSUME NEW v \in Workers, v # w
          PROVE (Token(v, r, k)' <=> Token(v, r, k)) /\ (Owner(v, r, k)' <=> Owner(v, r, k))
      BY <1>0, <2>2 DEF Frame, Token, Owner
    <2>3. Owner(w, r, k)' => Token(w, r, k)' /\ r = at[w] /\ k = kind[w] /\ intent[r][k] = "absent"
      BY <1>1 DEF Token, Owner
    <2>4. Licensed(r, k)'
      BY <1>1, <1>2, <2>1, <2>2, <2>3 DEF Licensed, Owner
    <2> QED
      BY <1>1, <2>1, <2>4 DEF Sent
  <1> QED
    BY <1>3, <1>4, <1>5, <1>6 DEF IInv

LEMMA CreateStep == ASSUME IInv, TypeOK', NEW w \in Workers, Create(w) PROVE IInv'
  <1> USE DEF Kinds
  <1>0. Frame(w)
    BY FrameStep DEF Work, IInv
  <1>1. /\ UNCHANGED <<row, url, slot, intent, made, live, reported>>
        /\ pc[w] = "create" /\ at[w] \in Repairs /\ kind[w] \in Kinds
        /\ pc'[w] = "await" /\ at'[w] = at[w] /\ kind'[w] = kind[w]
        /\ wire' = wire \cup {<<at[w], kind[w]>>}
    BY DEF Create, IInv, TypeOK, PlacedAt, Goto, db
  <1>2. Token(w, at[w], kind[w])
    BY <1>1 DEF IInv, PlacedAt, Token
  <1>3. made[at[w]][kind[w]] = 0 /\ <<at[w], kind[w]>> \notin wire
    BY <1>1, <1>2 DEF IInv, Licensed
  <1>4. made[at[w]]["session"] = 0
    <2>1. made[at[w]]["session"] \in Nat
      BY <1>1 DEF IInv, TypeOK
    <2>2. made[at[w]]["session"] > 0 => made[at[w]]["issue"] > 0
      BY <1>1 DEF IInv, Recorded
    <2> QED
      BY <1>1, <1>3, <2>1, <2>2
  <1>5. slot = at[w] /\ at[w] \notin Lost /\ (kind[w] = "session" => made[at[w]]["issue"] > 0)
    BY <1>1, <1>4 DEF IInv, HeldAt, PlacedAt, KnownAt, Dispatching
  <1>6. AtMostOnce' /\ RunningHoldsClaim'
    BY <1>1 DEF IInv, AtMostOnce, RunningHoldsClaim
  <1>7. ASSUME NEW r \in Repairs PROVE Recorded(r)'
    BY <1>1 DEF IInv, Recorded
  <1>8. ASSUME NEW v \in Workers PROVE PlacedAt(v)' /\ KnownAt(v)' /\ HeldAt(v)'
    <2>1. CASE v = w
      BY <1>1, <1>5, <2>1 DEF PlacedAt, KnownAt, HeldAt, Dispatching
    <2>2. CASE v # w
      BY <1>0, <1>1, <2>2 DEF IInv, Frame, PlacedAt, KnownAt, HeldAt, Dispatching
    <2> QED BY <2>1, <2>2
  <1>9. ASSUME NEW r \in Repairs, NEW k \in Kinds PROVE Licensed(r, k)' /\ Sent(r, k)'
    <2>1. Licensed(r, k) /\ Sent(r, k)
      BY DEF IInv
    <2>2. ASSUME NEW v \in Workers
          PROVE /\ Owner(v, r, k)' => Owner(v, r, k)
                /\ Token(v, r, k)' => Token(v, r, k) /\ v # w
      BY <1>0, <1>1, <1>2 DEF Frame, Token, Owner
    <2>3. Sent(r, k)'
      BY <1>1, <1>3, <1>5, <2>1 DEF Sent
    <2>4. CASE r = at[w] /\ k = kind[w]
      <3>1. Owner(w, r, k)
        BY <1>2, <2>4 DEF Owner
      <3>2. intent[r][k] # "absent" /\ \A v \in Workers : ~Token(v, r, k)'
        BY <2>1, <2>2, <3>1 DEF Licensed, Owner
      <3> QED
        BY <1>1, <2>1, <2>2, <2>3, <3>2 DEF Licensed
    <2>5. CASE ~(r = at[w] /\ k = kind[w])
      BY <1>1, <2>1, <2>2, <2>3, <2>5 DEF Licensed
    <2> QED BY <2>4, <2>5
  <1> QED
    BY <1>6, <1>7, <1>8, <1>9 DEF IInv

LEMMA TurnedDownStep == ASSUME IInv, TypeOK', NEW w \in Workers, TurnedDown(w) PROVE IInv'
  <1> USE DEF Kinds
  <1>0. Frame(w)
    BY FrameStep DEF Work, IInv
  <1>1. /\ UNCHANGED <<row, url, slot, intent, made, live, reported>>
        /\ pc[w] = "await" /\ at[w] \in Repairs /\ kind[w] \in Kinds
        /\ wire' = wire \ {<<at[w], kind[w]>>}
        /\ \/ pc'[w] = "idle"
           \/ pc'[w] = "park" /\ at'[w] = at[w]
    <2>1. at[w] \in Repairs /\ kind[w] \in Kinds
      BY DEF TurnedDown, IInv, TypeOK, PlacedAt
    <2> QED
      BY <2>1 DEF TurnedDown, IInv, TypeOK, Goto, Forget, Done, db
  <1>2. AtMostOnce' /\ RunningHoldsClaim'
    BY <1>1 DEF IInv, AtMostOnce, RunningHoldsClaim
  <1>3. ASSUME NEW r \in Repairs PROVE Recorded(r)'
    BY <1>1 DEF IInv, Recorded
  <1>4. ASSUME NEW v \in Workers PROVE PlacedAt(v)' /\ KnownAt(v)' /\ HeldAt(v)'
    <2>1. CASE v = w
      BY <1>1, <2>1 DEF PlacedAt, KnownAt, HeldAt, Dispatching
    <2>2. CASE v # w
      <3>1. PlacedAt(v)' /\ HeldAt(v)'
        BY <1>0, <1>1, <2>2 DEF IInv, Frame, PlacedAt, HeldAt, Dispatching
      <3>2. ~(pc[v] = "await" /\ at[v] = at[w] /\ kind[v] = kind[w])
        BY <1>1, <2>2 DEF IInv, Licensed, Owner
      <3>3. KnownAt(v)'
        BY <1>0, <1>1, <2>2, <3>2 DEF IInv, Frame, KnownAt
      <3> QED BY <3>1, <3>3
    <2> QED BY <2>1, <2>2
  <1>5. ASSUME NEW r \in Repairs, NEW k \in Kinds PROVE Licensed(r, k)' /\ Sent(r, k)'
    <2>1. Licensed(r, k) /\ Sent(r, k)
      BY DEF IInv
    <2>2. ASSUME NEW v \in Workers
          PROVE (Owner(v, r, k)' => Owner(v, r, k)) /\ (Token(v, r, k)' => Token(v, r, k))
      BY <1>0, <1>1 DEF Frame, Token, Owner
    <2> QED
      BY <1>1, <2>1, <2>2 DEF Licensed, Sent
  <1> QED
    BY <1>2, <1>3, <1>4, <1>5 DEF IInv

LEMMA ServeStep == ASSUME IInv, TypeOK', NEW r \in Repairs, NEW k \in Kinds, Serve(r, k) PROVE IInv'
  <1> USE DEF Kinds
  <1>1. /\ UNCHANGED <<row, url, slot, intent, reported, pc, at, kind, seen>>
        /\ <<r, k>> \in wire /\ wire' = wire \ {<<r, k>>}
        /\ live' = IF k = "session" THEN live \cup {r} ELSE live
    BY DEF Serve, db, locals
  <1>2. Sent(r, k) /\ made[r][k] = 0
    BY <1>1 DEF IInv, Sent
  <1>3. \A q \in Repairs, j \in Kinds :
            made'[q][j] = IF q = r /\ j = k THEN 1 ELSE made[q][j]
    BY <1>2 DEF Serve, IInv, TypeOK
  <1>4. AtMostOnce'
    BY <1>3 DEF IInv, AtMostOnce
  <1>5. RunningHoldsClaim'
    BY <1>1, <1>2 DEF IInv, RunningHoldsClaim, Sent
  <1>6. ASSUME NEW q \in Repairs PROVE Recorded(q)'
    BY <1>1, <1>2, <1>3 DEF IInv, Recorded, Sent
  <1>7. ASSUME NEW v \in Workers PROVE PlacedAt(v)' /\ KnownAt(v)' /\ HeldAt(v)'
    <2>1. PlacedAt(v) /\ KnownAt(v) /\ HeldAt(v) /\ kind[v] \in Kinds
      BY DEF IInv, TypeOK
    <2>2. PlacedAt(v)'
      BY <1>1, <2>1 DEF PlacedAt
    <2>3. KnownAt(v)'
      BY <1>1, <1>2, <1>3, <2>1 DEF PlacedAt, KnownAt
    <2>4. HeldAt(v)'
      BY <1>1, <1>3, <2>1 DEF PlacedAt, HeldAt, Dispatching
    <2> QED BY <2>2, <2>3, <2>4
  <1>8. ASSUME NEW q \in Repairs, NEW j \in Kinds PROVE Licensed(q, j)' /\ Sent(q, j)'
    <2>1. Licensed(q, j) /\ Sent(q, j)
      BY DEF IInv
    <2>2. \A v \in Workers : /\ Owner(v, q, j)' <=> Owner(v, q, j)
                             /\ Token(v, q, j)' <=> Token(v, q, j)
      BY <1>1 DEF Token, Owner
    <2> QED
      BY <1>1, <1>3, <2>1, <2>2 DEF Licensed, Sent
  <1> QED
    BY <1>4, <1>5, <1>6, <1>7, <1>8 DEF IInv

LEMMA ReportsStep == ASSUME IInv, TypeOK', NEW r \in Repairs, Reports(r) PROVE IInv'
  <1>1. /\ UNCHANGED <<row, url, slot, intent, wire, made, pc, at, kind, seen>>
        /\ live' \subseteq live /\ reported \subseteq reported'
    BY DEF Reports, db, locals
  <1>2. AtMostOnce' /\ RunningHoldsClaim'
    BY <1>1 DEF IInv, AtMostOnce, RunningHoldsClaim
  <1>3. ASSUME NEW w \in Workers PROVE PlacedAt(w)' /\ KnownAt(w)' /\ HeldAt(w)'
    BY <1>1 DEF IInv, PlacedAt, KnownAt, HeldAt
  <1>4. ASSUME NEW q \in Repairs PROVE Recorded(q)'
    BY <1>1 DEF IInv, Recorded
  <1>5. ASSUME NEW q \in Repairs, NEW k \in Kinds PROVE Licensed(q, k)' /\ Sent(q, k)'
    <2>1. \A w \in Workers : /\ Owner(w, q, k)' <=> Owner(w, q, k)
                             /\ Token(w, q, k)' <=> Token(w, q, k)
      BY <1>1 DEF Token, Owner
    <2> QED
      BY <1>1, <2>1 DEF IInv, Licensed, Sent
  <1> QED
    BY <1>2, <1>3, <1>4, <1>5 DEF IInv

-----------------------------------------------------------------------------
(* Steps of the portal's requests and of the clock. *)

LEMMA StillStep == ASSUME IInv, TypeOK',
                          UNCHANGED <<url, slot, intent, wire, made, live, reported, pc, at, kind, seen>>,
                          \A r \in Repairs : row'[r] = "dispatched" => row[r] = "dispatched"
                   PROVE IInv'
  <1>1. AtMostOnce' /\ RunningHoldsClaim'
    BY DEF IInv, AtMostOnce, RunningHoldsClaim
  <1>2. ASSUME NEW w \in Workers PROVE PlacedAt(w)' /\ KnownAt(w)' /\ HeldAt(w)'
    BY DEF IInv, PlacedAt, KnownAt, HeldAt
  <1>3. ASSUME NEW r \in Repairs PROVE Recorded(r)'
    BY DEF IInv, Recorded
  <1>4. ASSUME NEW r \in Repairs, NEW k \in Kinds PROVE Licensed(r, k)' /\ Sent(r, k)'
    <2>1. \A w \in Workers : /\ Owner(w, r, k)' <=> Owner(w, r, k)
                             /\ Token(w, r, k)' <=> Token(w, r, k)
      BY DEF Token, Owner
    <2> QED
      BY <2>1 DEF IInv, Licensed, Sent
  <1> QED
    BY <1>1, <1>2, <1>3, <1>4 DEF IInv

LEMMA StillAction == ASSUME TypeOK, Consider \/ Clock \/ UNCHANGED vars
                     PROVE /\ UNCHANGED <<url, slot, intent, wire, made, live, reported, pc, at, kind, seen>>
                           /\ \A r \in Repairs : row'[r] = "dispatched" => row[r] = "dispatched"
  <1> USE DEF TypeOK, remote, locals, db
  <1>1. ASSUME NEW q \in Requests, NEW r \in Repairs, ConsiderLooks(q, r)
        PROVE UNCHANGED <<row, url, slot, intent, wire, made, live, reported, pc, at, kind, seen>>
    BY <1>1 DEF ConsiderLooks
  <1>2. ASSUME NEW q \in Requests, ConsiderUpserts(q)
        PROVE /\ UNCHANGED <<url, slot, intent, wire, made, live, reported, pc, at, kind, seen>>
              /\ \A r \in Repairs : row'[r] = "dispatched" => row[r] = "dispatched"
    BY <1>2 DEF ConsiderUpserts
  <1>3. CASE Clock
    BY <1>3 DEF Clock, ClaimAges, DeadlinePasses, IntentAges
  <1>4. CASE UNCHANGED vars
    BY <1>4 DEF vars
  <1> QED
    BY <1>1, <1>2, <1>3, <1>4 DEF Consider

-----------------------------------------------------------------------------
(* Type correctness. *)

LEMMA TypeWork == ASSUME IInv, NEW w \in Workers, Work(w) \/ Dies(w) PROVE TypeOK'
  <1> USE RepairsAreIds, NoneIsNoRepair, LostAreRepairs
  <1> USE DEF TypeOK, Kinds, RowStates, IntentStates, Deadlines, Locations, Goto, Forget, Done, Enter,
              Release, db, remote, locals
  <1>0. TypeOK /\ PlacedAt(w)
    BY DEF IInv
  <1>1. CASE Starts(w)
    BY <1>0, <1>1 DEF Starts, PlacedAt
  <1>2. CASE RecoverBegins(w)
    BY <1>0, <1>2 DEF RecoverBegins, PlacedAt
  <1>3. CASE RecoverSettles(w)
    BY <1>0, <1>3 DEF RecoverSettles, PlacedAt
  <1>4. CASE ReadQueue(w)
    BY <1>0, <1>4 DEF ReadQueue, PlacedAt
  <1>5. CASE ReadActive(w)
    BY <1>0, <1>5 DEF ReadActive, PlacedAt
  <1>6. CASE Claim(w)
    BY <1>0, <1>6 DEF Claim, PlacedAt
  <1>7. CASE LostParks(w)
    BY <1>0, <1>7 DEF LostParks, PlacedAt
  <1>8. CASE LostReleases(w)
    BY <1>0, <1>8 DEF LostReleases, PlacedAt
  <1>9. CASE Takeover(w)
    BY <1>0, <1>9 DEF Takeover, PlacedAt
  <1>10. CASE Dispatch(w)
    BY <1>0, <1>10 DEF Dispatch, PlacedAt
  <1>11. CASE Intend(w)
    <2>1. at[w] \in Repairs /\ kind[w] \in Kinds
      BY <1>0, <1>11 DEF Intend, PlacedAt
    <2>2. intent[at[w]][kind[w]] \in IntentStates
      <3>1. intent[at[w]] \in [Kinds -> IntentStates]
        BY <1>0, <2>1 DEF TypeOK
      <3> QED BY <2>1, <3>1
    <2> QED
      BY <1>0, <1>11, <2>1, <2>2 DEF Intend
  <1>12. CASE Finds(w)
    BY <1>0, <1>12 DEF Finds, PlacedAt
  <1>13. CASE Misses(w)
    <2>1. CASE Done(w)
      BY <1>0, <1>13, <2>1 DEF Misses
    <2>2. CASE UNCHANGED <<at, kind, seen, todo, due>>
      BY <1>0, <1>13, <2>2 DEF Misses
    <2> QED BY <1>13, <2>1, <2>2 DEF Misses
  <1>14. CASE Create(w)
    BY <1>0, <1>14 DEF Create, PlacedAt
  <1>15. CASE Answered(w)
    BY <1>0, <1>15 DEF Answered, PlacedAt
  <1>16. CASE TimesOut(w)
    BY <1>0, <1>16 DEF TimesOut, PlacedAt
  <1>17. CASE TurnedDown(w)
    <2>1. wire' \subseteq Repairs \X Kinds
      BY <1>0, <1>17 DEF TurnedDown
    <2>2. CASE Done(w)
      BY <1>0, <1>17, <2>1, <2>2 DEF TurnedDown
    <2>3. CASE UNCHANGED <<at, kind, seen, todo, due>>
      BY <1>0, <1>17, <2>1, <2>3 DEF TurnedDown
    <2> QED BY <1>17, <2>2, <2>3 DEF TurnedDown
  <1>18. CASE SettlesAmbiguous(w)
    BY <1>0, <1>18 DEF SettlesAmbiguous, PlacedAt
  <1>19. CASE SettlesConfirmed(w)
    BY <1>0, <1>19 DEF SettlesConfirmed, PlacedAt
  <1>20. CASE WritesUrl(w)
    BY <1>0, <1>20 DEF WritesUrl, PlacedAt
  <1>21. CASE Parks(w)
    BY <1>0, <1>21 DEF Parks, PlacedAt
  <1>22. CASE Finishes(w)
    BY <1>0, <1>22 DEF Finishes, PlacedAt
  <1>23. CASE PollRunning(w)
    BY <1>0, <1>23 DEF PollRunning, PlacedAt
  <1>24. CASE PollParks(w)
    BY <1>0, <1>24 DEF PollParks, PlacedAt
  <1>25. CASE PollStops(w)
    BY <1>0, <1>25 DEF PollStops, PlacedAt
  <1>26. CASE Terminates(w)
    BY <1>0, <1>26 DEF Terminates, PlacedAt
  <1>27. CASE TerminationUnclear(w)
    BY <1>0, <1>27 DEF TerminationUnclear, PlacedAt
  <1>28. CASE Closes(w)
    BY <1>0, <1>28 DEF Closes, PlacedAt
  <1>29. CASE Releases(w)
    BY <1>0, <1>29 DEF Releases, PlacedAt
  <1>30. CASE Dies(w)
    BY <1>0, <1>30 DEF Dies, PlacedAt
  <1>31. CASE Rereads(w)
    BY <1>0, <1>31 DEF Rereads, PlacedAt
  <1>32. CASE Raises(w)
    BY <1>0, <1>32 DEF Raises, PlacedAt
  <1>33. CASE PollClassifies(w)
    BY <1>0, <1>33 DEF PollClassifies, PlacedAt
  <1> QED
    BY <1>1, <1>2, <1>3, <1>4, <1>5, <1>6, <1>7, <1>8, <1>9, <1>10, <1>11, <1>12,
    <1>13, <1>14, <1>15, <1>16, <1>17, <1>18, <1>19, <1>20, <1>21, <1>22, <1>23,
    <1>24, <1>25, <1>26, <1>27, <1>28, <1>29, <1>30, <1>31, <1>32, <1>33 DEF Work

LEMMA TypeStep == ASSUME IInv, [Next]_vars PROVE TypeOK'
  <1> USE RepairsAreIds, NoneIsNoRepair, LostAreRepairs
  <1>0. TypeOK
    BY DEF IInv
  <1>1. ASSUME NEW q \in Requests, NEW r \in Repairs, ConsiderLooks(q, r) PROVE TypeOK'
    BY <1>0, <1>1 DEF ConsiderLooks, TypeOK, db, remote, locals
  <1>2. ASSUME NEW q \in Requests, ConsiderUpserts(q) PROVE TypeOK'
    BY <1>0, <1>2 DEF ConsiderUpserts, TypeOK, RowStates, Deadlines, remote, locals
  <1>3. ASSUME NEW w \in Workers, Work(w) \/ Dies(w) PROVE TypeOK'
    BY <1>3, TypeWork
  <1>4. ASSUME NEW r \in Repairs, NEW k \in Kinds, Serve(r, k) PROVE TypeOK'
    BY <1>0, <1>4 DEF Serve, TypeOK, db, locals
  <1>5. CASE Clock
    <2>1. CASE ClaimAges
      BY <1>0, <2>1 DEF ClaimAges, TypeOK, remote, locals
    <2>2. ASSUME NEW r \in Repairs, DeadlinePasses(r) PROVE TypeOK'
      BY <1>0, <2>2 DEF DeadlinePasses, TypeOK, Deadlines, remote, locals
    <2>3. ASSUME NEW r \in Repairs, NEW k \in Kinds, IntentAges(r, k) PROVE TypeOK'
      BY <1>0, <2>3 DEF IntentAges, TypeOK, remote, locals
    <2> QED
      BY <1>5, <2>1, <2>2, <2>3 DEF Clock
  <1>6. CASE UNCHANGED vars
    BY <1>0, <1>6 DEF vars, TypeOK, db, remote, locals
  <1>7. ASSUME NEW r \in Repairs, Reports(r) PROVE TypeOK'
    BY <1>0, <1>7 DEF Reports, TypeOK, db, locals
  <1> QED
    BY <1>1, <1>2, <1>3, <1>4, <1>5, <1>6, <1>7 DEF Next, Consider

-----------------------------------------------------------------------------
(* The invariant holds. *)

LEMMA IInit == Init => IInv
  <1> SUFFICES ASSUME Init PROVE IInv
    OBVIOUS
  <1> USE DEF Init
  <1>1. TypeOK
    BY DEF TypeOK, Kinds, RowStates, IntentStates, Deadlines, Locations
  <1>2. AtMostOnce /\ RunningHoldsClaim
    BY DEF AtMostOnce, RunningHoldsClaim
  <1>3. ASSUME NEW w \in Workers PROVE PlacedAt(w) /\ KnownAt(w) /\ HeldAt(w)
    BY DEF PlacedAt, KnownAt, HeldAt, Dispatching
  <1>4. ASSUME NEW r \in Repairs PROVE Recorded(r)
    BY DEF Recorded, Kinds
  <1>5. ASSUME NEW r \in Repairs, NEW k \in Kinds PROVE Licensed(r, k) /\ Sent(r, k)
    BY DEF Licensed, Sent, Owner, Token
  <1> QED
    BY <1>1, <1>2, <1>3, <1>4, <1>5 DEF IInv

LEMMA IStep == IInv /\ [Next]_vars => IInv'
  <1> SUFFICES ASSUME IInv, [Next]_vars PROVE IInv'
    OBVIOUS
  <1>0. TypeOK' /\ TypeOK
    BY TypeStep DEF IInv
  <1>1. ASSUME NEW w \in Workers, Work(w) \/ Dies(w) PROVE IInv'
    <2>1. CASE Intend(w)
      BY <1>0, <2>1, IntendStep
    <2>2. CASE Create(w)
      BY <1>0, <2>2, CreateStep
    <2>3. CASE TurnedDown(w)
      BY <1>0, <2>3, TurnedDownStep
    <2>4. CASE ~Intend(w) /\ ~Create(w) /\ ~TurnedDown(w)
      <3>1. QuietShared /\ QuietLocal(w)
        BY <1>0, <1>1, <2>4, QuietAction
      <3>2. Frame(w)
        BY <1>0, <1>1, FrameStep
      <3> QED
        BY <1>0, <3>1, <3>2, QuietStep
    <2> QED BY <2>1, <2>2, <2>3, <2>4
  <1>2. ASSUME NEW r \in Repairs, NEW k \in Kinds, Serve(r, k) PROVE IInv'
    BY <1>0, <1>2, ServeStep
  <1>3. CASE Consider \/ Clock \/ UNCHANGED vars
    BY <1>0, <1>3, StillAction, StillStep
  <1>4. ASSUME NEW r \in Repairs, Reports(r) PROVE IInv'
    BY <1>0, <1>4, ReportsStep
  <1> QED
    BY <1>1, <1>2, <1>3, <1>4 DEF Next

\* The invariant holds of every behaviour: what the theorems below rest on.
LEMMA Invariance == Spec => []IInv
  BY IInit, IStep, PTL DEF Spec

\* Every variable keeps its type, for any repairs, workers and requests.
THEOREM TypeCorrect == Spec => []TypeOK
  <1>1. IInv => TypeOK
    BY DEF IInv
  <1> QED
    BY <1>1, Invariance, PTL

\* No marker ever names a second issue or a second session, whatever crashes,
\* lost replies, late deliveries and concurrent workers there are.
THEOREM CreatedAtMostOnce == Spec => []AtMostOnce
  <1>1. IInv => AtMostOnce
    BY DEF IInv
  <1> QED
    BY <1>1, Invariance, PTL

\* Every open session belongs to the repair that holds the one slot, or has
\* reported that there is no product defect.
THEOREM ClaimCoversRunning == Spec => []RunningHoldsClaim
  <1>1. IInv => RunningHoldsClaim
    BY DEF IInv
  <1> QED
    BY <1>1, Invariance, PTL

-----------------------------------------------------------------------------
(* The refinement. *)

LEMMA PromiseInit == Init => Promise!Init
  BY DEF Init, Promise!Init, Kinds

LEMMA QuietPromise == ASSUME IInv, IInv', QuietShared PROVE [Promise!Next]_(Promise!vars)
  <1> USE NoneIsNoRepair
  <1>0. reported' = reported
    BY DEF QuietShared
  <1>1. {r \in Repairs : made'[r]["issue"] > 0} = {r \in Repairs : made[r]["issue"] > 0}
    BY DEF QuietShared
  <1>2. {r \in Repairs : made'[r]["session"] > 0} = {r \in Repairs : made[r]["session"] > 0}
    BY DEF QuietShared
  <1>3. CASE UNCHANGED <<slot, live>>
    BY <1>0, <1>1, <1>2, <1>3 DEF Promise!vars
  <1>4. CASE slot = None /\ slot' \in Repairs /\ live' = live
    BY <1>0, <1>1, <1>2, <1>4 DEF Promise!Next, Promise!Take
  <1>5. CASE slot \in Repairs /\ slot' = None /\ live' = live
    <2>1. slot \notin live \ reported
      BY <1>5 DEF QuietShared
    <2> QED
      BY <1>0, <1>1, <1>2, <1>5, <2>1 DEF Promise!Next, Promise!Give
  <1>6. ASSUME slot' = slot, NEW r \in Repairs, live' = live \ {r}
        PROVE  [Promise!Next]_(Promise!vars)
    <2>1. CASE r \in live
      BY <1>0, <1>1, <1>2, <1>6, <2>1 DEF Promise!Next, Promise!End
    <2>2. CASE r \notin live
      BY <1>0, <1>1, <1>2, <1>6, <2>2 DEF Promise!vars
    <2> QED BY <2>1, <2>2
  <1> QED
    BY <1>3, <1>4, <1>5, <1>6 DEF QuietShared

LEMMA ServePromise == ASSUME IInv, NEW r \in Repairs, NEW k \in Kinds, Serve(r, k)
                      PROVE [Promise!Next]_(Promise!vars)
  <1>1. /\ slot = r /\ slot' = slot /\ made[r][k] = 0 /\ reported' = reported
        /\ k = "session" => made[r]["issue"] > 0
        /\ live' = IF k = "session" THEN live \cup {r} ELSE live
    BY DEF Serve, IInv, Sent, db
  <1>2. \A q \in Repairs, j \in Kinds :
            made'[q][j] = IF q = r /\ j = k THEN 1 ELSE made[q][j]
    BY <1>1 DEF Serve, IInv, TypeOK
  <1>3. CASE k = "issue"
    <2>1. {q \in Repairs : made'[q]["issue"] > 0} = {q \in Repairs : made[q]["issue"] > 0} \cup {r}
      BY <1>2, <1>3 DEF Kinds
    <2>2. {q \in Repairs : made'[q]["session"] > 0} = {q \in Repairs : made[q]["session"] > 0}
      BY <1>2, <1>3 DEF Kinds
    <2> QED
      BY <1>1, <1>3, <2>1, <2>2 DEF Promise!Next, Promise!File
  <1>4. CASE k = "session"
    <2>1. {q \in Repairs : made'[q]["session"] > 0}
              = {q \in Repairs : made[q]["session"] > 0} \cup {r}
      BY <1>2, <1>4 DEF Kinds
    <2>2. {q \in Repairs : made'[q]["issue"] > 0} = {q \in Repairs : made[q]["issue"] > 0}
      BY <1>2, <1>4 DEF Kinds
    <2> QED
      BY <1>1, <1>4, <2>1, <2>2 DEF Promise!Next, Promise!Open
  <1> QED BY <1>3, <1>4 DEF Kinds

LEMMA PromiseStep == IInv /\ IInv' /\ [Next]_vars => [Promise!Next]_(Promise!vars)
  <1> SUFFICES ASSUME IInv, IInv', [Next]_vars PROVE [Promise!Next]_(Promise!vars)
    OBVIOUS
  <1>0. TypeOK /\ TypeOK'
    BY DEF IInv
  <1>1. ASSUME NEW w \in Workers, Work(w) \/ Dies(w) PROVE [Promise!Next]_(Promise!vars)
    <2>1. CASE Intend(w) \/ Create(w) \/ TurnedDown(w)
      BY <2>1 DEF Intend, Create, TurnedDown, Promise!vars, db, remote
    <2>2. CASE ~Intend(w) /\ ~Create(w) /\ ~TurnedDown(w)
      <3>1. QuietShared
        BY <1>0, <1>1, <2>2, QuietAction
      <3> QED BY <3>1, QuietPromise
    <2> QED BY <2>1, <2>2
  <1>2. ASSUME NEW r \in Repairs, NEW k \in Kinds, Serve(r, k) PROVE [Promise!Next]_(Promise!vars)
    BY <1>2, ServePromise
  <1>3. CASE Consider \/ Clock \/ UNCHANGED vars
    BY <1>0, <1>3, StillAction DEF Promise!vars
  <1>4. ASSUME NEW r \in Repairs, Reports(r) PROVE [Promise!Next]_(Promise!vars)
    BY <1>4 DEF Reports, Promise!Next, Promise!Settle, db
  <1> QED
    BY <1>1, <1>2, <1>3, <1>4 DEF Next

\* Every behaviour of the dispatcher is one of SingleFlight: a repair takes the
\* claim, files one issue, opens one session, and gives the claim back only
\* when that session no longer runs or reported that there is nothing to repair.
THEOREM Implements == Spec => SingleFlightKept
  BY Invariance, PromiseInit, PromiseStep, PTL DEF Spec, SingleFlightKept, Promise!Spec

=============================================================================
