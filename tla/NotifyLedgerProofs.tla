-------------------------- MODULE NotifyLedgerProofs --------------------------
(***************************************************************************)
(* For any bounds and any messages published by hand: NotifyLedger is type *)
(* correct, records every outcome that is announced or recovered without   *)
(* an exception, counts nothing as sent before the repair has its thread,  *)
(* posts nothing twice that has no excuse, and implements Outbox.          *)
(***************************************************************************)
EXTENDS NotifyLedger, FiniteSetTheorems, TLAPS

USE DEF Procs

-----------------------------------------------------------------------------
(* Messages and decisions. *)

\* An id of a kind, a head and a cause is one of the ids.
LEMMA AboutTyped ==
    ASSUME NEW k \in Kinds, NEW h \in 0 .. LastHead, NEW w \in Causes
    PROVE  About(k, h, w) \in EventIds
  BY DEF About, EventIds

\* A message is one of the ids, or none.
LEMMA MessageTyped ==
    ASSUME NEW r \in Repairs, NEW a
    PROVE  MessageFor(a, r) \in EventIds \cup {Nothing}
  <1>1. r.head \in 0 .. LastHead /\ r.why \in Causes /\ 0 \in 0 .. LastHead /\ "" \in Causes
    <2>1. r.head \in 0 .. LastHead /\ r.why \in Causes
      BY DEF Repairs
    <2>2. 0 \in 0 .. LastHead
      BY BoundsAreNumbers
    <2>3. "" \in Causes
      BY DEF Causes
    <2> QED BY <2>1, <2>2, <2>3
  <1>2. \A k \in Kinds : Plain(k) \in EventIds /\ OfHead(k, r) \in EventIds
                                               /\ OfCause(k, r) \in EventIds
    BY <1>1, AboutTyped DEF Plain, OfHead, OfCause
  <1>3. {"session", "pr", "verified", "awaiting-merge", "merge-verified", "merge-failed",
         "blocked", "failed", "attention", "terminal"} \subseteq Kinds
    BY DEF Kinds
  <1>4. /\ Plain("session") \in EventIds /\ OfHead("pr", r) \in EventIds
        /\ OfHead("verified", r) \in EventIds /\ OfHead("awaiting-merge", r) \in EventIds
        /\ Plain("merge-verified") \in EventIds /\ Plain("merge-failed") \in EventIds
        /\ OfHead("blocked", r) \in EventIds /\ OfHead("failed", r) \in EventIds
        /\ OfCause("attention", r) \in EventIds /\ OfCause("terminal", r) \in EventIds
    BY <1>2, <1>3
  <1> QED BY <1>4 DEF MessageFor

\* Every state but the first has its message, and it tells of that state.
LEMMA StateTold ==
    ASSUME NEW r \in Repairs, r.state # "proposed"
    PROVE  /\ MessageForState(r) \in TellsOf(r)
           /\ Nothing \notin TellsOf(r)
  <1>1. MessageForState(r) # Nothing
    BY DEF MessageForState, ActionOf, MessageFor, Repairs, States,
           Nothing, Plain, OfHead, OfCause, About
  <1>2. MessageForState(r) \in TellsOf(r)
    BY DEF TellsOf
  <1>3. OfHead("blocked", r) # Nothing /\ OfHead("failed", r) # Nothing
        /\ Plain("merge-failed") # Nothing
    BY DEF Nothing, Plain, OfHead, About
  <1> QED BY <1>1, <1>2, <1>3 DEF TellsOf

\* The decisions that tell of the state they lead to.
Telling ==
    {<<"dispatched", "dispatched">>, <<"followed_up", "dispatched">>,
     <<"candidate", "candidate">>, <<"verified", "verified">>,
     <<"awaiting_merge", "awaiting_merge">>, <<"merge_verified", "merged">>,
     <<"parked", "needs_attention">>, <<"waiting", "needs_attention">>,
     <<"blocked", "needs_attention">>, <<"merge_failed", "needs_attention">>,
     <<"stopped", "terminal">>}

LEMMA TellingTold ==
    ASSUME NEW r \in Repairs, NEW a, <<a, r.state>> \in Telling
    PROVE  MessageFor(a, r) \in TellsOf(r)
  BY DEF Telling, MessageFor, MessageForState, ActionOf, TellsOf

\* A decision that changes the repair announces what it became, unless it
\* is a classification without a defect.
LEMMA DecisionTold ==
    ASSUME NEW r \in Repairs, NEW d \in Decisions(r)
    PROVE  /\ d.row \in Repairs
           /\ d.row # r => /\ d.row.state # "proposed"
                           /\ d.action = "classified"
                              \/ MessageFor(d.action, d.row) \in TellsOf(d.row)
  <1> DEFINE Good == /\ d.row \in Repairs
                     /\ \/ d.row = r
                        \/ /\ d.row.state # "proposed"
                           /\ \/ d.action = "classified"
                              \/ <<d.action, d.row.state>> \in Telling
  <1> SUFFICES Good
    BY TellingTold
  <1>0. /\ \A s \in {"proposed", "dispatched", "candidate", "verified", "awaiting_merge",
                     "merged", "needs_attention", "terminal"} : s \in States
        /\ \A w \in {"stuck", "unsettled", "no defect", "budget"} : w \in Causes
        /\ r.state \in States
    BY DEF States, Causes, Repairs
  <1>1. ASSUME NEW a, NEW s \in {"needs_attention", "terminal"},
               NEW w \in {"stuck", "unsettled", "no defect", "budget"},
               <<a, s>> \in Telling \/ a = "classified", d = Because(a, s, w, r)
        PROVE  Good
    <2>1. s \in States /\ w \in Causes
      BY DEF States, Causes
    <2>2. d.action = a /\ d.row \in Repairs /\ d.row.state = s /\ d.row.why = w
      BY <1>1, <2>1 DEF Because, Repairs
    <2> QED BY <1>1, <2>2
  <1>2. ASSUME NEW a, NEW s \in States \ {"proposed"}, <<a, s>> \in Telling, d = To(a, s, r)
        PROVE  Good
    <2>1. d.action = a /\ d.row \in Repairs /\ d.row.state = s
      BY <1>2 DEF To, Repairs
    <2> QED BY <1>2, <2>1
  <1>3. ASSUME NEW a, d = To(a, r.state, r)
        PROVE  Good
    BY <1>3 DEF To, Repairs
  <1>4. CASE d = Because("parked", "needs_attention", "unsettled", r)
    BY <1>1, <1>4 DEF Telling
  <1>5. CASE r.state = "proposed" /\ d \in Dispatches(r)
    <2>1. CASE d = To("dispatched", "dispatched", r)
      BY <1>0, <1>2, <2>1 DEF Telling
    <2>2. CASE d = Because("parked", "needs_attention", "stuck", r)
      BY <1>1, <2>2 DEF Telling
    <2> QED BY <1>5, <2>1, <2>2 DEF Dispatches
  <1>6. CASE r.state = "dispatched" /\ d \in Polls(r)
    <2>1. CASE \E h \in {r.head, r.head + 1} \cap (1 .. LastHead) :
                   d = To("candidate", "candidate", [r EXCEPT !.head = h])
      <3>1. PICK h \in {r.head, r.head + 1} \cap (1 .. LastHead) :
                   d = To("candidate", "candidate", [r EXCEPT !.head = h])
        BY <2>1
      <3> DEFINE q == [r EXCEPT !.head = h]
      <3>2. q \in Repairs
        BY BoundsAreNumbers DEF Repairs
      <3> HIDE DEF q
      <3>3. d.action = "candidate" /\ d.row \in Repairs /\ d.row.state = "candidate"
        BY <3>1, <3>2, <1>0 DEF q, To, Repairs
      <3> QED BY <3>3 DEF Telling
    <2>2. CASE d \in {To("running", "dispatched", r)}
      BY <1>3, <1>6, <2>2
    <2>3. CASE d \in {Because("waiting", "needs_attention", "stuck", r),
                      Because("parked", "needs_attention", "stuck", r),
                      Because("classified", "terminal", "no defect", r),
                      Because("stopped", "terminal", "budget", r)}
      BY <1>1, <2>3 DEF Telling
    <2> QED BY <1>6, <2>1, <2>2, <2>3 DEF Polls
  <1>7. CASE r.state = "candidate" /\ d \in Verifies(r)
    <2>1. CASE d = To("skipped", "candidate", r)
      BY <1>3, <1>7, <2>1
    <2>2. CASE d \in {To("awaiting_merge", "awaiting_merge", r), To("verified", "verified", r),
                      To("followed_up", "dispatched", r)}
      BY <1>0, <1>2, <2>2 DEF Telling
    <2>3. CASE d \in {Because("blocked", "needs_attention", "stuck", r),
                      Because("stopped", "terminal", "budget", r)}
      BY <1>1, <2>3 DEF Telling
    <2> QED BY <1>7, <2>1, <2>2, <2>3 DEF Verifies
  <1>8. CASE r.state = "awaiting_merge" /\ d \in Merges(r)
    BY <1>0, <1>1, <1>2, <1>8 DEF Merges, Telling
  <1>9. CASE d = To("parked", r.state, r)
    BY <1>3, <1>9
  <1> HIDE DEF Good
  <1> QED BY <1>4, <1>5, <1>6, <1>7, <1>8, <1>9 DEF Decisions

-----------------------------------------------------------------------------
(* Type correctness. *)

\* What publish() leaves of the ledger and of the process that called it.
Published(p, m, back) ==
    /\ ledger' \in Seq(Rows)
    /\ Len(ledger) <= Len(ledger')
    /\ pc' \in [Procs -> Locations]
    /\ job' \in [Procs -> [row: Nat, tries: Nat, back: {"resting", "retry", "next"}]]
    /\ pc'[p] \in {"post", "disable"} => job'[p].row \in 1 .. Len(ledger')
    /\ pc'[p] \in {"post", "disable", back}
    /\ \A q \in Procs \ {p} : pc'[q] = pc[q] /\ job'[q] = job[q]
    /\ m # Nothing => Known(m)'
    /\ \A i \in 1 .. Len(ledger) : ledger'[i] = ledger[i]
    /\ \A i \in 1 .. Len(ledger') : ledger'[i].st = "sent" =>
           i \in 1 .. Len(ledger) /\ ledger[i].st = "sent"

LEMMA PublishTyped ==
    ASSUME TypeOK, NEW p \in Procs, NEW m \in EventIds \cup {Nothing}, NEW on \in BOOLEAN,
           NEW back \in {"resting", "retry", "next"}, Publish(p, m, on, back)
    PROVE  Published(p, m, back)
  <1> USE DEF Published
  <1>1. CASE m = Nothing \/ Known(m)
    BY <1>1 DEF Publish, Goto, TypeOK, Locations, Known
  <1>2. CASE ~(m = Nothing \/ Known(m))
    <2>1. Row(m) \in Rows /\ Row(m).id = m /\ Row(m).st = "pending"
      BY <1>2 DEF Row, Rows
    <2>2. ledger' = Append(ledger, Row(m))
      BY <1>2 DEF Publish
    <2>3. /\ ledger' \in Seq(Rows) /\ Len(ledger') = Len(ledger) + 1
          /\ ledger'[Len(ledger) + 1] = Row(m)
          /\ \A i \in 1 .. Len(ledger) : ledger'[i] = ledger[i]
      BY <2>1, <2>2 DEF TypeOK
    <2>4. Known(m)'
      BY <2>1, <2>3 DEF Known
    <2>5. /\ pc' = [pc EXCEPT ![p] = IF on THEN "post" ELSE "disable"]
          /\ job' = [job EXCEPT ![p] = Work([row |-> Len(ledger) + 1, tries |-> 0], back)]
      BY <1>2 DEF Publish, Goto, Take
    <2>6. Len(ledger) \in Nat
      BY DEF TypeOK
    <2> QED BY <2>1, <2>3, <2>4, <2>5, <2>6 DEF TypeOK, Locations, Work
  <1> QED BY <1>1, <1>2

-----------------------------------------------------------------------------
(* The inductive invariant. *)

\* What the worker committed is owed a row, once the worker is past its
\* recovery, until the row is there; only the decision at hand can be behind.
Recording ==
    /\ owed => marked /\ fresh /\ repair.state # "proposed"
    /\ pc["worker"] \notin {"down", "recover"} => marked
    /\ owed /\ pc["worker"] \notin {"down", "recover"} =>
        Told \/ (pc["worker"] = "announce" /\ MessageFor(said, repair) \in TellsOf(repair))

\* Nobody settles a message as sent who has not seen the repair's thread.
Threading == SentThreaded /\ \A p \in Procs : pc[p] = "sent" => thread

IInv == TypeOK /\ Recording /\ Threading

\* Rows are only added, and keep their ids.
Grown ==
    /\ ledger' \in Seq(Rows)
    /\ Len(ledger) <= Len(ledger')
    /\ \A i \in 1 .. Len(ledger) : ledger'[i].id = ledger[i].id

\* No step can mark a row sent but the one from "sent".
NoneSent ==
    \A i \in DOMAIN ledger' : ledger'[i].st = "sent" =>
        i \in DOMAIN ledger /\ ledger[i].st = "sent"

LEMMA KnownStays ==
    ASSUME TypeOK, Grown
    PROVE  \A m : Known(m) => Known(m)'
  <1> SUFFICES ASSUME NEW m, Known(m)
               PROVE  \E i \in DOMAIN ledger' : ledger'[i].id = m
    BY DEF Known
  <1>1. PICK i \in DOMAIN ledger : ledger[i].id = m
    BY DEF Known
  <1>2. i \in 1 .. Len(ledger) /\ Len(ledger) \in Nat /\ Len(ledger') \in Nat
    BY DEF TypeOK, Grown
  <1>3. i \in DOMAIN ledger'
    BY <1>2 DEF Grown
  <1> QED BY <1>1, <1>2, <1>3 DEF Grown

\* A step that leaves the repair alone owes no new row.
LEMMA RecordingKept ==
    ASSUME TypeOK, Recording, Grown, UNCHANGED record,
           \/ pc'["worker"] \in {"down", "recover"}
           \/ pc["worker"] \notin {"down", "recover", "announce"}
           \/ pc'["worker"] = pc["worker"] /\ said' = said
    PROVE  Recording'
  <1>1. repair' = repair /\ owed' = owed /\ marked' = marked /\ fresh' = fresh
    BY DEF record
  <1>2. Told => Told'
    BY <1>1, KnownStays DEF Told
  <1>3. TellsOf(repair)' = TellsOf(repair)
    BY <1>1 DEF TellsOf, MessageForState
  <1> QED BY <1>1, <1>2, <1>3 DEF Recording

LEMMA ThreadingKept ==
    ASSUME Threading, thread => thread', NoneSent,
           \A p \in Procs : pc'[p] = "sent" => thread' \/ pc[p] = "sent"
    PROVE  Threading'
  BY DEF Threading, SentThreaded, NoneSent

-----------------------------------------------------------------------------
(* Steps that leave the ledger alone. *)

LEMMA LedgerAlone ==
    ASSUME TypeOK, UNCHANGED ledger
    PROVE  Grown /\ NoneSent
  BY DEF TypeOK, Grown, NoneSent

LEMMA StartStep == ASSUME IInv, Start PROVE IInv'
  <1>1. TypeOK'
    BY DEF IInv, Start, TypeOK, Goto, Locations, record, Attempting
  <1>2. Grown /\ NoneSent
    BY LedgerAlone DEF IInv, Start
  <1>3. Recording'
    BY <1>2, RecordingKept DEF IInv, Start, Goto, TypeOK
  <1>4. Threading'
    BY <1>2, ThreadingKept DEF IInv, Start, Goto, TypeOK
  <1> QED BY <1>1, <1>3, <1>4 DEF IInv

LEMMA QuietPassStep == ASSUME IInv, QuietPass PROVE IInv'
  <1>1. TypeOK'
    BY DEF IInv, QuietPass, TypeOK, Goto, Locations, record, Attempting
  <1>2. Grown /\ NoneSent
    BY LedgerAlone DEF IInv, QuietPass
  <1>3. Recording'
    BY <1>2, RecordingKept DEF IInv, QuietPass
  <1>4. Threading'
    BY <1>2, ThreadingKept DEF IInv, QuietPass, Goto, TypeOK
  <1> QED BY <1>1, <1>3, <1>4 DEF IInv

LEMMA RetryStep == ASSUME IInv, NEW waited \in BOOLEAN, Retry(waited) PROVE IInv'
  <1>0. due' \subseteq [row: 1 .. Len(ledger), tries: Nat]
    <2>1. ASSUME NEW i \in DOMAIN ledger
          PROVE  [row |-> i, tries |-> ledger[i].tries] \in [row: 1 .. Len(ledger), tries: Nat]
      <3>1. i \in 1 .. Len(ledger) /\ ledger[i] \in Rows
        BY DEF IInv, TypeOK
      <3> QED BY <3>1 DEF Rows
    <2>2. DueWhen(waited) \subseteq [row: 1 .. Len(ledger), tries: Nat]
      BY <2>1, Zenon DEF DueWhen
    <2> QED BY <2>2 DEF Retry
  <1>1. TypeOK'
    BY <1>0 DEF IInv, Retry, TypeOK, Goto, Locations, record, Attempting
  <1>2. Grown /\ NoneSent
    BY LedgerAlone DEF IInv, Retry
  <1>3. Recording'
    BY <1>2, RecordingKept DEF IInv, Retry
  <1>4. Threading'
    BY <1>2, ThreadingKept DEF IInv, Retry, Goto, TypeOK
  <1> QED BY <1>1, <1>3, <1>4 DEF IInv

LEMMA NextDueStep == ASSUME IInv, NextDue PROVE IInv'
  <1>1. PICK d \in due : /\ due' = due \ {d}
                         /\ Take("worker", Work(d, "next"))
                         /\ excuse' = IF Unaware(d.row) THEN excuse + 1 ELSE excuse
    BY DEF NextDue
  <1>2. d.row \in 1 .. Len(ledger) /\ d.row \in Nat /\ d.tries \in Nat
    BY DEF IInv, TypeOK
  <1>3. Work(d, "next") \in [row: Nat, tries: Nat, back: {"resting", "retry", "next"}]
        /\ Work(d, "next").row = d.row
    BY <1>2 DEF Work
  <1>4. TypeOK'
    BY <1>1, <1>2, <1>3 DEF IInv, NextDue, TypeOK, Goto, Take, Locations, record, Attempting
  <1>5. Grown /\ NoneSent
    BY LedgerAlone DEF IInv, NextDue
  <1>6. Recording'
    BY <1>5, RecordingKept DEF IInv, NextDue
  <1>7. Threading'
    BY <1>5, ThreadingKept DEF IInv, NextDue, Goto, TypeOK
  <1> QED BY <1>4, <1>6, <1>7 DEF IInv

LEMMA DeliveredStep == ASSUME IInv, Delivered PROVE IInv'
  <1>1. TypeOK'
    BY DEF IInv, Delivered, TypeOK, Goto, Locations, record, Attempting
  <1>2. Grown /\ NoneSent
    BY LedgerAlone DEF IInv, Delivered
  <1>3. Recording'
    BY <1>2, RecordingKept DEF IInv, Delivered
  <1>4. Threading'
    BY <1>2, ThreadingKept DEF IInv, Delivered, Goto, TypeOK
  <1> QED BY <1>1, <1>3, <1>4 DEF IInv

LEMMA PassStep == ASSUME IInv, Pass PROVE IInv'
  <1>1. PICK d \in Decisions(repair) :
            /\ repair' = d.row
            /\ said' = d.action
            /\ fresh' = (fresh \/ d.row # repair \/ d.action # "parked")
            /\ owed' = IF d.row = repair THEN owed ELSE d.action # "classified"
            /\ outcomes' = IF d.row = repair THEN outcomes ELSE outcomes + 1
    BY DEF Pass
  <1>2. /\ d.row \in Repairs
        /\ d.row # repair => /\ d.row.state # "proposed"
                             /\ d.action = "classified"
                                \/ MessageFor(d.action, d.row) \in TellsOf(d.row)
    BY DecisionTold DEF IInv, TypeOK
  <1>3. TypeOK'
    <2>1. outcomes' \in 0 .. MaxOutcomes
      BY <1>1, BoundsAreNumbers DEF IInv, Pass, TypeOK
    <2>2. fresh' \in BOOLEAN /\ owed' \in BOOLEAN
      BY <1>1 DEF IInv, TypeOK
    <2>3. repair' \in Repairs
      BY <1>1, <1>2
    <2> QED BY <2>1, <2>2, <2>3 DEF IInv, Pass, TypeOK, Goto, Locations, Attempting
  <1>4. Grown /\ NoneSent
    BY LedgerAlone DEF IInv, Pass
  <1>5. pc["worker"] = "resting" /\ pc'["worker"] = "announce" /\ marked' = marked
    BY DEF Pass, Goto, IInv, TypeOK
  <1>6. Recording'
    <2>1. CASE d.row = repair
      <3>1. Told => Told'
        BY <1>1, <1>4, <2>1, KnownStays DEF Told, IInv
      <3> QED BY <1>1, <1>5, <2>1, <3>1 DEF IInv, Recording
    <2>2. CASE d.row # repair
      <3>1. owed' => MessageFor(said, repair)' \in TellsOf(repair)'
        BY <1>1, <1>2, <2>2 DEF MessageFor, TellsOf
      <3> QED BY <1>1, <1>2, <1>5, <2>2, <3>1 DEF IInv, Recording
    <2> QED BY <2>1, <2>2
  <1>7. Threading'
    BY <1>4, ThreadingKept DEF IInv, Pass, Goto, TypeOK
  <1> QED BY <1>3, <1>6, <1>7 DEF IInv

LEMMA PassRaisesStep == ASSUME IInv, PassRaises PROVE IInv'
  <1>1. PICK row \in {repair, Because("parked", "needs_attention", "unsettled", repair).row} :
            /\ repair' = row
            /\ owed' = (owed /\ row = repair)
            /\ outcomes' = IF row = repair THEN outcomes ELSE outcomes + 1
    BY DEF PassRaises
  <1>2. /\ UNCHANGED <<excuse, marked, ledger, thread, wired, pc, job, said, due, trouble>>
        /\ fresh' = TRUE /\ outcomes' <= MaxOutcomes
    BY DEF PassRaises
  <1>3. row \in Repairs
    <2>1. Because("parked", "needs_attention", "unsettled", repair) \in Decisions(repair)
      BY DEF Decisions
    <2> QED BY <2>1, DecisionTold DEF IInv, TypeOK
  <1>4. Grown /\ NoneSent
    BY <1>2, LedgerAlone DEF IInv
  <1>5. TypeOK'
    <2>1. outcomes' \in 0 .. MaxOutcomes
      BY <1>1, <1>2, BoundsAreNumbers DEF IInv, TypeOK
    <2>2. owed' \in BOOLEAN
      BY <1>1
    <2> QED BY <1>1, <1>2, <1>3, <2>1, <2>2 DEF IInv, TypeOK, Attempting
  <1>6. Recording'
    <2>1. CASE row = repair
      <3>1. Told => Told'
        BY <1>1, <1>4, <2>1, KnownStays DEF Told, IInv
      <3> QED BY <1>1, <1>2, <2>1, <3>1 DEF IInv, Recording
    <2>2. CASE row # repair
      BY <1>1, <1>2, <2>2 DEF IInv, Recording
    <2> QED BY <2>1, <2>2
  <1>7. Threading'
    BY <1>2, <1>4, ThreadingKept DEF IInv
  <1> QED BY <1>5, <1>6, <1>7 DEF IInv

\* What is raised over leaves owed only what the ledger has.
LEMMA RecoverRaisesStep == ASSUME IInv, RecoverRaises PROVE IInv'
  <1>1. /\ owed' = (owed /\ Told) /\ repair' = repair /\ ledger' = ledger
        /\ marked' = TRUE /\ fresh' = (marked /\ fresh)
    BY DEF RecoverRaises, Watermark
  <1>2. TypeOK'
    BY <1>1 DEF IInv, RecoverRaises, TypeOK, Goto, Locations, Attempting
  <1>3. Grown /\ NoneSent
    BY <1>1, LedgerAlone DEF IInv
  <1>4. Told => Told'
    BY <1>1, <1>3, KnownStays DEF Told, IInv
  <1>5. Recording'
    BY <1>1, <1>4 DEF IInv, Recording, TypeOK
  <1>6. Threading'
    BY <1>3, ThreadingKept DEF IInv, RecoverRaises, Goto, TypeOK
  <1> QED BY <1>2, <1>5, <1>6 DEF IInv

LEMMA AnnounceRaisesStep == ASSUME IInv, AnnounceRaises PROVE IInv'
  <1>1. /\ owed' = (owed /\ Told) /\ repair' = repair /\ ledger' = ledger
        /\ marked' = marked /\ fresh' = fresh /\ pc["worker"] = "announce"
    BY DEF AnnounceRaises
  <1>2. TypeOK'
    BY <1>1 DEF IInv, AnnounceRaises, TypeOK, Goto, Locations, Attempting
  <1>3. Grown /\ NoneSent
    BY <1>1, LedgerAlone DEF IInv
  <1>4. Told => Told'
    BY <1>1, <1>3, KnownStays DEF Told, IInv
  <1>5. Recording'
    BY <1>1, <1>4 DEF IInv, Recording, TypeOK
  <1>6. Threading'
    BY <1>3, ThreadingKept DEF IInv, AnnounceRaises, Goto, TypeOK
  <1> QED BY <1>2, <1>5, <1>6 DEF IInv

-----------------------------------------------------------------------------
(* Steps that publish. *)

\* What publish() leaves, whichever process calls it.
LEMMA PublishStep ==
    ASSUME IInv, NEW p \in Procs, NEW m \in EventIds \cup {Nothing}, NEW on \in BOOLEAN,
           NEW back \in {"resting", "retry", "next"}, Publish(p, m, on, back)
    PROVE  /\ Grown /\ NoneSent
           /\ pc' \in [Procs -> Locations]
           /\ job' \in [Procs -> [row: Nat, tries: Nat, back: {"resting", "retry", "next"}]]
           /\ pc'[p] \in {"post", "disable", back}
           /\ \A q \in Procs \ {p} : pc'[q] = pc[q] /\ job'[q] = job[q]
           /\ \A q \in Procs : pc'[q] = "disable" \/ Attempting(q)' =>
                  job'[q].row \in 1 .. Len(ledger')
           /\ m # Nothing => Known(m)'
  <1>1. TypeOK
    BY DEF IInv
  <1>2. Published(p, m, back)
    BY <1>1, PublishTyped
  <1>3. /\ ledger \in Seq(Rows)
        /\ \A q \in Procs : pc[q] = "disable" \/ Attempting(q) =>
               job[q].row \in 1 .. Len(ledger)
    BY <1>1 DEF TypeOK
  <1>4. Grown /\ NoneSent
    <2>1. Grown
      BY <1>2 DEF Grown, Published
    <2>2. DOMAIN ledger = 1 .. Len(ledger) /\ DOMAIN ledger' = 1 .. Len(ledger')
      BY <1>2, <1>3 DEF Published
    <2> QED BY <1>2, <2>1, <2>2 DEF NoneSent, Published
  <1>5. ASSUME NEW q \in Procs, pc'[q] = "disable" \/ Attempting(q)'
        PROVE  job'[q].row \in 1 .. Len(ledger')
    <2>1. CASE q = p
      BY <1>2, <1>5, <2>1 DEF Attempting, Published
    <2>2. CASE q # p
      <3>1. job'[q].row = job[q].row /\ job[q].row \in 1 .. Len(ledger)
        BY <1>2, <1>3, <1>5, <2>2 DEF Attempting, Published
      <3>2. Len(ledger) \in Nat /\ Len(ledger') \in Nat
        BY <1>2, <1>3 DEF Published
      <3> QED BY <1>2, <3>1, <3>2 DEF Published
    <2> QED BY <2>1, <2>2
  <1> QED BY <1>2, <1>4, <1>5 DEF Published

LEMMA DueStays ==
    ASSUME TypeOK, Grown, due' = due
    PROVE  due' \subseteq [row: 1 .. Len(ledger'), tries: Nat]
  <1>1. Len(ledger) \in Nat /\ Len(ledger') \in Nat /\ Len(ledger) <= Len(ledger')
    BY DEF TypeOK, Grown
  <1>2. 1 .. Len(ledger) \subseteq 1 .. Len(ledger')
    BY <1>1
  <1> QED BY <1>2 DEF TypeOK

LEMMA RecoverStep == ASSUME IInv, Recover PROVE IInv'
  <1>1. MessageForState(repair) \in EventIds \cup {Nothing} /\ wired \in BOOLEAN
    BY MessageTyped DEF MessageForState, IInv, TypeOK
  <1>2. PICK missing \in EventIds \cup {Nothing}, on \in BOOLEAN :
            /\ missing = IF fresh' THEN MessageForState(repair) ELSE Nothing
            /\ Publish("worker", missing, on, "resting")
    BY <1>1 DEF Recover
  <1>3. /\ Grown /\ NoneSent
        /\ pc' \in [Procs -> Locations]
        /\ job' \in [Procs -> [row: Nat, tries: Nat, back: {"resting", "retry", "next"}]]
        /\ pc'["worker"] \in {"post", "disable", "resting"}
        /\ \A q \in Procs \ {"worker"} : pc'[q] = pc[q]
        /\ \A q \in Procs : pc'[q] = "disable" \/ Attempting(q)' =>
               job'[q].row \in 1 .. Len(ledger')
        /\ missing # Nothing => Known(missing)'
    BY <1>2, PublishStep
  <1>4. /\ UNCHANGED <<excuse, repair, thread, wired, said, due, trouble, outcomes>>
        /\ marked' = TRUE /\ fresh' = (marked /\ fresh)
        /\ owed' = (owed \/ (fresh' /\ repair.state # "proposed"))
    BY DEF Recover, Watermark
  <1>5. due' \subseteq [row: 1 .. Len(ledger'), tries: Nat]
    BY <1>3, <1>4, DueStays DEF IInv
  <1>6. TypeOK'
    <2>1. fresh' \in BOOLEAN /\ marked' \in BOOLEAN /\ owed' \in BOOLEAN
      BY <1>4 DEF IInv, TypeOK
    <2> QED BY <1>3, <1>4, <1>5, <2>1 DEF IInv, TypeOK, Grown
  <1>7. Recording'
    <2>1. owed' => marked' /\ fresh' /\ repair'.state # "proposed"
      BY <1>4 DEF IInv, Recording
    <2>2. ASSUME owed' PROVE Told'
      <3>1. fresh' /\ repair.state # "proposed"
        BY <1>4, <2>1, <2>2
      <3>2. missing = MessageForState(repair)
        BY <1>2, <3>1
      <3>3. missing \in TellsOf(repair) /\ missing # Nothing
        BY <3>1, <3>2, StateTold DEF IInv, TypeOK
      <3>4. TellsOf(repair)' = TellsOf(repair)
        BY <1>4 DEF TellsOf, MessageForState
      <3> QED BY <1>3, <3>3, <3>4 DEF Told
    <2> QED BY <1>4, <2>1, <2>2 DEF Recording
  <1>8. Threading'
    BY <1>3, <1>4, ThreadingKept DEF IInv
  <1> QED BY <1>6, <1>7, <1>8 DEF IInv

LEMMA AnnounceStep == ASSUME IInv, Announce PROVE IInv'
  <1>1. MessageFor(said, repair) \in EventIds \cup {Nothing} /\ wired \in BOOLEAN
    BY MessageTyped DEF IInv, TypeOK
  <1>2. PICK m \in EventIds \cup {Nothing}, on \in BOOLEAN :
            m = MessageFor(said, repair) /\ Publish("worker", m, on, "retry")
    BY <1>1 DEF Announce
  <1>3. /\ Grown /\ NoneSent
        /\ pc' \in [Procs -> Locations]
        /\ job' \in [Procs -> [row: Nat, tries: Nat, back: {"resting", "retry", "next"}]]
        /\ pc'["worker"] \in {"post", "disable", "retry"}
        /\ \A q \in Procs \ {"worker"} : pc'[q] = pc[q]
        /\ \A q \in Procs : pc'[q] = "disable" \/ Attempting(q)' =>
               job'[q].row \in 1 .. Len(ledger')
        /\ m # Nothing => Known(m)'
    BY <1>2, PublishStep
  <1>4. UNCHANGED <<excuse, repair, fresh, owed, marked, thread, wired, due, trouble, outcomes>>
        /\ pc["worker"] = "announce"
    BY DEF Announce, record
  <1>5. due' \subseteq [row: 1 .. Len(ledger'), tries: Nat]
    BY <1>3, <1>4, DueStays DEF IInv
  <1>6. TypeOK'
    BY <1>3, <1>4, <1>5 DEF IInv, TypeOK, Grown
  <1>7. Recording'
    <2>1. ASSUME owed PROVE Told'
      <3>1. TellsOf(repair)' = TellsOf(repair)
        BY <1>4 DEF TellsOf, MessageForState
      <3>2. CASE Told
        BY <1>3, <3>1, <3>2, KnownStays DEF Told, IInv
      <3>3. CASE m \in TellsOf(repair)
        <4>1. m # Nothing
          BY <2>1, <3>3, StateTold DEF IInv, TypeOK, Recording
        <4> QED BY <1>3, <3>1, <3>3, <4>1 DEF Told
      <3> QED BY <1>2, <1>4, <2>1, <3>2, <3>3 DEF IInv, Recording
    <2> QED BY <1>3, <1>4, <2>1 DEF IInv, Recording
  <1>8. Threading'
    BY <1>3, <1>4, ThreadingKept DEF IInv
  <1> QED BY <1>6, <1>7, <1>8 DEF IInv

LEMMA CommandStep == ASSUME IInv, Command PROVE IInv'
  <1>1. PICK b \in ByHand : Publish("command", About("by hand", 0, b), TRUE, "resting")
    BY DEF Command
  <1>2. About("by hand", 0, b) \in EventIds
    <2>1. "by hand" \in Kinds /\ b \in Causes
      BY DEF Kinds, Causes
    <2>2. 0 \in 0 .. LastHead
      BY BoundsAreNumbers
    <2> QED BY <2>1, <2>2, AboutTyped
  <1>3. /\ Grown /\ NoneSent
        /\ pc' \in [Procs -> Locations]
        /\ job' \in [Procs -> [row: Nat, tries: Nat, back: {"resting", "retry", "next"}]]
        /\ pc'["command"] \in {"post", "disable", "resting"}
        /\ \A q \in Procs \ {"command"} : pc'[q] = pc[q]
        /\ \A q \in Procs : pc'[q] = "disable" \/ Attempting(q)' =>
               job'[q].row \in 1 .. Len(ledger')
    BY <1>1, <1>2, PublishStep
  <1>4. /\ UNCHANGED <<excuse, repair, fresh, owed, marked, thread, wired, said, due, outcomes>>
        /\ trouble' = trouble + 1 /\ trouble < MaxTrouble
    BY DEF Command, record
  <1>5. due' \subseteq [row: 1 .. Len(ledger'), tries: Nat]
    BY <1>3, <1>4, DueStays DEF IInv
  <1>6. TypeOK'
    <2>1. trouble' \in 0 .. MaxTrouble
      BY <1>4, BoundsAreNumbers DEF IInv, TypeOK
    <2> QED BY <1>3, <1>4, <1>5, <2>1 DEF IInv, TypeOK, Grown
  <1>7. Recording'
    BY <1>3, <1>4, RecordingKept DEF IInv, record
  <1>8. Threading'
    BY <1>3, <1>4, ThreadingKept DEF IInv
  <1> QED BY <1>6, <1>7, <1>8 DEF IInv

-----------------------------------------------------------------------------
(* Attempts. *)

\* A row changed in place.
LEMMA RowChanged ==
    ASSUME TypeOK, NEW i \in 1 .. Len(ledger), NEW row \in Rows, row.id = ledger[i].id,
           ledger' = [ledger EXCEPT ![i] = row]
    PROVE  /\ Grown /\ Len(ledger') = Len(ledger)
           /\ (row.st = "sent" => ledger[i].st = "sent") => NoneSent
  <1>1. ledger \in Seq(Rows)
    BY DEF TypeOK
  <1>2. /\ ledger' \in Seq(Rows) /\ Len(ledger') = Len(ledger)
        /\ DOMAIN ledger' = DOMAIN ledger /\ DOMAIN ledger = 1 .. Len(ledger)
        /\ Len(ledger) \in Nat
        /\ ledger'[i] = row
        /\ \A k \in 1 .. Len(ledger) : k # i => ledger'[k] = ledger[k]
    BY <1>1
  <1> QED BY <1>2 DEF Grown, NoneSent

LEMMA ReturnTyped ==
    ASSUME TypeOK, NEW p \in Procs, Return(p)
    PROVE  /\ pc' \in [Procs -> Locations]
           /\ job' \in [Procs -> [row: Nat, tries: Nat, back: {"resting", "retry", "next"}]]
           /\ pc'[p] \in {"resting", "retry", "next"}
           /\ \A q \in Procs \ {p} : pc'[q] = pc[q] /\ job'[q] = job[q]
  <1>1. NoJob \in [row: Nat, tries: Nat, back: {"resting", "retry", "next"}]
    BY DEF NoJob
  <1>2. job[p].back \in {"resting", "retry", "next"}
    BY DEF TypeOK
  <1>3. pc' = [pc EXCEPT ![p] = job[p].back] /\ job' = [job EXCEPT ![p] = NoJob]
    BY DEF Return, Goto, Take
  <1>4. job[p].back \in Locations
    BY <1>2 DEF Locations
  <1> QED BY <1>1, <1>2, <1>3, <1>4 DEF TypeOK

\* A process at an attempt has a row to work on, and the worker of one is past
\* its recovery and its announcement.
LEMMA AttemptPlaced ==
    ASSUME TypeOK, NEW p \in Procs, pc[p] = "disable" \/ Attempting(p)
    PROVE  /\ job[p].row \in 1 .. Len(ledger)
           /\ ledger[job[p].row] \in Rows
           /\ pc["worker"] \notin {"down", "recover", "announce"} \/ p = "command"
  BY DEF TypeOK, Attempting

\* Either outcome of an attempt is written and the process goes on.
LEMMA SettledStep ==
    ASSUME IInv, NEW p \in Procs, pc[p] = "disable" \/ Attempting(p),
           Grown, Len(ledger') = Len(ledger), Return(p),
           SentThreaded',
           UNCHANGED <<record, thread, wired, said, due, trouble, outcomes>>, excuse' \in Int
    PROVE  IInv'
  <1>1. /\ pc' \in [Procs -> Locations]
        /\ job' \in [Procs -> [row: Nat, tries: Nat, back: {"resting", "retry", "next"}]]
        /\ pc'[p] \in {"resting", "retry", "next"}
        /\ \A q \in Procs \ {p} : pc'[q] = pc[q] /\ job'[q] = job[q]
    BY ReturnTyped DEF IInv
  <1>2. TypeOK'
    <2>1. \A q \in Procs : pc'[q] = "disable" \/ Attempting(q)' =>
              job'[q].row \in 1 .. Len(ledger')
      BY <1>1 DEF IInv, TypeOK, Attempting
    <2>2. ledger' \in Seq(Rows)
      BY DEF Grown
    <2> QED BY <1>1, <2>1, <2>2 DEF IInv, TypeOK, record
  <1>3. Recording'
    <2>1. \/ pc["worker"] \notin {"down", "recover", "announce"}
          \/ pc'["worker"] = pc["worker"]
      BY <1>1, AttemptPlaced DEF IInv
    <2> QED BY <2>1, RecordingKept DEF IInv
  <1>4. Threading'
    BY <1>1 DEF IInv, Threading
  <1> QED BY <1>2, <1>3, <1>4 DEF IInv

LEMMA SettleStep ==
    ASSUME IInv, NEW p \in Procs, pc[p] \in {"post", "sent", "disable"},
           NEW st \in {"pending", "sent", "failed", "disabled"}, NEW tried \in {0, 1},
           st = "sent" => pc[p] = "sent", Settle(p, st, tried)
    PROVE  IInv'
  <1>1. TypeOK /\ (pc[p] = "disable" \/ Attempting(p))
    BY DEF IInv, Attempting
  <1>2. PICK i \in 1 .. Len(ledger) : i = job[p].row /\ ledger[i] \in Rows
    BY <1>1, AttemptPlaced
  <1>3. PICK row : row = [ledger[i] EXCEPT !.st = st, !.tries = @ + tried]
    OBVIOUS
  <1>4. row \in Rows /\ row.id = ledger[i].id /\ row.st = st
    <2>1. ledger[i].tries + tried \in Nat
      BY <1>2 DEF Rows
    <2> QED BY <1>2, <1>3, <2>1 DEF Rows
  <1>5. ledger' = [ledger EXCEPT ![i] = row]
    BY <1>2, <1>3 DEF Settle
  <1>6. Grown /\ Len(ledger') = Len(ledger) /\ (st # "sent" => NoneSent)
    BY <1>1, <1>4, <1>5, RowChanged
  <1>7. /\ Return(p)
        /\ UNCHANGED <<record, thread, wired, said, due, trouble, outcomes>>
        /\ excuse' \in Int
    BY <1>1 DEF Settle, TypeOK
  <1>8. SentThreaded'
    BY <1>6, <1>7 DEF IInv, Threading, SentThreaded, NoneSent
  <1> QED BY <1>1, <1>6, <1>7, <1>8, SettledStep

LEMMA UnansweredStep == ASSUME IInv, NEW p \in Procs, Unanswered(p) PROVE IInv'
  <1>1. TypeOK /\ Attempting(p)
    BY DEF IInv, Unanswered, Attempting
  <1>2. PICK i \in 1 .. Len(ledger) : i = job[p].row /\ ledger[i] \in Rows
    BY <1>1, AttemptPlaced
  <1>3. PICK row : row = [ledger[i] EXCEPT !.posted = TRUE, !.st = "unknown", !.tries = @ + 1]
    OBVIOUS
  <1>4. row \in Rows /\ row.id = ledger[i].id /\ row.st = "unknown"
    <2>1. ledger[i].tries + 1 \in Nat
      BY <1>2 DEF Rows
    <2> QED BY <1>2, <1>3, <2>1 DEF Rows
  <1>5. ledger' = [ledger EXCEPT ![i] = row]
    BY <1>2, <1>3 DEF Unanswered
  <1>6. Grown /\ Len(ledger') = Len(ledger) /\ NoneSent
    BY <1>1, <1>4, <1>5, RowChanged
  <1>7. /\ Return(p)
        /\ UNCHANGED <<record, thread, wired, said, due, trouble, outcomes>>
        /\ excuse' \in Int
    BY <1>1 DEF Unanswered, TypeOK, Twice
  <1>8. SentThreaded'
    BY <1>6, <1>7 DEF IInv, Threading, SentThreaded, NoneSent
  <1> QED BY <1>1, <1>6, <1>7, <1>8, SettledStep

\* The message may be in the channel from here on.
LEMMA PostedTyped ==
    ASSUME TypeOK, NEW p \in Procs, pc[p] = "post",
           ledger' = [ledger EXCEPT ![job[p].row].posted = TRUE]
    PROVE  Grown /\ Len(ledger') = Len(ledger) /\ NoneSent
  <1>1. PICK i \in 1 .. Len(ledger) : i = job[p].row /\ ledger[i] \in Rows
    BY AttemptPlaced DEF Attempting
  <1>2. PICK row : row = [ledger[i] EXCEPT !.posted = TRUE]
    OBVIOUS
  <1>3. row \in Rows /\ row.id = ledger[i].id /\ row.st = ledger[i].st
    BY <1>1, <1>2 DEF Rows
  <1>4. ledger' = [ledger EXCEPT ![i] = row]
    BY <1>1, <1>2
  <1> QED BY <1>3, <1>4, RowChanged

LEMMA AnsweredStep == ASSUME IInv, NEW p \in Procs, Answered(p) PROVE IInv'
  <1>1. TypeOK /\ pc[p] = "post" /\ Attempting(p)
    BY DEF IInv, Answered, Attempting
  <1>2. Grown /\ Len(ledger') = Len(ledger) /\ NoneSent
    BY <1>1, PostedTyped DEF Answered
  <1>3. /\ pc' = [pc EXCEPT ![p] = IF thread THEN "sent" ELSE "adopt"]
        /\ UNCHANGED <<record, thread, wired, job, said, due, trouble, outcomes>>
        /\ excuse' \in Int
    BY <1>1 DEF Answered, Goto, TypeOK, Twice
  <1>4. TypeOK'
    <2>1. ledger' \in Seq(Rows)
      BY <1>2 DEF Grown
    <2>2. pc' \in [Procs -> Locations]
      BY <1>1, <1>3 DEF TypeOK, Locations
    <2>3. \A q \in Procs : pc'[q] = "disable" \/ Attempting(q)' => job'[q].row \in 1 .. Len(ledger')
      BY <1>1, <1>2, <1>3 DEF TypeOK, Attempting
    <2> QED BY <1>2, <1>3, <2>1, <2>2, <2>3 DEF IInv, TypeOK, record
  <1>5. Recording'
    <2>1. pc["worker"] \notin {"down", "recover", "announce"} \/ pc'["worker"] = pc["worker"]
      BY <1>1, <1>3, AttemptPlaced DEF TypeOK
    <2> QED BY <1>2, <1>3, <2>1, RecordingKept DEF IInv
  <1>6. Threading'
    BY <1>1, <1>2, <1>3, ThreadingKept DEF IInv, TypeOK
  <1> QED BY <1>4, <1>5, <1>6 DEF IInv

LEMMA AdoptStep == ASSUME IInv, NEW p \in Procs, Adopt(p) PROVE IInv'
  <1>1. TypeOK /\ pc[p] = "adopt" /\ Attempting(p) /\ UNCHANGED ledger
    BY DEF IInv, Adopt, Attempting
  <1>2. Grown /\ NoneSent
    BY <1>1, LedgerAlone
  <1>3. /\ pc' = [pc EXCEPT ![p] = "sent"] /\ thread' = TRUE
        /\ UNCHANGED <<excuse, record, wired, job, said, due, trouble, outcomes>>
    BY DEF Adopt, Goto
  <1>4. TypeOK'
    <2>1. pc' \in [Procs -> Locations]
      BY <1>1, <1>3 DEF TypeOK, Locations
    <2>2. \A q \in Procs : pc'[q] = "disable" \/ Attempting(q)' => job'[q].row \in 1 .. Len(ledger')
      BY <1>1, <1>3 DEF TypeOK, Attempting
    <2> QED BY <1>1, <1>3, <2>1, <2>2 DEF IInv, TypeOK, record
  <1>5. Recording'
    <2>1. pc["worker"] \notin {"down", "recover", "announce"} \/ pc'["worker"] = pc["worker"]
      BY <1>1, <1>3, AttemptPlaced DEF TypeOK
    <2> QED BY <1>2, <1>3, <2>1, RecordingKept DEF IInv
  <1>6. Threading'
    BY <1>2, <1>3, ThreadingKept DEF IInv
  <1> QED BY <1>4, <1>5, <1>6 DEF IInv

LEMMA DeliverStep == ASSUME IInv, NEW p \in Procs, Deliver(p) PROVE IInv'
  <1>1. CASE Answered(p)
    BY <1>1, AnsweredStep
  <1>2. CASE Adopt(p)
    BY <1>2, AdoptStep
  <1>3. CASE Sent(p)
    BY <1>3, SettleStep DEF Sent
  <1>4. CASE Unanswered(p)
    BY <1>4, UnansweredStep
  <1>5. CASE Rejected(p)
    <2>1. PICK st \in {"failed", "pending"} : pc[p] = "post" /\ Settle(p, st, 1)
      BY <1>5 DEF Rejected
    <2> QED BY <2>1, SettleStep
  <1>6. CASE Disable(p)
    BY <1>6, SettleStep DEF Disable
  <1> QED BY <1>1, <1>2, <1>3, <1>4, <1>5, <1>6 DEF Deliver

LEMMA KillStep == ASSUME IInv, NEW p \in Procs, Kill(p) PROVE IInv'
  <1>1. TypeOK
    BY DEF IInv
  <1>2. Grown /\ Len(ledger') = Len(ledger) /\ NoneSent
    <2>1. CASE pc[p] = "post"
      BY <1>1, <2>1, PostedTyped DEF Kill
    <2>2. CASE pc[p] # "post"
      BY <1>1, <2>2, LedgerAlone DEF Kill
    <2> QED BY <2>1, <2>2
  <1>3. /\ job' = [job EXCEPT ![p] = NoJob]
        /\ pc' = [pc EXCEPT ![p] = IF p = "worker" THEN "down" ELSE "resting"]
        /\ due' = due \/ due' = {}
        /\ p = "command" => said' = said
        /\ trouble' = trouble + 1 /\ trouble < MaxTrouble
        /\ UNCHANGED <<record, thread, wired, outcomes>>
    BY DEF Kill, Take, Goto
  <1>4. TypeOK'
    <2>1. ledger' \in Seq(Rows) /\ trouble' \in 0 .. MaxTrouble
      BY <1>1, <1>2, <1>3, BoundsAreNumbers DEF Grown, TypeOK
    <2>2. pc' \in [Procs -> Locations]
      BY <1>1, <1>3 DEF TypeOK, Locations
    <2>3. job' \in [Procs -> [row: Nat, tries: Nat, back: {"resting", "retry", "next"}]]
      BY <1>1, <1>3 DEF TypeOK, NoJob
    <2>4. \A q \in Procs : pc'[q] = "disable" \/ Attempting(q)' => job'[q].row \in 1 .. Len(ledger')
      BY <1>1, <1>2, <1>3 DEF TypeOK, Attempting
    <2>5. excuse' \in Int
      BY <1>1 DEF Kill, TypeOK, Twice
    <2>6. due' \subseteq [row: 1 .. Len(ledger'), tries: Nat]
      BY <1>1, <1>2, <1>3 DEF TypeOK
    <2> QED BY <1>1, <1>3, <2>1, <2>2, <2>3, <2>4, <2>5, <2>6 DEF TypeOK, record
  <1>5. Recording'
    <2>1. \/ pc'["worker"] \in {"down", "recover"}
          \/ pc'["worker"] = pc["worker"] /\ said' = said
      <3>1. CASE p = "worker"
        BY <1>1, <1>3, <3>1 DEF TypeOK
      <3>2. CASE p = "command"
        BY <1>1, <1>3, <3>2 DEF TypeOK
      <3> QED BY <3>1, <3>2
    <2> QED BY <1>2, <1>3, <2>1, RecordingKept DEF IInv
  <1>6. Threading'
    BY <1>1, <1>2, <1>3, ThreadingKept DEF IInv, TypeOK
  <1> QED BY <1>4, <1>5, <1>6 DEF IInv

-----------------------------------------------------------------------------
(* The theorems. *)

LEMMA InitHolds == Init => IInv
  <1> SUFFICES ASSUME Init PROVE IInv
    OBVIOUS
  <1>1. pc = [p \in Procs |-> IF p = "worker" THEN "down" ELSE "resting"]
        /\ job = [p \in Procs |-> NoJob]
    BY DEF Init
  <1>2. repair \in Repairs
    <2>1. \A s \in States, h \in 0 .. LastHead : At(s, h) \in Repairs
      BY DEF At, Repairs, Causes
    <2>2. {"proposed", "dispatched", "candidate", "awaiting_merge"} \subseteq States
      BY DEF States
    <2>3. 0 \in 0 .. LastHead /\ 1 .. LastHead \subseteq 0 .. LastHead
      BY BoundsAreNumbers
    <2> QED BY <2>1, <2>2, <2>3 DEF Init, Older, Announced
  <1>3. ledger \in Seq(Rows) /\ ((\E i \in DOMAIN ledger : ledger[i].st = "sent") => thread)
    <2>1. CASE Older
      BY <2>1 DEF Older
    <2>2. CASE Announced
      <3>1. PICK row : row = [Row(MessageForState(repair)) EXCEPT !.st = "sent", !.tries = 1,
                                                                 !.posted = TRUE]
        OBVIOUS
      <3>2. MessageForState(repair) \in EventIds
        <4>1. PICK h \in 1 .. LastHead : repair = At("awaiting_merge", h)
          BY <2>2 DEF Announced
        <4>2. repair.state = "awaiting_merge"
          BY <4>1 DEF At
        <4>3. MessageForState(repair) # Nothing
          BY <1>2, <4>2, StateTold
        <4> QED BY <1>2, <4>3, MessageTyped DEF MessageForState
      <3>3. row \in Rows
        BY <3>1, <3>2 DEF Row, Rows
      <3> QED BY <2>2, <3>1, <3>3 DEF Announced
    <2> QED BY <2>1, <2>2 DEF Init
  <1>4. TypeOK
    <2>1. /\ fresh \in BOOLEAN /\ owed \in BOOLEAN /\ marked \in BOOLEAN /\ thread \in BOOLEAN
          /\ wired \in BOOLEAN
      BY DEF Init, Older, Announced
    <2>2. pc \in [Procs -> Locations] /\ \A p \in Procs : pc[p] \in {"down", "resting"}
      BY <1>1 DEF Locations
    <2>3. job \in [Procs -> [row: Nat, tries: Nat, back: {"resting", "retry", "next"}]]
      BY <1>1 DEF NoJob
    <2>4. excuse \in Int /\ trouble \in 0 .. MaxTrouble /\ outcomes \in 0 .. MaxOutcomes
          /\ due = {}
      BY BoundsAreNumbers DEF Init
    <2> QED BY <1>2, <1>3, <2>1, <2>2, <2>3, <2>4 DEF TypeOK, Attempting
  <1>5. Recording
    <2>1. pc["worker"] = "down"
      BY <1>1
    <2>2. owed => marked /\ fresh /\ repair.state # "proposed"
      <3>1. CASE Older
        BY <3>1 DEF Older
      <3>2. CASE Announced
        <4>1. PICK h \in 1 .. LastHead : repair = At("awaiting_merge", h)
          BY <3>2 DEF Announced
        <4> QED BY <3>2, <4>1 DEF Announced, At
      <3> QED BY <3>1, <3>2 DEF Init
    <2> QED BY <2>1, <2>2 DEF Recording
  <1>6. Threading
    BY <1>1, <1>3 DEF Threading, SentThreaded
  <1> QED BY <1>4, <1>5, <1>6 DEF IInv

LEMMA StepHolds == IInv /\ [Next]_vars => IInv'
  <1> SUFFICES ASSUME IInv, [Next]_vars PROVE IInv'
    OBVIOUS
  <1>1. CASE Worker
    BY <1>1, StartStep, RecoverStep, PassStep, QuietPassStep, AnnounceStep, RetryStep,
       NextDueStep, DeliveredStep, DeliverStep DEF Worker
  <1>2. CASE Command
    BY <1>2, CommandStep
  <1>3. CASE Deliver("command")
    BY <1>3, DeliverStep
  <1>4. CASE \E p \in Procs : Kill(p)
    BY <1>4, KillStep
  <1>5. CASE PassRaises
    BY <1>5, PassRaisesStep
  <1>7. CASE RecoverRaises
    BY <1>7, RecoverRaisesStep
  <1>8. CASE AnnounceRaises
    BY <1>8, AnnounceRaisesStep
  <1>6. CASE UNCHANGED vars
    BY <1>6 DEF vars, record, IInv, TypeOK, Attempting, Recording, Told, Known, TellsOf,
                MessageForState, Threading, SentThreaded
  <1> QED BY <1>1, <1>2, <1>3, <1>4, <1>5, <1>6, <1>7, <1>8 DEF Next

LEMMA Inductive == Spec => []IInv
  BY InitHolds, StepHolds, PTL DEF Spec

\* Every variable keeps its type and every process a row that exists, whatever
\* the bounds and however many messages are published by hand.
THEOREM TypeCorrect == Spec => []TypeOK
  BY Inductive, PTL DEF IInv

\* Whatever crashes between a commit and its message, and however often: when
\* the worker rests, the outcome committed last has a row of the ledger, unless its
\* announcement or its recovery raised and was swallowed (_announce, reconcile), or
\* it is one that is announced only at the next start.
THEOREM OutcomesRecorded == Spec => []OutcomeRecorded
  <1>1. IInv => OutcomeRecorded
    BY DEF IInv, Recording, Told, OutcomeRecorded
  <1> QED BY <1>1, Inductive, PTL

\* No message counts as sent before the repair has a thread for the next one,
\* whichever of the two processes delivered it and wherever either died.
THEOREM SentHaveThread == Spec => []SentThreaded
  BY Inductive, PTL DEF IInv, Threading

-----------------------------------------------------------------------------
(* The ledger and the attempts agree. *)

\* Who got an answer posted the message, and so was what counts as sent.
Aired ==
    /\ \A p \in Procs : pc[p] \in {"adopt", "sent"} => ledger[job[p].row].posted
    /\ \A i \in DOMAIN ledger : ledger[i].st = "sent" => ledger[i].posted

\* A message that is not to be posted is nobody's but the worker's.
Apart ==
    /\ pc["command"] # "disable"
    /\ pc["worker"] = "disable" =>
          /\ ledger[job["worker"].row].st = "pending"
          /\ ~ledger[job["worker"].row].posted
          /\ Attempting("command") => job["command"].row # job["worker"].row

\* An event has one row: the unique index.
Unique == \A i, j \in DOMAIN ledger : ledger[i].id = ledger[j].id => i = j

Orderly == Aired /\ Apart /\ Unique

\* Of the ledger only this row changes, and not its id.
Edited(i) ==
    /\ i \in 1 .. Len(ledger)
    /\ Len(ledger') = Len(ledger)
    /\ \A k \in 1 .. Len(ledger) : k # i => ledger'[k] = ledger[k]
    /\ ledger'[i].id = ledger[i].id

\* Only one process moves.
Alone(p) == \A q \in Procs \ {p} : pc'[q] = pc[q] /\ job'[q] = job[q]

LEMMA EditedRow ==
    ASSUME TypeOK, NEW i \in 1 .. Len(ledger), NEW row, row.id = ledger[i].id,
           ledger' = [ledger EXCEPT ![i] = row]
    PROVE  Edited(i) /\ ledger'[i] = row
  <1>1. ledger \in Seq(Rows)
    BY DEF TypeOK
  <1>2. /\ Len(ledger') = Len(ledger) /\ ledger'[i] = row
        /\ \A k \in 1 .. Len(ledger) : k # i => ledger'[k] = ledger[k]
    BY <1>1
  <1> QED BY <1>2 DEF Edited

\* What an answer, none and a settlement write.
LEMMA AnsweredRow ==
    ASSUME TypeOK, NEW p \in Procs, pc[p] = "post",
           ledger' = [ledger EXCEPT ![job[p].row].posted = TRUE]
    PROVE  /\ Edited(job[p].row) /\ ledger'[job[p].row].posted
           /\ ledger'[job[p].row].st = ledger[job[p].row].st
  <1>1. PICK i \in 1 .. Len(ledger) : i = job[p].row /\ ledger[i] \in Rows
    BY AttemptPlaced DEF Attempting
  <1>2. PICK row : row = [ledger[i] EXCEPT !.posted = TRUE]
    OBVIOUS
  <1>3. row.posted /\ row.id = ledger[i].id /\ row.st = ledger[i].st
    BY <1>1, <1>2 DEF Rows
  <1>4. ledger' = [ledger EXCEPT ![i] = row]
    BY <1>1, <1>2
  <1> QED BY <1>1, <1>3, <1>4, EditedRow

LEMMA UnansweredRow ==
    ASSUME TypeOK, NEW p \in Procs, Unanswered(p)
    PROVE  /\ Edited(job[p].row) /\ ledger'[job[p].row].posted
           /\ ledger'[job[p].row].st = "unknown"
  <1>1. PICK i \in 1 .. Len(ledger) : i = job[p].row /\ ledger[i] \in Rows
    BY AttemptPlaced DEF Attempting, Unanswered
  <1>2. PICK row : row = [ledger[i] EXCEPT !.posted = TRUE, !.st = "unknown", !.tries = @ + 1]
    OBVIOUS
  <1>3. row.posted /\ row.id = ledger[i].id /\ row.st = "unknown"
    BY <1>1, <1>2 DEF Rows
  <1>4. ledger' = [ledger EXCEPT ![i] = row]
    BY <1>1, <1>2 DEF Unanswered, TypeOK
  <1> QED BY <1>1, <1>3, <1>4, EditedRow

LEMMA SettledRow ==
    ASSUME TypeOK, NEW p \in Procs, pc[p] = "disable" \/ Attempting(p),
           NEW st, NEW tried, Settle(p, st, tried)
    PROVE  /\ Edited(job[p].row) /\ ledger'[job[p].row].st = st
           /\ ledger'[job[p].row].posted = ledger[job[p].row].posted
  <1>1. PICK i \in 1 .. Len(ledger) : i = job[p].row /\ ledger[i] \in Rows
    BY AttemptPlaced
  <1>2. PICK row : row = [ledger[i] EXCEPT !.st = st, !.tries = @ + tried]
    OBVIOUS
  <1>3. row.posted = ledger[i].posted /\ row.id = ledger[i].id /\ row.st = st
    BY <1>1, <1>2 DEF Rows
  <1>4. ledger' = [ledger EXCEPT ![i] = row]
    BY <1>1, <1>2 DEF Settle, TypeOK
  <1> QED BY <1>1, <1>3, <1>4, EditedRow

\* A process writes to the row it attempts.
LEMMA EditKeeps ==
    ASSUME TypeOK, TypeOK', Orderly, NEW p \in Procs, pc[p] = "disable" \/ Attempting(p),
           Edited(job[p].row), Alone(p),
           ledger[job[p].row].posted => ledger'[job[p].row].posted,
           ledger'[job[p].row].st = "sent" =>
               ledger[job[p].row].st = "sent" \/ ledger'[job[p].row].posted,
           pc'[p] # "disable",
           Attempting(p)' => job'[p] = job[p] /\ ledger'[job[p].row].posted
    PROVE  Orderly'
  <1>1. /\ DOMAIN ledger = 1 .. Len(ledger) /\ DOMAIN ledger' = 1 .. Len(ledger)
        /\ \A i \in 1 .. Len(ledger) : /\ ledger'[i].id = ledger[i].id
                                       /\ ledger[i].posted => ledger'[i].posted
    <2>1. DOMAIN ledger = 1 .. Len(ledger) /\ DOMAIN ledger' = 1 .. Len(ledger)
      BY DEF TypeOK, Edited
    <2>2. ASSUME NEW i \in 1 .. Len(ledger)
          PROVE  ledger'[i].id = ledger[i].id /\ (ledger[i].posted => ledger'[i].posted)
      <3>1. CASE i = job[p].row
        BY <3>1 DEF Edited
      <3>2. CASE i # job[p].row
        BY <3>2 DEF Edited
      <3> QED BY <3>1, <3>2
    <2> QED BY <2>1, <2>2
  <1>2. Aired'
    <2>1. ASSUME NEW q \in Procs, pc'[q] \in {"adopt", "sent"}
          PROVE  ledger'[job'[q].row].posted
      <3>1. CASE q = p
        BY <2>1, <3>1 DEF Attempting
      <3>2. CASE q # p
        <4>1. pc[q] \in {"adopt", "sent"} /\ job'[q] = job[q]
          BY <2>1, <3>2 DEF Alone
        <4>2. job[q].row \in 1 .. Len(ledger) /\ ledger[job[q].row].posted
          BY <4>1 DEF Orderly, Aired, TypeOK, Attempting
        <4> QED BY <1>1, <4>1, <4>2
      <3> QED BY <3>1, <3>2
    <2>2. ASSUME NEW i \in 1 .. Len(ledger), ledger'[i].st = "sent"
          PROVE  ledger'[i].posted
      <3>1. CASE i = job[p].row
        BY <1>1, <2>2, <3>1 DEF Orderly, Aired
      <3>2. CASE i # job[p].row
        BY <1>1, <2>2, <3>2 DEF Orderly, Aired, Edited
      <3> QED BY <3>1, <3>2
    <2> QED BY <1>1, <2>1, <2>2 DEF Aired
  <1>3. Apart'
    <2>1. CASE p = "worker"
      BY <2>1 DEF Orderly, Apart, Alone
    <2>2. CASE p = "command"
      <3>1. /\ pc'["worker"] = pc["worker"] /\ job'["worker"] = job["worker"]
            /\ Attempting("command") /\ pc'["command"] # "disable"
        BY <2>2 DEF Alone, Orderly, Apart
      <3>2. CASE pc["worker"] = "disable"
        <4>1. job["worker"].row \in 1 .. Len(ledger) /\ job["worker"].row # job["command"].row
          BY <3>1, <3>2 DEF Orderly, Apart, TypeOK
        <4>2. ledger'[job["worker"].row] = ledger[job["worker"].row]
          BY <2>2, <4>1 DEF Edited
        <4>3. Attempting("command")' => job'["command"] = job["command"]
          BY <2>2
        <4> QED BY <3>1, <3>2, <4>1, <4>2, <4>3 DEF Orderly, Apart
      <3> QED BY <3>1, <3>2 DEF Apart
    <2> QED BY <2>1, <2>2
  <1>4. Unique'
    BY <1>1 DEF Orderly, Unique
  <1> QED BY <1>2, <1>3, <1>4 DEF Orderly

\* A process goes on without a word to the ledger.
LEMMA QuietKeeps ==
    ASSUME Orderly, NEW p \in Procs, Alone(p), ledger' = ledger,
           pc'[p] \notin {"adopt", "sent", "disable"},
           p = "command" => ~Attempting(p)'
    PROVE  Orderly'
  <1>1. Aired'
    BY DEF Orderly, Aired, Alone
  <1>2. Apart'
    <2>1. CASE p = "worker"
      BY <2>1 DEF Orderly, Apart, Alone
    <2>2. CASE p = "command"
      BY <2>2 DEF Orderly, Apart, Alone
    <2> QED BY <2>1, <2>2
  <1>3. Unique'
    BY DEF Orderly, Unique
  <1> QED BY <1>1, <1>2, <1>3 DEF Orderly

\* What publish() does when it inserts a row.
Inserted(p, m) ==
    /\ ~Known(m)
    /\ m \in EventIds
    /\ ledger' = Append(ledger, Row(m))
    /\ pc'[p] \in {"post", "disable"}
    /\ job'[p].row = Len(ledger) + 1

LEMMA PublishCases ==
    ASSUME TypeOK, NEW p \in Procs, NEW m \in EventIds \cup {Nothing}, NEW on \in BOOLEAN,
           NEW back, Publish(p, m, on, back)
    PROVE  /\ Alone(p)
           /\ \/ pc'[p] = back /\ ledger' = ledger
              \/ Inserted(p, m) /\ (on => pc'[p] = "post")
  <1>1. CASE m = Nothing \/ Known(m)
    BY <1>1 DEF Publish, Goto, Alone, TypeOK
  <1>2. CASE ~(m = Nothing \/ Known(m))
    <2>1. /\ ledger' = Append(ledger, Row(m))
          /\ pc' = [pc EXCEPT ![p] = IF on THEN "post" ELSE "disable"]
          /\ job' = [job EXCEPT ![p] = Work([row |-> Len(ledger) + 1, tries |-> 0], back)]
      BY <1>2 DEF Publish, Goto, Take
    <2>2. pc'[p] = (IF on THEN "post" ELSE "disable") /\ job'[p].row = Len(ledger) + 1
      BY <2>1 DEF TypeOK, Work
    <2>3. Alone(p)
      BY <2>1 DEF TypeOK, Alone
    <2> QED BY <1>2, <2>1, <2>2, <2>3 DEF Inserted
  <1> QED BY <1>1, <1>2

LEMMA PublishKeeps ==
    ASSUME TypeOK, TypeOK', Orderly, NEW p \in Procs, NEW m \in EventIds \cup {Nothing},
           NEW on \in BOOLEAN, NEW back \in {"resting", "retry"}, Publish(p, m, on, back),
           p = "command" => on
    PROVE  Orderly'
  <1>1. CASE pc'[p] = back /\ ledger' = ledger
    BY <1>1, PublishCases, QuietKeeps DEF Attempting
  <1>2. CASE Inserted(p, m) /\ (on => pc'[p] = "post")
    <2>1. /\ ledger \in Seq(Rows) /\ Len(ledger) \in Nat
          /\ DOMAIN ledger = 1 .. Len(ledger) /\ DOMAIN ledger' = 1 .. Len(ledger')
      BY DEF TypeOK
    <2>2. /\ Len(ledger') = Len(ledger) + 1 /\ ledger'[Len(ledger) + 1] = Row(m)
          /\ \A i \in 1 .. Len(ledger) : ledger'[i] = ledger[i]
      BY <1>2, <2>1 DEF Inserted
    <2>3. Row(m).id = m /\ Row(m).st = "pending" /\ ~Row(m).posted
      BY DEF Row
    <2>4. Alone(p) /\ job'[p].row = Len(ledger) + 1 /\ pc'[p] \in {"post", "disable"}
      BY <1>2, PublishCases DEF Inserted
    <2>5. \A i \in 1 .. Len(ledger) : ledger[i].id # m
      BY <1>2, <2>1 DEF Inserted, Known
    <2>6. Aired'
      <3>1. ASSUME NEW q \in Procs, pc'[q] \in {"adopt", "sent"}
            PROVE  ledger'[job'[q].row].posted
        <4>1. q # p
          BY <2>4, <3>1
        <4>2. pc[q] \in {"adopt", "sent"} /\ job'[q] = job[q]
          BY <2>4, <3>1, <4>1 DEF Alone
        <4>3. job[q].row \in 1 .. Len(ledger) /\ ledger[job[q].row].posted
          BY <4>2 DEF TypeOK, Attempting, Orderly, Aired
        <4> QED BY <2>2, <4>2, <4>3
      <3>2. ASSUME NEW i \in 1 .. Len(ledger'), ledger'[i].st = "sent"
            PROVE  ledger'[i].posted
        <4>1. i \in 1 .. Len(ledger)
          BY <2>1, <2>2, <2>3, <3>2
        <4> QED BY <2>1, <2>2, <3>2, <4>1 DEF Orderly, Aired
      <3> QED BY <2>1, <3>1, <3>2 DEF Aired
    <2>7. Apart'
      <3>1. CASE p = "worker"
        <4>1. pc'["command"] = pc["command"] /\ job'["command"] = job["command"]
          BY <2>4, <3>1 DEF Alone
        <4>2. Attempting("command") => job["command"].row \in 1 .. Len(ledger)
          BY DEF TypeOK
        <4>3. Attempting("command")' => job'["command"].row # job'["worker"].row
          BY <2>1, <2>4, <3>1, <4>1, <4>2 DEF Attempting
        <4>4. ledger'[job'["worker"].row] = Row(m)
          BY <2>2, <2>4, <3>1
        <4> QED BY <2>3, <4>1, <4>3, <4>4 DEF Apart, Orderly
      <3>2. CASE p = "command"
        <4>1. /\ pc'["worker"] = pc["worker"] /\ job'["worker"] = job["worker"]
              /\ pc'["command"] # "disable"
          BY <1>2, <2>4, <3>2 DEF Alone
        <4>2. CASE pc["worker"] = "disable"
          <5>1. job["worker"].row \in 1 .. Len(ledger)
            BY <4>2 DEF TypeOK
          <5>2. ledger'[job["worker"].row] = ledger[job["worker"].row]
            BY <2>2, <5>1
          <5>3. job'["command"].row # job'["worker"].row
            BY <2>1, <2>4, <3>2, <4>1, <5>1
          <5> QED BY <4>1, <4>2, <5>2, <5>3 DEF Apart, Orderly
        <4> QED BY <4>1, <4>2 DEF Apart
      <3> QED BY <3>1, <3>2
    <2>8. Unique'
      <3> SUFFICES ASSUME NEW i \in 1 .. Len(ledger'), NEW j \in 1 .. Len(ledger'),
                          ledger'[i].id = ledger'[j].id
                   PROVE  i = j
        BY <2>1 DEF Unique
      <3>1. CASE i \in 1 .. Len(ledger) /\ j \in 1 .. Len(ledger)
        BY <2>1, <2>2, <3>1 DEF Orderly, Unique
      <3>2. CASE i \notin 1 .. Len(ledger) \/ j \notin 1 .. Len(ledger)
        BY <2>1, <2>2, <2>3, <2>5, <3>2
      <3> QED BY <3>1, <3>2
    <2> QED BY <2>6, <2>7, <2>8 DEF Orderly
  <1> QED BY <1>1, <1>2, PublishCases

\* What an attempt makes of its row, and where it goes.
LEMMA DeliverKeeps ==
    ASSUME TypeOK, TypeOK', Orderly, NEW p \in Procs, Deliver(p)
    PROVE  Orderly'
  <1>1. CASE Answered(p)
    <2>1. /\ ledger' = [ledger EXCEPT ![job[p].row].posted = TRUE] /\ pc[p] = "post"
          /\ job' = job /\ pc' = [pc EXCEPT ![p] = IF thread THEN "sent" ELSE "adopt"]
      BY <1>1 DEF Answered, Goto
    <2>2. Alone(p) /\ pc'[p] # "disable"
      BY <2>1 DEF Alone, TypeOK
    <2> QED BY <2>1, <2>2, AnsweredRow, EditKeeps DEF Attempting
  <1>2. CASE Adopt(p)
    <2>1. /\ pc[p] = "adopt" /\ pc' = [pc EXCEPT ![p] = "sent"]
          /\ job' = job /\ ledger' = ledger
      BY <1>2 DEF Adopt, Goto
    <2>2. \A q \in Procs : /\ pc'[q] \in {"adopt", "sent"} => pc[q] \in {"adopt", "sent"}
                           /\ Attempting(q)' = Attempting(q)
                           /\ pc'[q] = "disable" <=> pc[q] = "disable"
      BY <2>1 DEF TypeOK, Attempting
    <2> QED BY <2>1, <2>2 DEF Orderly, Aired, Apart, Unique
  <1>3. CASE Unanswered(p)
    <2>1. pc[p] = "post" /\ Return(p)
      BY <1>3 DEF Unanswered
    <2>2. Alone(p) /\ pc'[p] \in {"resting", "retry", "next"}
      BY <2>1, ReturnTyped DEF Alone
    <2> QED BY <1>3, <2>1, <2>2, UnansweredRow, EditKeeps DEF Attempting
  <1>4. CASE Sent(p) \/ Rejected(p) \/ Disable(p)
    <2>1. PICK st, tried :
            /\ Settle(p, st, tried) /\ (pc[p] = "disable" \/ Attempting(p))
            /\ st = "sent" => pc[p] = "sent"
      BY <1>4 DEF Sent, Rejected, Disable, Attempting
    <2>2. Alone(p) /\ pc'[p] \in {"resting", "retry", "next"}
      BY <2>1, ReturnTyped DEF Alone, Settle
    <2>3. st = "sent" => ledger[job[p].row].posted
      BY <2>1 DEF Orderly, Aired
    <2> QED BY <2>1, <2>2, <2>3, SettledRow, EditKeeps DEF Attempting
  <1> QED BY <1>1, <1>2, <1>3, <1>4 DEF Deliver

LEMMA KillKeeps ==
    ASSUME TypeOK, TypeOK', Orderly, NEW p \in Procs, Kill(p)
    PROVE  Orderly'
  <1>1. Alone(p) /\ pc'[p] \in {"down", "resting"} /\ ~Attempting(p)'
    BY DEF Kill, Take, Goto, TypeOK, Alone, Attempting
  <1>2. CASE pc[p] = "post"
    <2>1. ledger' = [ledger EXCEPT ![job[p].row].posted = TRUE]
      BY <1>2 DEF Kill
    <2> QED BY <1>1, <1>2, <2>1, AnsweredRow, EditKeeps DEF Attempting
  <1>3. CASE pc[p] # "post"
    <2>1. ledger' = ledger
      BY <1>3 DEF Kill
    <2> QED BY <1>1, <2>1, QuietKeeps
  <1> QED BY <1>2, <1>3

\* The steps of the worker that leave the ledger alone.
LEMMA QuietSteps ==
    ASSUME TypeOK,
           \/ Start \/ Pass \/ PassRaises \/ RecoverRaises \/ AnnounceRaises
           \/ QuietPass \/ Delivered \/ NextDue
           \/ \E waited \in BOOLEAN : Retry(waited)
    PROVE  /\ Alone("worker") /\ ledger' = ledger
           /\ pc'["worker"] \in {"recover", "announce", "retry", "next", "resting", "post"}
           /\ excuse' \in {excuse, excuse + 1}
  <1>1. CASE NextDue
    BY <1>1 DEF NextDue, Goto, Take, TypeOK, Alone
  <1>2. CASE \/ Start \/ Pass \/ PassRaises \/ RecoverRaises \/ AnnounceRaises
             \/ QuietPass \/ Delivered
             \/ \E waited \in BOOLEAN : Retry(waited)
    <2>1. /\ job' = job /\ ledger' = ledger /\ excuse' = excuse
          /\ \/ pc' = pc /\ pc["worker"] = "resting"
             \/ \E l \in {"recover", "announce", "retry", "next", "resting"} : Goto("worker", l)
      BY <1>2 DEF Start, Pass, PassRaises, RecoverRaises, AnnounceRaises, QuietPass,
             Delivered, Retry, record
    <2> QED BY <2>1 DEF Goto, TypeOK, Alone
  <1> QED BY <1>1, <1>2

\* The messages that are published, and by whom.
LEMMA PublishSteps ==
    ASSUME TypeOK, Recover \/ Announce \/ Command
    PROVE  /\ excuse' = excuse
           /\ \E p \in Procs, m \in EventIds \cup {Nothing}, on \in BOOLEAN,
                 back \in {"resting", "retry"} :
                 Publish(p, m, on, back) /\ (p = "command" => on)
  <1>1. repair \in Repairs /\ wired \in BOOLEAN
    BY DEF TypeOK
  <1>2. CASE Recover
    <2>1. PICK m \in {MessageForState(repair), Nothing} : Publish("worker", m, wired, "resting")
      BY <1>2 DEF Recover
    <2>2. m \in EventIds \cup {Nothing}
      BY <1>1, <2>1, MessageTyped DEF MessageForState
    <2> QED BY <1>1, <1>2, <2>1, <2>2 DEF Recover
  <1>3. CASE Announce
    <2>1. MessageFor(said, repair) \in EventIds \cup {Nothing}
      BY <1>1, MessageTyped
    <2> QED BY <1>1, <1>3, <2>1 DEF Announce
  <1>4. CASE Command
    <2>1. PICK m \in ByHand : Publish("command", About("by hand", 0, m), TRUE, "resting")
      BY <1>4 DEF Command
    <2>2. About("by hand", 0, m) \in EventIds
      <3>1. "by hand" \in Kinds /\ m \in Causes
        BY DEF Kinds, Causes
      <3>2. 0 \in 0 .. LastHead
        BY BoundsAreNumbers
      <3> QED BY <3>1, <3>2, AboutTyped
    <2> QED BY <1>4, <2>1, <2>2 DEF Command
  <1> QED BY <1>2, <1>3, <1>4

\* Every step is one of these.
LEMMA StepCases ==
    ASSUME [Next]_vars
    PROVE  \/ Recover \/ Announce \/ Command
           \/ Start \/ Pass \/ PassRaises \/ RecoverRaises \/ AnnounceRaises
           \/ QuietPass \/ Delivered \/ NextDue
           \/ \E waited \in BOOLEAN : Retry(waited)
           \/ \E p \in Procs : Deliver(p)
           \/ \E p \in Procs : Kill(p)
           \/ UNCHANGED vars
  BY DEF Next, Worker

LEMMA StepOrderly == IInv /\ Orderly /\ [Next]_vars => Orderly'
  <1> SUFFICES ASSUME IInv, Orderly, [Next]_vars PROVE Orderly'
    OBVIOUS
  <1>1. TypeOK /\ TypeOK'
    BY StepHolds DEF IInv
  <1>2. CASE Recover \/ Announce \/ Command
    BY <1>1, <1>2, PublishSteps, PublishKeeps
  <1>3. CASE \/ Start \/ Pass \/ PassRaises \/ RecoverRaises \/ AnnounceRaises
             \/ QuietPass \/ Delivered \/ NextDue
             \/ \E waited \in BOOLEAN : Retry(waited)
    <2>1. /\ Alone("worker") /\ ledger' = ledger
          /\ pc'["worker"] \notin {"adopt", "sent", "disable"}
      BY <1>1, <1>3, QuietSteps
    <2> QED BY <2>1, QuietKeeps
  <1>4. CASE \E p \in Procs : Deliver(p)
    BY <1>1, <1>4, DeliverKeeps
  <1>5. CASE \E p \in Procs : Kill(p)
    BY <1>1, <1>5, KillKeeps
  <1>6. CASE UNCHANGED vars
    BY <1>6 DEF vars, record, Orderly, Aired, Apart, Unique, Attempting
  <1> QED BY <1>2, <1>3, <1>4, <1>5, <1>6, StepCases

LEMMA InitOrderly == Init => Orderly
  <1> SUFFICES ASSUME Init PROVE Orderly
    OBVIOUS
  <1>1. pc["worker"] = "down" /\ pc["command"] = "resting"
    BY DEF Init
  <1>2. CASE Older
    <2>1. DOMAIN ledger = {}
      BY <1>2 DEF Older
    <2> QED BY <1>1, <2>1 DEF Orderly, Aired, Apart, Unique
  <1>3. CASE Announced
    <2>1. PICK row : row = [Row(MessageForState(repair)) EXCEPT !.st = "sent", !.tries = 1,
                                                               !.posted = TRUE]
      OBVIOUS
    <2>2. ledger = <<row>> /\ row.posted
      BY <1>3, <2>1 DEF Announced, Row
    <2>3. DOMAIN ledger = {1} /\ ledger[1].posted
      BY <2>2
    <2> QED BY <1>1, <2>3 DEF Orderly, Aired, Apart, Unique
  <1> QED BY <1>2, <1>3 DEF Init

-----------------------------------------------------------------------------
(* Every second post has its excuse. *)

\* A message that may be in the channel, is still pending, and that nobody is
\* at: the next attempt posts it again.
Orphans ==
    {i \in DOMAIN ledger :
        /\ Pending(i) /\ ledger[i].posted
        /\ \A p \in Procs : Attempting(p) => job[p].row # i}

\* It may be in the channel, or was settled.
Spoken(i) == ledger[i].posted \/ ledger[i].st # "pending"

\* What the attempts in progress may still post again or reopen: one that is
\* about to post what was spoken of, and the later one of two that are about to
\* post the same.
Owes(p) == IF pc[p] = "post" /\ Spoken(job[p].row) THEN 1 ELSE 0
Race ==
    IF /\ pc["worker"] = "post" /\ pc["command"] = "post"
       /\ job["worker"].row = job["command"].row
       /\ ~Spoken(job["worker"].row)
    THEN 1 ELSE 0
Debt == Owes("worker") + Owes("command") + Race

Explained == excuse >= Cardinality(Orphans) + Debt

LEMMA OrphansCounted ==
    ASSUME TypeOK
    PROVE  IsFiniteSet(Orphans) /\ Cardinality(Orphans) \in Nat
  <1>1. Len(ledger) \in Nat /\ DOMAIN ledger = 1 .. Len(ledger)
    BY DEF TypeOK
  <1>2. IsFiniteSet(1 .. Len(ledger))
    BY <1>1, FS_Interval
  <1>3. Orphans \in SUBSET (1 .. Len(ledger))
    BY <1>1 DEF Orphans
  <1> QED BY <1>2, <1>3, FS_Subset, FS_CardinalityType

LEMMA DebtCounted == Debt \in Int /\ Debt' \in Int
  BY DEF Debt, Owes, Race

LEMMA Amounts ==
    ASSUME TypeOK, TypeOK'
    PROVE  /\ excuse \in Int /\ excuse' \in Int
           /\ Cardinality(Orphans) \in Int /\ Debt \in Int /\ Debt' \in Int
  <1>1. excuse \in Int /\ excuse' \in Int
    BY DEF TypeOK
  <1> QED BY <1>1, OrphansCounted, DebtCounted

\* The three ways a step may move the balance.
LEMMA BalanceKept ==
    ASSUME TypeOK, TypeOK', Explained,
           Orphans' \subseteq Orphans, excuse' - Debt' >= excuse - Debt
    PROVE  Explained'
  <1>1. PICK n \in Int : n = Cardinality(Orphans')
    BY OrphansCounted, FS_Subset, FS_CardinalityType
  <1>2. PICK d \in Int : d = Debt'
    BY Amounts
  <1>3. n <= Cardinality(Orphans)
    BY <1>1, OrphansCounted, FS_Subset
  <1>4. excuse' - d >= excuse - Debt
    BY <1>2
  <1>5. excuse' >= n + d
    BY <1>3, <1>4, Amounts DEF Explained
  <1> QED BY <1>1, <1>2, <1>5 DEF Explained

LEMMA OneMoreOrphan ==
    ASSUME TypeOK, TypeOK', Explained, NEW i,
           Orphans' \subseteq Orphans \cup {i}, excuse' - Debt' >= excuse - Debt + 1
    PROVE  Explained'
  <1>1. /\ IsFiniteSet(Orphans \cup {i}) /\ Cardinality(Orphans \cup {i}) \in Int
        /\ Cardinality(Orphans \cup {i}) <= Cardinality(Orphans) + 1
    <2>1. IsFiniteSet(Orphans) /\ Cardinality(Orphans) \in Nat
      BY OrphansCounted
    <2>2. /\ IsFiniteSet(Orphans \cup {i})
          /\ Cardinality(Orphans \cup {i}) \in {Cardinality(Orphans), Cardinality(Orphans) + 1}
      BY <2>1, FS_AddElement
    <2> QED BY <2>1, <2>2
  <1>2. PICK n \in Int : n = Cardinality(Orphans')
    BY <1>1, FS_Subset, FS_CardinalityType
  <1>3. PICK d \in Int : d = Debt'
    BY Amounts
  <1>4. n <= Cardinality(Orphans \cup {i})
    BY <1>1, <1>2, FS_Subset
  <1>5. excuse' - d >= excuse - Debt + 1
    BY <1>3
  <1>6. excuse' >= n + d
    BY <1>1, <1>4, <1>5, Amounts DEF Explained
  <1> QED BY <1>2, <1>3, <1>6 DEF Explained

LEMMA OneOrphanTaken ==
    ASSUME TypeOK, TypeOK', Explained, NEW i \in Orphans,
           Orphans' \subseteq Orphans \ {i}, excuse' - Debt' >= excuse - Debt - 1
    PROVE  Explained'
  <1>1. /\ IsFiniteSet(Orphans \ {i})
        /\ Cardinality(Orphans \ {i}) = Cardinality(Orphans) - 1
    BY OrphansCounted, FS_RemoveElement
  <1>2. PICK n \in Int : n = Cardinality(Orphans')
    BY <1>1, FS_Subset, FS_CardinalityType
  <1>3. PICK d \in Int : d = Debt'
    BY Amounts
  <1>4. n <= Cardinality(Orphans \ {i})
    BY <1>1, <1>2, FS_Subset
  <1>5. excuse' - d >= excuse - Debt - 1
    BY <1>3
  <1>6. excuse' >= n + d
    BY <1>1, <1>4, <1>5, Amounts DEF Explained
  <1> QED BY <1>2, <1>3, <1>6 DEF Explained

\* A row is as it was to the balance, or was settled by the only one to hold it.
Untouched(i) ==
    /\ ledger'[i].posted = ledger[i].posted
    /\ \/ ledger'[i].st = ledger[i].st
       \/ /\ ledger'[i].st # "pending"
          /\ \A q \in Procs : Attempting(q) => job[q].row # i

\* A process that is at no attempt writes what it likes of its own, and at most
\* takes up a message it just recorded.
LEMMA IdleStep ==
    ASSUME TypeOK, TypeOK', Explained, NEW p \in Procs, ~Attempting(p), excuse' = excuse,
           \A q \in Procs \ {p} : pc'[q] = pc[q] /\ job'[q] = job[q],
           Len(ledger) <= Len(ledger'),
           \A i \in 1 .. Len(ledger) : Untouched(i),
           \A i \in 1 .. Len(ledger') : i > Len(ledger) => ~Spoken(i)',
           Attempting(p)' => job'[p].row > Len(ledger)
    PROVE  Explained'
  <1>1. /\ Len(ledger) \in Nat /\ DOMAIN ledger = 1 .. Len(ledger)
        /\ Len(ledger') \in Nat /\ DOMAIN ledger' = 1 .. Len(ledger')
    BY DEF TypeOK
  <1>2. ASSUME NEW q \in Procs, Attempting(q)'
        PROVE  /\ q = p => ~Spoken(job[q].row)'
               /\ q # p => /\ Attempting(q) /\ job[q].row \in 1 .. Len(ledger)
                           /\ Spoken(job[q].row)' = Spoken(job[q].row)
    <2>1. job'[q].row \in 1 .. Len(ledger')
      BY <1>2 DEF TypeOK
    <2>2. CASE q = p
      BY <1>2, <2>1, <2>2 DEF Spoken
    <2>3. CASE q # p
      <3>1. Attempting(q) /\ job'[q] = job[q] /\ job[q].row \in 1 .. Len(ledger)
        BY <1>2, <2>3 DEF TypeOK, Attempting
      <3>2. Untouched(job[q].row)
        BY <3>1
      <3> QED BY <2>3, <3>1, <3>2 DEF Untouched, Spoken
    <2> QED BY <2>2, <2>3
  <1>3. Orphans' \subseteq Orphans
    <2> SUFFICES ASSUME NEW i \in Orphans' PROVE i \in Orphans
      OBVIOUS
    <2>1. i \in 1 .. Len(ledger') /\ ledger'[i].st = "pending" /\ ledger'[i].posted
      BY <1>1 DEF Orphans, Pending
    <2>2. i \in 1 .. Len(ledger) /\ ledger[i].st = "pending" /\ ledger[i].posted
      <3>1. i \in 1 .. Len(ledger)
        BY <1>1, <2>1 DEF Spoken
      <3>2. Untouched(i)
        BY <3>1
      <3> QED BY <2>1, <3>1, <3>2 DEF Untouched
    <2>3. ASSUME NEW q \in Procs, Attempting(q) PROVE job[q].row # i
      <3>1. q # p
        BY <2>3
      <3>2. Attempting(q)' /\ job'[q] = job[q]
        BY <2>3, <3>1 DEF Attempting
      <3> QED BY <3>2 DEF Orphans
    <2> QED BY <1>1, <2>2, <2>3 DEF Orphans, Pending
  <1>4. \A q \in Procs : Owes(q)' <= Owes(q)
    <2> SUFFICES ASSUME NEW q \in Procs PROVE Owes(q)' <= Owes(q)
      OBVIOUS
    <2>1. CASE q = p
      BY <1>2, <2>1 DEF Owes, Attempting
    <2>2. CASE q # p
      <3>1. pc'[q] = pc[q]
        BY <2>2
      <3> QED BY <1>2, <2>2, <3>1 DEF Owes, Attempting
    <2> QED BY <2>1, <2>2
  <1>5. Race' = 0
    <2> SUFFICES ASSUME pc'["worker"] = "post", pc'["command"] = "post",
                        job'["worker"].row = job'["command"].row
                 PROVE  FALSE
      BY DEF Race
    <2>1. job'[p].row > Len(ledger)
      BY DEF Attempting
    <2>2. PICK q \in Procs : q # p
      OBVIOUS
    <2>3. job'[q] = job[q] /\ job[q].row \in 1 .. Len(ledger)
      BY <1>2, <2>2 DEF Attempting
    <2>4. job'[q].row = job'[p].row
      BY <2>2
    <2> QED BY <1>1, <2>1, <2>3, <2>4
  <1>6. excuse' - Debt' >= excuse - Debt
    BY <1>4, <1>5 DEF Debt, Owes, Race, TypeOK
  <1> QED BY <1>3, <1>6, BalanceKept

\* An attempt moves on: it posts no more, and of the rows only its own changes,
\* where the message is marked posted if it may just have been.
LEMMA AttemptStep ==
    ASSUME TypeOK, TypeOK', Aired, NEW p \in Procs, Attempting(p), pc'[p] # "post",
           \A q \in Procs \ {p} : pc'[q] = pc[q] /\ job'[q] = job[q],
           Len(ledger') = Len(ledger),
           \A i \in 1 .. Len(ledger) : i # job[p].row => ledger'[i] = ledger[i],
           \/ ledger'[job[p].row].posted = ledger[job[p].row].posted
           \/ pc[p] = "post" /\ ledger'[job[p].row].posted
    PROVE  /\ Orphans' \subseteq Orphans \cup {job[p].row}
           /\ Debt' <= Debt - Owes(p)
  <1>1. /\ Len(ledger) \in Nat /\ DOMAIN ledger = 1 .. Len(ledger)
        /\ DOMAIN ledger' = 1 .. Len(ledger)
    BY DEF TypeOK
  <1>2. Orphans' \subseteq Orphans \cup {job[p].row}
    <2> SUFFICES ASSUME NEW i \in Orphans', i # job[p].row PROVE i \in Orphans
      OBVIOUS
    <2>1. i \in 1 .. Len(ledger) /\ ledger[i].st = "pending" /\ ledger[i].posted
      BY <1>1 DEF Orphans, Pending
    <2>2. ASSUME NEW q \in Procs, Attempting(q) PROVE job[q].row # i
      <3>1. CASE q # p
        <4>1. Attempting(q)' /\ job'[q] = job[q]
          BY <2>2, <3>1 DEF Attempting
        <4> QED BY <4>1 DEF Orphans
      <3> QED BY <3>1
    <2> QED BY <1>1, <2>1, <2>2 DEF Orphans, Pending
  <1>3. PICK o \in Procs : o # p /\ Procs = {p, o}
    OBVIOUS
  <1>4. pc'[o] = pc[o] /\ job'[o] = job[o]
    BY <1>3
  <1>5. Owes(p)' = 0 /\ Race' = 0
    BY DEF Owes, Race
  <1>6. Owes(o)' <= Owes(o) + Race
    <2>1. CASE pc[o] # "post"
      BY <1>4, <2>1 DEF Owes, Race
    <2>2. CASE pc[o] = "post" /\ job[o].row # job[p].row
      <3>1. job[o].row \in 1 .. Len(ledger)
        BY <2>2 DEF TypeOK, Attempting
      <3>2. ledger'[job'[o].row] = ledger[job[o].row]
        BY <1>4, <2>2, <3>1
      <3> QED BY <1>4, <2>2, <3>2 DEF Owes, Race, Spoken
    <2>3. CASE pc[o] = "post" /\ job[o].row = job[p].row
      <3>1. Owes(o) = 1 \/ Race = 1
        <4>1. CASE pc[p] = "post"
          BY <1>3, <2>3, <4>1 DEF Owes, Race
        <4>2. CASE pc[p] # "post"
          <5>1. Spoken(job[p].row)
            BY <4>2 DEF Aired, Attempting, Spoken
          <5> QED BY <2>3, <5>1 DEF Owes
        <4> QED BY <4>1, <4>2
      <3> QED BY <3>1 DEF Owes, Race
    <2> QED BY <2>1, <2>2, <2>3
  <1>7. /\ Debt = Owes(p) + Owes(o) + Race
        /\ Debt' = Owes(p)' + Owes(o)' + Race'
    BY <1>3 DEF Debt, Owes, Race
  <1>8. PICK w \in Int : w = Owes(o)'
    BY DEF Owes
  <1>9. w <= Owes(o) + Race /\ Debt' = w
    BY <1>5, <1>6, <1>7, <1>8
  <1>10. Debt - Owes(p) = Owes(o) + Race
    BY <1>7 DEF Owes, Race
  <1> QED BY <1>2, <1>9, <1>10

\* What publish() records nobody has posted, and nobody else is at.
LEMMA PublishExplained ==
    ASSUME TypeOK, TypeOK', Explained, NEW p \in Procs, NEW m, NEW on \in BOOLEAN,
           NEW back \in {"resting", "retry", "next"}, ~Attempting(p),
           Publish(p, m, on, back), excuse' = excuse
    PROVE  Explained'
  <1>1. CASE m = Nothing \/ Known(m)
    <2>1. /\ pc' = [pc EXCEPT ![p] = back] /\ ledger' = ledger /\ job' = job
      BY <1>1 DEF Publish, Goto
    <2>2. ~Attempting(p)' /\ \A q \in Procs \ {p} : pc'[q] = pc[q] /\ job'[q] = job[q]
      BY <2>1 DEF Attempting, TypeOK
    <2>3. /\ Len(ledger) <= Len(ledger')
          /\ \A i \in 1 .. Len(ledger) : Untouched(i)
          /\ \A i \in 1 .. Len(ledger') : ~(i > Len(ledger))
      BY <2>1 DEF Untouched, TypeOK
    <2> QED BY <2>2, <2>3, IdleStep
  <1>2. CASE ~(m = Nothing \/ Known(m))
    <2>1. /\ ledger' = Append(ledger, Row(m))
          /\ pc' = [pc EXCEPT ![p] = IF on THEN "post" ELSE "disable"]
          /\ job' = [job EXCEPT ![p] = Work([row |-> Len(ledger) + 1, tries |-> 0], back)]
      BY <1>2 DEF Publish, Goto, Take
    <2>2. \A q \in Procs \ {p} : pc'[q] = pc[q] /\ job'[q] = job[q]
      BY <2>1 DEF TypeOK
    <2>3. ledger \in Seq(Rows) /\ Len(ledger) \in Nat
      BY DEF TypeOK
    <2>4. job'[p].row > Len(ledger)
      BY <2>1, <2>3 DEF Work, TypeOK
    <2>5. /\ Len(ledger') = Len(ledger) + 1
          /\ ledger'[Len(ledger) + 1] = Row(m)
          /\ \A i \in 1 .. Len(ledger) : ledger'[i] = ledger[i]
      BY <2>1, <2>3
    <2>6. /\ Len(ledger) <= Len(ledger')
          /\ \A i \in 1 .. Len(ledger) : Untouched(i)
          /\ \A i \in 1 .. Len(ledger') : i > Len(ledger) => ~Spoken(i)'
      BY <2>3, <2>5 DEF Untouched, Row, Spoken
    <2> QED BY <2>2, <2>4, <2>6, IdleStep
  <1> QED BY <1>1, <1>2

\* The worker goes on without a word to the ledger.
LEMMA QuietExplained ==
    ASSUME TypeOK, TypeOK', Explained, ~Attempting("worker"), ~Attempting("worker")',
           pc'["command"] = pc["command"], job' = job, ledger' = ledger, excuse' = excuse
    PROVE  Explained'
  <1>1. \A q \in Procs \ {"worker"} : pc'[q] = pc[q] /\ job'[q] = job[q]
    OBVIOUS
  <1>2. /\ Len(ledger) <= Len(ledger')
        /\ \A i \in 1 .. Len(ledger) : Untouched(i)
        /\ \A i \in 1 .. Len(ledger') : ~(i > Len(ledger))
    BY DEF Untouched, TypeOK
  <1> QED BY <1>1, <1>2, IdleStep

LEMMA WorkerExplained ==
    ASSUME TypeOK, TypeOK', Explained,
           \/ Start \/ Recover \/ Pass \/ PassRaises \/ RecoverRaises \/ AnnounceRaises
           \/ QuietPass \/ Announce \/ Delivered
           \/ \E waited \in BOOLEAN : Retry(waited)
    PROVE  Explained'
  <1>1. CASE Recover
    <2>1. PICK m : Publish("worker", m, wired, "resting")
      BY <1>1 DEF Recover
    <2> QED BY <1>1, <2>1, PublishExplained DEF Recover, Attempting, TypeOK
  <1>2. CASE Announce
    <2>1. Publish("worker", MessageFor(said, repair), wired, "retry")
      BY <1>2 DEF Announce
    <2> QED BY <1>2, <2>1, PublishExplained DEF Announce, Attempting, TypeOK
  <1>3. CASE \/ Start \/ Pass \/ PassRaises \/ RecoverRaises \/ AnnounceRaises
             \/ QuietPass \/ Delivered
             \/ \E waited \in BOOLEAN : Retry(waited)
    <2>1. /\ pc["worker"] \in {"down", "recover", "resting", "announce", "retry", "next"}
          /\ \/ pc' = pc
             \/ \E l \in {"recover", "announce", "retry", "next", "resting"} : Goto("worker", l)
          /\ job' = job /\ ledger' = ledger /\ excuse' = excuse
      BY <1>3 DEF Start, Pass, PassRaises, RecoverRaises, AnnounceRaises, QuietPass,
             Delivered, Retry, record
    <2>2. /\ ~Attempting("worker") /\ ~Attempting("worker")'
          /\ pc'["command"] = pc["command"]
      BY <2>1 DEF Goto, Attempting, TypeOK
    <2> QED BY <2>1, <2>2, QuietExplained
  <1> QED BY <1>1, <1>2, <1>3

LEMMA CommandExplained ==
    ASSUME TypeOK, TypeOK', Explained, Command
    PROVE  Explained'
  <1>1. PICK m : Publish("command", m, TRUE, "resting")
    BY DEF Command
  <1> QED BY <1>1, PublishExplained DEF Command, Attempting

\* An attempt the worker begins posts an orphan again, or is unaware of another
\* and has its excuse, or is the row's first.
LEMMA NextDueExplained ==
    ASSUME TypeOK, TypeOK', Explained, NextDue
    PROVE  Explained'
  <1>1. PICK d \in due :
            /\ job' = [job EXCEPT !["worker"] = Work(d, "next")]
            /\ excuse' = IF Unaware(d.row) THEN excuse + 1 ELSE excuse
    BY DEF NextDue, Take
  <1>2. /\ pc["worker"] = "next" /\ pc' = [pc EXCEPT !["worker"] = "post"]
        /\ ledger' = ledger
    BY DEF NextDue, Goto
  <1>3. PICK i \in 1 .. Len(ledger) : i = d.row
    BY DEF TypeOK
  <1>4. /\ pc'["worker"] = "post" /\ job'["worker"].row = i
        /\ pc'["command"] = pc["command"] /\ job'["command"] = job["command"]
    BY <1>1, <1>2, <1>3 DEF TypeOK, Work
  <1>5. Orphans' \subseteq Orphans \ {i}
    <2>1. i \notin Orphans'
      BY <1>4 DEF Orphans, Attempting
    <2>2. ASSUME NEW k \in Orphans' PROVE k \in Orphans
      <3>1. \A q \in Procs : Attempting(q) => Attempting(q)' /\ job'[q] = job[q]
        BY <1>2, <1>4 DEF Attempting
      <3> QED BY <1>2, <2>2, <3>1 DEF Orphans, Pending
    <2> QED BY <2>1, <2>2
  <1>6. /\ Owes("worker") = 0 /\ Race = 0
        /\ Owes("command")' = Owes("command")
    BY <1>2, <1>4 DEF Owes, Race, Spoken
  <1>7. Debt' <= Debt + 1
    <2>1. Owes("worker")' + Race' <= 1
      BY DEF Owes, Race
    <2> QED BY <1>6, <2>1 DEF Debt, Owes, Race
  <1>8. CASE Unaware(i)
    <2>1. excuse' - Debt' >= excuse - Debt
      <3>1. PICK e \in Int : e = Debt'
        BY DebtCounted
      <3>2. e <= Debt + 1 /\ excuse' = excuse + 1
        BY <1>1, <1>3, <1>7, <1>8, <3>1
      <3>3. excuse' - e >= excuse - Debt
        BY <3>2, Amounts
      <3> QED BY <3>1, <3>3
    <2> QED BY <1>5, <2>1, BalanceKept
  <1>9. CASE ~Unaware(i)
    <2>1. Pending(i) /\ (Attempting("command") => job["command"].row # i)
      BY <1>9 DEF Unaware
    <2>2. excuse' = excuse /\ Race' = 0
      BY <1>1, <1>3, <1>4, <1>9, <2>1 DEF Race, Attempting
    <2>3. CASE ledger[i].posted
      <3>1. i \in Orphans
        BY <1>2, <2>1, <2>3 DEF Orphans, Attempting, Pending
      <3>2. excuse' - Debt' >= excuse - Debt - 1
        <4>1. PICK e \in Int : e = Debt'
          BY DebtCounted
        <4>2. e <= Debt + 1
          BY <1>7, <4>1
        <4>3. excuse' - e >= excuse - Debt - 1
          BY <2>2, <4>2, Amounts
        <4> QED BY <4>1, <4>3
      <3> QED BY <1>5, <3>1, <3>2, OneOrphanTaken
    <2>4. CASE ~ledger[i].posted
      <3>1. Owes("worker")' = 0
        BY <1>2, <1>4, <2>1, <2>4 DEF Owes, Spoken, Pending
      <3>2. Debt' = Debt
        BY <1>6, <2>2, <3>1 DEF Debt
      <3>3. excuse' - Debt' >= excuse - Debt
        BY <2>2, <3>2, Amounts
      <3> QED BY <1>5, <3>3, BalanceKept
    <2> QED BY <2>3, <2>4
  <1> QED BY <1>8, <1>9

\* An attempt that ends or moves on for no more than what it owed.
LEMMA AttemptExplained ==
    ASSUME TypeOK, TypeOK', Aired, Explained, NEW p \in Procs, Attempting(p),
           pc'[p] # "post",
           \A q \in Procs \ {p} : pc'[q] = pc[q] /\ job'[q] = job[q],
           Len(ledger') = Len(ledger),
           \A i \in 1 .. Len(ledger) : i # job[p].row => ledger'[i] = ledger[i],
           \/ ledger'[job[p].row].posted = ledger[job[p].row].posted
           \/ pc[p] = "post" /\ ledger'[job[p].row].posted,
           \/ job[p].row \notin Orphans' /\ excuse' >= excuse - Owes(p)
           \/ excuse' >= excuse + 1 - Owes(p)
    PROVE  Explained'
  <1>1. Orphans' \subseteq Orphans \cup {job[p].row} /\ Debt' <= Debt - Owes(p)
    BY AttemptStep
  <1>2. PICK d \in Int : d = Debt'
    BY DebtCounted
  <1>3. d <= Debt - Owes(p) /\ Owes(p) \in Int
    BY <1>1, <1>2 DEF Owes
  <1>4. CASE job[p].row \notin Orphans' /\ excuse' >= excuse - Owes(p)
    <2>1. Orphans' \subseteq Orphans
      BY <1>1, <1>4
    <2>2. excuse' - d >= excuse - Debt
      BY <1>3, <1>4, Amounts
    <2> QED BY <1>2, <2>1, <2>2, BalanceKept
  <1>5. CASE excuse' >= excuse + 1 - Owes(p)
    <2>1. excuse' - d >= excuse - Debt + 1
      BY <1>3, <1>5, Amounts
    <2> QED BY <1>1, <1>2, <2>1, OneMoreOrphan
  <1> QED BY <1>4, <1>5

\* What an attempt may write into its row.
LEMMA OwnRow ==
    ASSUME TypeOK, NEW p \in Procs, Attempting(p)
    PROVE  /\ job[p].row \in 1 .. Len(ledger)
           /\ ledger \in Seq(Rows)
           /\ ledger[job[p].row] \in Rows
  BY DEF TypeOK, Attempting

LEMMA MovedOnExplained ==
    ASSUME TypeOK, TypeOK', Aired, Explained, NEW p \in Procs,
           Answered(p) \/ Adopt(p)
    PROVE  Explained'
  <1>1. Attempting(p)
    BY DEF Answered, Adopt, Attempting
  <1>2. PICK l \in {"adopt", "sent"} : pc' = [pc EXCEPT ![p] = l] /\ job' = job
    BY DEF Answered, Adopt, Goto
  <1>3. /\ pc'[p] # "post" /\ Attempting(p)'
        /\ \A q \in Procs \ {p} : pc'[q] = pc[q] /\ job'[q] = job[q]
    BY <1>2 DEF TypeOK, Attempting
  <1>4. job[p].row \notin Orphans'
    BY <1>2, <1>3 DEF Orphans
  <1>5. /\ Len(ledger') = Len(ledger)
        /\ \A i \in 1 .. Len(ledger) : i # job[p].row => ledger'[i] = ledger[i]
        /\ \/ ledger'[job[p].row].posted = ledger[job[p].row].posted
           \/ pc[p] = "post" /\ ledger'[job[p].row].posted
        /\ excuse' >= excuse - Owes(p)
    <2>1. CASE Answered(p)
      <3>1. ledger' = [ledger EXCEPT ![job[p].row].posted = TRUE]
        BY <2>1 DEF Answered
      <3>2. pc[p] = "post" /\ excuse' >= excuse - Owes(p)
        BY <2>1 DEF Answered, Twice, Owes, Spoken, TypeOK
      <3> QED BY <1>1, <3>1, <3>2, AnsweredRow DEF Edited
    <2>2. CASE Adopt(p)
      BY <2>2 DEF Adopt, Owes, TypeOK
    <2> QED BY <2>1, <2>2
  <1> QED BY <1>1, <1>3, <1>4, <1>5, AttemptExplained

LEMMA UnansweredExplained ==
    ASSUME TypeOK, TypeOK', Aired, Explained, NEW p \in Procs, Unanswered(p)
    PROVE  Explained'
  <1>1. Attempting(p) /\ pc[p] = "post" /\ Return(p)
    BY DEF Unanswered, Attempting
  <1>2. /\ pc'[p] # "post"
        /\ \A q \in Procs \ {p} : pc'[q] = pc[q] /\ job'[q] = job[q]
    BY <1>1, ReturnTyped
  <1>3. ledger' = [ledger EXCEPT ![job[p].row].posted = TRUE, ![job[p].row].st = "unknown",
                                 ![job[p].row].tries = @ + 1]
    BY DEF Unanswered
  <1>4. /\ Len(ledger') = Len(ledger)
        /\ \A i \in 1 .. Len(ledger) : i # job[p].row => ledger'[i] = ledger[i]
        /\ ledger'[job[p].row].posted /\ ledger'[job[p].row].st = "unknown"
    BY <1>1, <1>3, OwnRow DEF Rows
  <1>5. job[p].row \notin Orphans'
    BY <1>1, <1>4 DEF Orphans, Pending
  <1>6. excuse' >= excuse - Owes(p)
    BY <1>1 DEF Unanswered, Twice, Owes, Spoken, TypeOK
  <1> QED BY <1>1, <1>2, <1>4, <1>5, <1>6, AttemptExplained

\* A rejection leaves the message as much in the channel as it was; an attempt
\* that was about to post what was there leaves an orphan.
LEMMA SettledExplained ==
    ASSUME TypeOK, TypeOK', Aired, Explained, NEW p \in Procs, Attempting(p),
           NEW st \in {"pending", "sent", "failed"}, Settle(p, st, 1),
           pc[p] = IF st = "sent" THEN "sent" ELSE "post"
    PROVE  Explained'
  <1>1. Return(p) /\ excuse' = excuse
    BY DEF Settle
  <1>2. /\ pc'[p] # "post"
        /\ \A q \in Procs \ {p} : pc'[q] = pc[q] /\ job'[q] = job[q]
    BY <1>1, ReturnTyped
  <1>3. ledger' = [ledger EXCEPT ![job[p].row].st = st, ![job[p].row].tries = @ + 1]
    BY DEF Settle
  <1>4. /\ Len(ledger') = Len(ledger)
        /\ \A i \in 1 .. Len(ledger) : i # job[p].row => ledger'[i] = ledger[i]
        /\ ledger'[job[p].row].posted = ledger[job[p].row].posted
        /\ ledger'[job[p].row].st = st
    BY <1>3, OwnRow DEF Rows
  <1>5. CASE Owes(p) = 0
    <2>1. job[p].row \notin Orphans'
      BY <1>4, <1>5 DEF Owes, Spoken, Orphans, Pending
    <2>2. excuse' >= excuse - Owes(p)
      BY <1>1, <1>5 DEF TypeOK
    <2> QED BY <1>2, <1>4, <2>1, <2>2, AttemptExplained
  <1>6. CASE Owes(p) = 1
    <2>1. excuse' >= excuse + 1 - Owes(p)
      BY <1>1, <1>6 DEF TypeOK
    <2> QED BY <1>2, <1>4, <2>1, AttemptExplained
  <1> QED BY <1>5, <1>6 DEF Owes

LEMMA DisableExplained ==
    ASSUME TypeOK, TypeOK', Apart, Explained, NEW p \in Procs, Disable(p)
    PROVE  Explained'
  <1>1. /\ ~Attempting(p) /\ Return(p) /\ excuse' = excuse
        /\ ledger' = [ledger EXCEPT ![job[p].row].st = "disabled", ![job[p].row].tries = @ + 0]
    BY DEF Disable, Settle, Attempting
  <1>2. /\ ~Attempting(p)'
        /\ \A q \in Procs \ {p} : pc'[q] = pc[q] /\ job'[q] = job[q]
    BY <1>1, ReturnTyped DEF Attempting
  <1>3. job[p].row \in 1 .. Len(ledger) /\ ledger \in Seq(Rows) /\ ledger[job[p].row] \in Rows
    BY DEF TypeOK, Disable
  <1>4. /\ Len(ledger') = Len(ledger)
        /\ \A i \in 1 .. Len(ledger) : i # job[p].row => ledger'[i] = ledger[i]
        /\ ledger'[job[p].row].posted = ledger[job[p].row].posted
        /\ ledger'[job[p].row].st = "disabled"
    BY <1>1, <1>3 DEF Rows
  <1>5. \A q \in Procs : Attempting(q) => job[q].row # job[p].row
    BY DEF Disable, Apart, Attempting
  <1>6. /\ Len(ledger) <= Len(ledger')
        /\ \A i \in 1 .. Len(ledger) : Untouched(i)
        /\ \A i \in 1 .. Len(ledger') : ~(i > Len(ledger))
    BY <1>3, <1>4, <1>5 DEF Untouched
  <1> QED BY <1>1, <1>2, <1>6, IdleStep

LEMMA DeliverExplained ==
    ASSUME TypeOK, TypeOK', Apart, Aired, Explained, NEW p \in Procs, Deliver(p)
    PROVE  Explained'
  <1>1. CASE Answered(p) \/ Adopt(p)
    BY <1>1, MovedOnExplained
  <1>2. CASE Unanswered(p)
    BY <1>2, UnansweredExplained
  <1>3. CASE Sent(p)
    <2>1. PICK st \in {"sent"} : pc[p] = "sent" /\ Settle(p, st, 1)
      BY <1>3 DEF Sent
    <2>2. Attempting(p)
      BY <2>1 DEF Attempting
    <2> QED BY <2>1, <2>2, SettledExplained
  <1>4. CASE Rejected(p)
    <2>1. PICK st \in {"failed", "pending"} : pc[p] = "post" /\ Settle(p, st, 1)
      BY <1>4 DEF Rejected
    <2> QED BY <2>1, SettledExplained DEF Attempting
  <1>5. CASE Disable(p)
    BY <1>5, DisableExplained
  <1> QED BY <1>1, <1>2, <1>3, <1>4, <1>5 DEF Deliver

\* A process that dies at an attempt has its excuse for the orphan it leaves.
LEMMA KillExplained ==
    ASSUME TypeOK, TypeOK', Aired, Explained, NEW p \in Procs, Kill(p)
    PROVE  Explained'
  <1>1. /\ job' = [job EXCEPT ![p] = NoJob]
        /\ pc' = [pc EXCEPT ![p] = IF p = "worker" THEN "down" ELSE "resting"]
    BY DEF Kill, Take, Goto
  <1>2. /\ pc'[p] \in {"down", "resting"}
        /\ \A q \in Procs \ {p} : pc'[q] = pc[q] /\ job'[q] = job[q]
    BY <1>1 DEF TypeOK
  <1>3. CASE Attempting(p)
    <2>1. excuse' >= excuse + 1 - Owes(p)
      <3>1. excuse' = excuse + 1 - (IF pc[p] = "post" THEN Twice(p) ELSE 0)
        BY <1>3 DEF Kill, Twice, TypeOK
      <3> QED BY <3>1 DEF Twice, Owes, Spoken, TypeOK
    <2>2. /\ Len(ledger') = Len(ledger)
          /\ \A i \in 1 .. Len(ledger) : i # job[p].row => ledger'[i] = ledger[i]
          /\ \/ ledger'[job[p].row].posted = ledger[job[p].row].posted
             \/ pc[p] = "post" /\ ledger'[job[p].row].posted
      <3>1. CASE pc[p] = "post"
        <4>1. ledger' = [ledger EXCEPT ![job[p].row].posted = TRUE]
          BY <3>1 DEF Kill
        <4> QED BY <1>3, <3>1, <4>1, AnsweredRow DEF Edited
      <3>2. CASE pc[p] # "post"
        BY <3>2 DEF Kill
      <3> QED BY <3>1, <3>2
    <2> QED BY <1>2, <1>3, <2>1, <2>2, AttemptExplained
  <1>4. CASE ~Attempting(p)
    <2>1. excuse' = excuse /\ ledger' = ledger
      BY <1>4 DEF Kill, Attempting, TypeOK
    <2>2. /\ Len(ledger) <= Len(ledger')
          /\ \A i \in 1 .. Len(ledger) : Untouched(i)
          /\ \A i \in 1 .. Len(ledger') : ~(i > Len(ledger))
      BY <2>1 DEF Untouched, TypeOK
    <2>3. ~Attempting(p)'
      BY <1>2 DEF Attempting
    <2> QED BY <1>2, <1>4, <2>1, <2>2, <2>3, IdleStep
  <1> QED BY <1>3, <1>4

LEMMA StepExplained == IInv /\ Orderly /\ Explained /\ [Next]_vars => Explained'
  <1> SUFFICES ASSUME IInv, Orderly, Explained, [Next]_vars PROVE Explained'
    OBVIOUS
  <1>1. TypeOK /\ TypeOK' /\ Aired /\ Apart
    BY StepHolds DEF IInv, Orderly
  <1>2. CASE Worker \/ PassRaises \/ RecoverRaises \/ AnnounceRaises
    BY <1>1, <1>2, WorkerExplained, NextDueExplained, DeliverExplained DEF Worker
  <1>3. CASE Command
    BY <1>1, <1>3, CommandExplained
  <1>4. CASE Deliver("command")
    BY <1>1, <1>4, DeliverExplained
  <1>5. CASE \E p \in Procs : Kill(p)
    BY <1>1, <1>5, KillExplained
  <1>6. CASE UNCHANGED vars
    BY <1>6 DEF vars, record, Explained, Orphans, Pending, Attempting, Debt, Owes, Race,
               Spoken
  <1> QED BY <1>2, <1>3, <1>4, <1>5, <1>6 DEF Next

LEMMA InitExplained == Init => Explained
  <1> SUFFICES ASSUME Init PROVE Explained
    OBVIOUS
  <1>1. Orphans = {}
    <2>1. CASE Older
      BY <2>1 DEF Older, Orphans
    <2>2. CASE Announced
      <3>1. PICK row : row = [Row(MessageForState(repair)) EXCEPT !.st = "sent", !.tries = 1,
                                                                 !.posted = TRUE]
        OBVIOUS
      <3>2. ledger = <<row>> /\ row.st = "sent"
        BY <2>2, <3>1 DEF Announced, Row
      <3> QED BY <3>2 DEF Orphans, Pending
    <2> QED BY <2>1, <2>2 DEF Init
  <1>2. Debt = 0 /\ excuse = 0
    BY DEF Init, Debt, Owes, Race
  <1> QED BY <1>1, <1>2, FS_EmptySet DEF Explained

LEMMA Balanced == Spec => [](IInv /\ Orderly /\ Explained)
  BY InitHolds, InitOrderly, InitExplained, StepHolds, StepOrderly, StepExplained, PTL
     DEF Spec

\* Whatever dies, is lost or turned away, and however many attempts run side by
\* side: no message is posted again without an attempt cut short or unaware.
THEOREM AllExplained == Spec => []DuplicatesExplained
  <1>1. IInv /\ Explained => DuplicatesExplained
    <2> SUFFICES ASSUME IInv, Explained PROVE excuse >= 0
      BY DEF DuplicatesExplained
    <2>1. excuse \in Int /\ Cardinality(Orphans) \in Nat
      BY OrphansCounted DEF IInv, TypeOK
    <2>2. Debt >= 0 /\ Debt \in Int
      BY DEF Debt, Owes, Race
    <2> QED BY <2>1, <2>2 DEF Explained
  <1> QED BY <1>1, Balanced, PTL

-----------------------------------------------------------------------------
(* The refinement: each step is one of Outbox's, or a stutter. *)

Promises == [Out!Next]_<<Recorded, Standings, InChannel, excuse>>

\* An attempt that posts what was spoken of has an excuse.
LEMMA SpokenExcused ==
    ASSUME TypeOK, Explained, NEW p \in Procs, pc[p] = "post", Spoken(job[p].row)
    PROVE  excuse > 0
  <1>1. excuse \in Int /\ Cardinality(Orphans) \in Nat
    BY OrphansCounted DEF TypeOK
  <1>2. Owes(p) = 1
    BY DEF Owes
  <1>3. Debt >= 1 /\ Debt \in Int
    BY <1>2 DEF Debt, Owes, Race
  <1> QED BY <1>1, <1>3 DEF Explained

\* What an edited row is to the outbox.
LEMMA EditSeen ==
    ASSUME TypeOK, NEW i, Edited(i)
    PROVE  /\ i \in DOMAIN Recorded /\ Recorded' = Recorded
           /\ Standings' = [Standings EXCEPT ![i] = ledger'[i].st]
           /\ ledger'[i].posted => InChannel' = InChannel \cup {i}
           /\ ledger'[i].posted = ledger[i].posted => InChannel' = InChannel
           /\ Out!Spoken(i) <=> Spoken(i)
           /\ i \in InChannel <=> ledger[i].posted
  <1>1. /\ DOMAIN ledger = 1 .. Len(ledger) /\ DOMAIN ledger' = 1 .. Len(ledger)
        /\ i \in 1 .. Len(ledger)
    BY DEF TypeOK, Edited
  <1>2. \A k \in 1 .. Len(ledger) : k # i => ledger'[k] = ledger[k]
    BY DEF Edited
  <1>3. \A k \in 1 .. Len(ledger) : ledger'[k].id = ledger[k].id
    <2> SUFFICES ASSUME NEW k \in 1 .. Len(ledger) PROVE ledger'[k].id = ledger[k].id
      OBVIOUS
    <2>1. CASE k = i
      BY <2>1 DEF Edited
    <2>2. CASE k # i
      BY <1>2, <2>2
    <2> QED BY <2>1, <2>2
  <1>4. i \in DOMAIN Recorded /\ Recorded' = Recorded
    BY <1>1, <1>3 DEF Recorded
  <1>5. Standings' = [Standings EXCEPT ![i] = ledger'[i].st]
    BY <1>1, <1>2 DEF Standings
  <1>6. /\ ledger'[i].posted => InChannel' = InChannel \cup {i}
        /\ ledger'[i].posted = ledger[i].posted => InChannel' = InChannel
    BY <1>1, <1>2 DEF InChannel
  <1>7. i \in InChannel <=> ledger[i].posted
    BY <1>1 DEF InChannel
  <1>8. Standings[i] = ledger[i].st
    BY <1>1 DEF Standings
  <1> QED BY <1>4, <1>5, <1>6, <1>7, <1>8 DEF Spoken, Out!Spoken

\* What is posted, and answered or not.
LEMMA PostPromised ==
    ASSUME TypeOK, Explained, NEW p \in Procs, pc[p] = "post",
           Edited(job[p].row), ledger'[job[p].row].posted,
           ledger'[job[p].row].st \in {ledger[job[p].row].st, "unknown"},
           excuse' = excuse - Twice(p)
    PROVE  Promises
  <1>1. PICK i : i = job[p].row
    OBVIOUS
  <1>2. i \in DOMAIN Recorded /\ Recorded' = Recorded /\ InChannel' = InChannel \cup {i}
    BY <1>1, EditSeen
  <1>3. Standings' \in {Standings, [Standings EXCEPT ![i] = "unknown"]}
    <2>1. Standings' = [Standings EXCEPT ![i] = ledger'[i].st]
      BY <1>1, EditSeen
    <2>2. Standings = [Standings EXCEPT ![i] = ledger[i].st]
      BY DEF Standings
    <2> QED BY <1>1, <2>1, <2>2
  <1>4. Out!Spoken(i) => excuse > 0
    BY <1>1, EditSeen, SpokenExcused
  <1>5. excuse' = IF i \in InChannel THEN excuse - 1 ELSE excuse
    BY <1>1, EditSeen DEF Twice, TypeOK
  <1>6. Out!Post(i)
    BY <1>2, <1>3, <1>4, <1>5 DEF Out!Post
  <1> QED BY <1>2, <1>6 DEF Promises, Out!Next

\* How a message is settled, by whoever has it.
LEMMA SettlePromised ==
    ASSUME TypeOK, Orderly, Explained, NEW p \in Procs,
           NEW st \in {"sent", "pending", "failed", "disabled"}, NEW tried,
           Settle(p, st, tried),
           pc[p] = CASE st = "sent" -> "sent"
                     [] st = "disabled" -> "disable"
                     [] st \in {"pending", "failed"} -> "post"
    PROVE  Promises
  <1>1. PICK i : i = job[p].row
    OBVIOUS
  <1>2. pc[p] = "disable" \/ Attempting(p)
    BY DEF Attempting
  <1>3. Edited(i) /\ ledger'[i].st = st /\ ledger'[i].posted = ledger[i].posted
    BY <1>1, <1>2, SettledRow
  <1>4. /\ i \in DOMAIN Recorded /\ Recorded' = Recorded /\ InChannel' = InChannel
        /\ Standings' = [Standings EXCEPT ![i] = st] /\ excuse' = excuse
    BY <1>3, EditSeen DEF Settle
  <1>5. st = "sent" => i \in InChannel
    <2>1. st = "sent" => ledger[i].posted
      BY <1>1 DEF Orderly, Aired
    <2> QED BY <1>3, <2>1, EditSeen
  <1>6. st # "sent" /\ Out!Spoken(i) => excuse > 0
    <2>1. CASE st \in {"pending", "failed"}
      BY <1>1, <1>3, <2>1, EditSeen, SpokenExcused
    <2>2. CASE st = "disabled"
      <3>1. p = "worker" /\ pc["worker"] = "disable"
        BY <2>2 DEF Orderly, Apart
      <3>2. ~Spoken(i)
        BY <1>1, <3>1 DEF Orderly, Apart, Spoken
      <3> QED BY <1>3, <3>2, EditSeen
    <2> QED BY <2>1, <2>2
  <1>7. Out!Settle(i, st)
    BY <1>4, <1>5, <1>6 DEF Out!Settle
  <1> QED BY <1>4, <1>7 DEF Promises, Out!Next

\* A process dies, or begins an attempt unaware of another, or says nothing.
LEMMA QuietPromised ==
    ASSUME ledger' = ledger, excuse' \in {excuse, excuse + 1}
    PROVE  Promises
  <1>1. Recorded' = Recorded /\ Standings' = Standings /\ InChannel' = InChannel
    BY DEF Recorded, Standings, InChannel
  <1>2. CASE excuse' = excuse
    BY <1>1, <1>2 DEF Promises
  <1>3. CASE excuse' = excuse + 1
    <2>1. Out!Excuse
      BY <1>1, <1>3 DEF Out!Excuse
    <2> QED BY <2>1 DEF Promises, Out!Next
  <1> QED BY <1>2, <1>3

LEMMA KillPromised ==
    ASSUME TypeOK, NEW p \in Procs, Kill(p)
    PROVE  Promises
  <1>1. CASE pc[p] # "post"
    <2>1. ledger' = ledger /\ excuse' \in {excuse, excuse + 1}
      BY <1>1 DEF Kill, TypeOK
    <2> QED BY <2>1, QuietPromised
  <1>2. CASE pc[p] = "post"
    <2>1. PICK i : i = job[p].row
      OBVIOUS
    <2>2. ledger' = [ledger EXCEPT ![job[p].row].posted = TRUE]
      BY <1>2 DEF Kill
    <2>3. Edited(i) /\ ledger'[i].posted /\ ledger'[i].st = ledger[i].st
      BY <1>2, <2>1, <2>2, AnsweredRow
    <2>4. /\ i \in DOMAIN Recorded /\ Recorded' = Recorded
          /\ InChannel' = InChannel \cup {i} /\ Standings' = Standings
      <3>1. Standings' = [Standings EXCEPT ![i] = ledger[i].st]
        BY <2>3, EditSeen
      <3>2. Standings = [Standings EXCEPT ![i] = ledger[i].st]
        BY DEF Standings
      <3> QED BY <2>3, <3>1, <3>2, EditSeen
    <2>5. excuse' = excuse + 1 - Twice(p)
      BY <1>2 DEF Kill, Attempting, Twice, TypeOK
    <2>6. CASE ledger[i].posted
      <3>1. excuse' = excuse
        BY <2>1, <2>5, <2>6 DEF Twice, TypeOK
      <3>2. InChannel' = InChannel
        BY <2>3, <2>6, EditSeen
      <3> QED BY <2>4, <3>1, <3>2 DEF Promises
    <2>7. CASE ~ledger[i].posted
      <3>1. excuse' = excuse + 1
        BY <2>1, <2>5, <2>7 DEF Twice, TypeOK
      <3>2. Out!Excuse
        BY <2>4, <3>1 DEF Out!Excuse
      <3> QED BY <3>2 DEF Promises, Out!Next
    <2> QED BY <2>6, <2>7
  <1> QED BY <1>1, <1>2

LEMMA DeliverPromised ==
    ASSUME TypeOK, Orderly, Explained, NEW p \in Procs, Deliver(p)
    PROVE  Promises
  <1>1. CASE Answered(p)
    <2>1. /\ pc[p] = "post" /\ excuse' = excuse - Twice(p)
          /\ ledger' = [ledger EXCEPT ![job[p].row].posted = TRUE]
      BY <1>1 DEF Answered
    <2> QED BY <2>1, AnsweredRow, PostPromised
  <1>2. CASE Unanswered(p)
    <2>1. pc[p] = "post" /\ excuse' = excuse - Twice(p)
      BY <1>2 DEF Unanswered
    <2> QED BY <1>2, <2>1, UnansweredRow, PostPromised
  <1>3. CASE Adopt(p)
    BY <1>3, QuietPromised DEF Adopt
  <1>4. CASE Sent(p)
    BY <1>4, SettlePromised DEF Sent
  <1>5. CASE Rejected(p)
    <2>1. PICK st \in {"failed", "pending"} : pc[p] = "post" /\ Settle(p, st, 1)
      BY <1>5 DEF Rejected
    <2> QED BY <2>1, SettlePromised
  <1>6. CASE Disable(p)
    BY <1>6, SettlePromised DEF Disable
  <1> QED BY <1>1, <1>2, <1>3, <1>4, <1>5, <1>6 DEF Deliver

Ways == {"pending", "sent", "failed", "unknown", "disabled"}

\* publish() is the unique index: a known event is left alone.
LEMMA PublishPromised ==
    ASSUME TypeOK, Recover \/ Announce \/ Command
    PROVE  Promises
  <1>1. /\ excuse' = excuse
        /\ ledger' = ledger \/ \E p \in Procs, m \in EventIds : Inserted(p, m)
    BY PublishSteps, PublishCases DEF Inserted
  <1>2. CASE ledger' = ledger
    BY <1>1, <1>2, QuietPromised
  <1>3. ASSUME NEW p \in Procs, NEW m \in EventIds, Inserted(p, m)
        PROVE  Promises
    <2>1. /\ ledger \in Seq(Rows) /\ Len(ledger) \in Nat /\ DOMAIN ledger = 1 .. Len(ledger)
          /\ ledger' = Append(ledger, Row(m)) /\ ~Known(m)
      BY <1>3 DEF TypeOK, Inserted
    <2>2. Row(m).id = m /\ Row(m).st = "pending" /\ ~Row(m).posted /\ Row(m) \in Rows
      BY DEF Row, Rows
    <2>3. /\ DOMAIN ledger' = 1 .. Len(ledger) + 1 /\ ledger'[Len(ledger) + 1] = Row(m)
          /\ \A i \in 1 .. Len(ledger) : ledger'[i] = ledger[i]
      BY <2>1, <2>2
    <2>4. /\ Recorded \in Seq(EventIds) /\ Len(Recorded) = Len(ledger)
          /\ Standings \in Seq(Ways) /\ Len(Standings) = Len(ledger)
      <3>1. \A i \in 1 .. Len(ledger) : ledger[i].id \in EventIds /\ ledger[i].st \in Ways
        <4> SUFFICES ASSUME NEW i \in 1 .. Len(ledger)
                     PROVE  ledger[i].id \in EventIds /\ ledger[i].st \in Ways
          OBVIOUS
        <4>1. ledger[i] \in Rows
          BY <2>1
        <4> QED BY <4>1 DEF Rows, Ways
      <3>2. Recorded \in [1 .. Len(ledger) -> EventIds]
        BY <2>1, <3>1 DEF Recorded
      <3>3. Standings \in [1 .. Len(ledger) -> Ways]
        BY <2>1, <3>1 DEF Standings
      <3> QED BY <2>1, <3>2, <3>3
    <2>5. Recorded' = Append(Recorded, m)
      BY <2>1, <2>2, <2>3, <2>4 DEF Recorded
    <2>6. Standings' = Append(Standings, "pending")
      BY <2>1, <2>2, <2>3, <2>4 DEF Standings
    <2>7. InChannel' = InChannel
      BY <2>1, <2>2, <2>3 DEF InChannel
    <2>8. \A n \in DOMAIN Recorded : Recorded[n] # m
      BY <2>1 DEF Known, Recorded
    <2>9. Len(Recorded') = Len(Recorded) + 1
      BY <2>4, <2>5
    <2>10. Out!Record
      BY <1>1, <2>5, <2>6, <2>7, <2>8, <2>9 DEF Out!Record
    <2> QED BY <2>10 DEF Promises, Out!Next
  <1> QED BY <1>1, <1>2, <1>3

LEMMA StepPromised == IInv /\ Orderly /\ Explained /\ [Next]_vars => Promises
  <1> SUFFICES ASSUME IInv, Orderly, Explained, [Next]_vars PROVE Promises
    OBVIOUS
  <1>1. TypeOK
    BY DEF IInv
  <1>2. CASE Recover \/ Announce \/ Command
    BY <1>1, <1>2, PublishPromised
  <1>3. CASE \/ Start \/ Pass \/ PassRaises \/ RecoverRaises \/ AnnounceRaises
             \/ QuietPass \/ Delivered \/ NextDue
             \/ \E waited \in BOOLEAN : Retry(waited)
    BY <1>1, <1>3, QuietSteps, QuietPromised
  <1>4. CASE \E p \in Procs : Deliver(p)
    BY <1>1, <1>4, DeliverPromised
  <1>5. CASE \E p \in Procs : Kill(p)
    BY <1>1, <1>5, KillPromised
  <1>6. CASE UNCHANGED vars
    BY <1>6, QuietPromised DEF vars
  <1> QED BY <1>2, <1>3, <1>4, <1>5, <1>6, StepCases

LEMMA InitPromised == Init => Out!Init
  <1> SUFFICES ASSUME Init PROVE Out!Init
    OBVIOUS
  <1>1. excuse = 0
    BY DEF Init
  <1>2. CASE Older
    <2>1. ledger = <<>>
      BY <1>2 DEF Older
    <2>2. Recorded = <<>> /\ Standings = [n \in DOMAIN Recorded |-> "sent"]
          /\ InChannel = DOMAIN Recorded
      BY <2>1 DEF Recorded, Standings, InChannel
    <2> QED BY <1>1, <2>2 DEF Out!Init
  <1>3. CASE Announced
    <2>1. PICK row : row = [Row(MessageForState(repair)) EXCEPT !.st = "sent", !.tries = 1,
                                                               !.posted = TRUE]
      OBVIOUS
    <2>2. PICK m : m = MessageForState(repair)
      OBVIOUS
    <2>3. ledger = <<row>> /\ row.posted /\ row.st = "sent" /\ row.id = m
      BY <1>3, <2>1, <2>2 DEF Announced, Row
    <2>4. m \in EventIds
      <3>1. repair \in Repairs /\ repair.state = "awaiting_merge"
        <4>1. repair \in Repairs
          BY InitHolds DEF IInv, TypeOK
        <4>2. PICK h : repair = At("awaiting_merge", h)
          BY <1>3 DEF Announced
        <4> QED BY <4>1, <4>2 DEF At
      <3>2. m # Nothing
        BY <2>2, <3>1 DEF MessageForState, ActionOf, MessageFor, Nothing, Plain, OfHead,
               About
      <3> QED BY <2>2, <3>1, <3>2, MessageTyped DEF MessageForState
    <2>5. Recorded = <<m>> /\ Standings = [n \in DOMAIN Recorded |-> "sent"]
          /\ InChannel = DOMAIN Recorded
      BY <2>3 DEF Recorded, Standings, InChannel
    <2> QED BY <1>1, <2>4, <2>5 DEF Out!Init
  <1> QED BY <1>2, <1>3 DEF Init

\* The ledger keeps the promises of Outbox, for any bounds and any messages
\* published by hand: no event has two rows, none is sent that was not posted,
\* and nothing is posted again or reopened without an attempt that died or ran
\* unaware of another (publish(), deliver_due() and the unique index).
THEOREM OutboxImplemented == Spec => OutboxKept
  <1>1. IInv /\ Orderly /\ Explained /\ [Next]_vars
          => [Out!Next]_<<Recorded, Standings, InChannel, excuse>>
    BY StepPromised DEF Promises
  <1> QED BY <1>1, InitPromised, Balanced, PTL DEF Spec, OutboxKept, Out!Spec
=============================================================================
