----------------------------- MODULE NotifyLedger -----------------------------
(***************************************************************************)
(* What the channel is told of one repair: portal/notify.py, with the      *)
(* parts of RepairWorker and of the coordinator that call it.              *)
(*                                                                         *)
(* Two processes share the ledger.  The worker commits an outcome of the   *)
(* repair, then records its message, then delivers what is due; after a    *)
(* restart it records what the row says and the ledger lacks.  An operator *)
(* may publish a message of the same repair from the command line.  A step *)
(* is one committed write or one end of a post, and either process may die *)
(* between two.  Slack posts nothing that it answers with a rejection.     *)
(* Implements Outbox.                                                      *)
(***************************************************************************)
EXTENDS Integers, Sequences

CONSTANTS
    MaxAttempts,  \* MAX_ATTEMPTS
    LastHead,     \* the pull request has heads 1, 2, ..., LastHead
    ByHand,       \* the messages an operator may publish
    MaxTrouble,   \* bound: how many crashes and commands there are
    MaxOutcomes   \* bound: how many outcomes are committed

ASSUME BoundsAreNumbers ==
    /\ MaxAttempts \in Nat \ {0}
    /\ LastHead \in Nat
    /\ MaxTrouble \in Nat
    /\ MaxOutcomes \in Nat

VARIABLES
    repair,   \* the row: its state, its head, and why it stopped or parked
    fresh,    \* repairs.updated_at is not before the ledger's watermark
    owed,     \* history: this state is to be in the ledger, nothing raised over it
    marked,   \* the watermark is set
    ledger,   \* the rows of `notifications`, in the order of their ids
    thread,   \* notification_threads has a parent for the repair
    wired,    \* the worker's notifier is enabled
    pc, job,  \* per process: where it is, and the row it attempts
    said,     \* the worker's decision to announce
    due,      \* what its retry pass has still to attempt
    excuse,   \* history: how many attempts died or ran unaware of another,
              \* less how often a message was posted that may have been there
    trouble, outcomes

record  == <<repair, fresh, owed, marked>>
vars    == <<record, excuse, ledger, thread, wired, pc, job, said, due, trouble, outcomes>>

Procs == {"worker", "command"}

(***************************************************************************)
(* Messages.                                                               *)
(***************************************************************************)
\* An event id: the transition, and the head or the reason it is keyed by.
About(kind, head, why) == [kind |-> kind, head |-> head, why |-> why]
Plain(kind)      == About(kind, 0, "")
OfHead(kind, r)  == About(kind, r.head, "")
OfCause(kind, r) == About(kind, 0, r.why)

Nothing == Plain("nothing")

\* The message of a decision, where one is due.
MessageFor(action, r) ==
    CASE action = "dispatched" /\ r.state = "dispatched" -> Plain("session")
      [] action = "candidate" /\ r.state = "candidate"   -> OfHead("pr", r)
      [] action = "verified"                             -> OfHead("verified", r)
      [] action = "awaiting_merge" /\ r.state = "awaiting_merge" ->
            OfHead("awaiting-merge", r)
      [] action = "merge_verified" -> Plain("merge-verified")
      [] action = "merge_failed"   -> Plain("merge-failed")
      [] action = "blocked"        -> OfHead("blocked", r)
      [] action = "followed_up"    -> OfHead("failed", r)
      [] action \in {"parked", "waiting"} /\ r.state = "needs_attention" ->
            OfCause("attention", r)
      [] \/ action = "stopped"
         \/ action \in {"parked", "waiting", "dispatched", "candidate", "awaiting_merge"}
            /\ r.state = "terminal" -> OfCause("terminal", r)
      [] OTHER -> Nothing

\* The decision a stored state implies.
ActionOf(state) ==
    CASE state = "dispatched"      -> "dispatched"
      [] state = "candidate"       -> "candidate"
      [] state = "verified"        -> "verified"
      [] state = "awaiting_merge"  -> "awaiting_merge"
      [] state = "merged"          -> "merge_verified"
      [] state = "needs_attention" -> "parked"
      [] state = "terminal"        -> "stopped"
      [] OTHER                     -> "none"

MessageForState(r) == MessageFor(ActionOf(r.state), r)

\* What may stand in the ledger for a state: its recovered message, or the one
\* its decision was announced by.
TellsOf(r) ==
    {MessageForState(r)} \cup
    CASE r.state = "needs_attention" -> {OfHead("blocked", r), Plain("merge-failed")}
      [] r.state = "dispatched"      -> {OfHead("failed", r)}
      [] OTHER                       -> {}

(***************************************************************************)
(* What a pass of the controller may decide.                               *)
(***************************************************************************)
To(action, state, r)         == [action |-> action, row |-> [r EXCEPT !.state = state]]
Because(action, state, w, r) ==
    [action |-> action, row |-> [r EXCEPT !.state = state, !.why = w]]

Dispatches(r) ==
    {To("dispatched", "dispatched", r),
     Because("parked", "needs_attention", "stuck", r)}

Polls(r) ==
    {To("running", "dispatched", r),
     Because("waiting", "needs_attention", "stuck", r),
     Because("parked", "needs_attention", "stuck", r),
     Because("classified", "terminal", "no defect", r),
     Because("stopped", "terminal", "budget", r)}
    \cup {To("candidate", "candidate", [r EXCEPT !.head = h]) :
              h \in {r.head, r.head + 1} \cap (1 .. LastHead)}

Verifies(r) ==
    {To("awaiting_merge", "awaiting_merge", r),
     To("verified", "verified", r),
     To("followed_up", "dispatched", r),
     To("skipped", "candidate", r),
     Because("blocked", "needs_attention", "stuck", r),
     Because("stopped", "terminal", "budget", r)}

Merges(r) ==
    {To("awaiting_merge", "awaiting_merge", r),
     To("merge_verified", "merged", r),
     Because("merge_failed", "needs_attention", "stuck", r),
     Because("blocked", "needs_attention", "stuck", r),
     Because("parked", "needs_attention", "stuck", r),
     Because("stopped", "terminal", "budget", r)}

\* A repair whose claim is held is walked in every pass, at rest or not, and
\* recover() parks over an unsettled intent whatever the repair has become.
Decisions(r) ==
    {Because("parked", "needs_attention", "unsettled", r)} \cup
    CASE r.state = "proposed"       -> Dispatches(r)
      [] r.state = "dispatched"     -> Polls(r)
      [] r.state = "candidate"      -> Verifies(r)
      [] r.state = "awaiting_merge" -> Merges(r)
      [] OTHER                      -> {To("parked", r.state, r)}

(***************************************************************************)
(* The ledger.                                                             *)
(***************************************************************************)
\* `posted` is history: the message may be in the channel.
Row(m) == [id |-> m, st |-> "pending", tries |-> 0, posted |-> FALSE]

\* Slip: what was settled may be published anew.
KnownUnsettled(m) == \E i \in DOMAIN ledger : ledger[i].id = m /\ ledger[i].st = "pending"

Known(m) == \E i \in DOMAIN ledger : ledger[i].id = m

\* Some row tells of the state the repair is in.
Told == \E m \in TellsOf(repair) : Known(m)

Pending(i) == i \in DOMAIN ledger /\ ledger[i].st = "pending"

\* What due() reads, how often each row was tried included.  A row that was
\* never tried is due at once, one that was turned away when its wait is over.
DueWhen(waited) ==
    {[row |-> i, tries |-> ledger[i].tries] :
        i \in {k \in DOMAIN ledger : Pending(k) /\ (waited \/ ledger[k].tries = 0)}}

NoJob == [row |-> 0, tries |-> 0, back |-> "resting"]

Work(d, back) == [row |-> d.row, tries |-> d.tries, back |-> back]

Attempting(p) == pc[p] \in {"post", "adopt", "sent"}

Goto(p, l) == pc' = [pc EXCEPT ![p] = l]
Take(p, j) == job' = [job EXCEPT ![p] = j]

\* Slip: the row before the new one is attempted.
PublishBefore(p, m, on, back) ==
    IF m = Nothing \/ Known(m)
    THEN Goto(p, back) /\ UNCHANGED <<ledger, job>>
    ELSE /\ ledger' = Append(ledger, Row(m))
         /\ Take(p, Work([row |-> Len(ledger), tries |-> 0], back))
         /\ Goto(p, IF on THEN "post" ELSE "disable")

\* publish(): a new row is attempted or disabled, a known one left alone.
Publish(p, m, on, back) ==
    IF m = Nothing \/ Known(m)
    THEN Goto(p, back) /\ UNCHANGED <<ledger, job>>
    ELSE /\ ledger' = Append(ledger, Row(m))
         /\ Take(p, Work([row |-> Len(ledger) + 1, tries |-> 0], back))
         /\ Goto(p, IF on THEN "post" ELSE "disable")

(***************************************************************************)
(* The worker.                                                             *)
(***************************************************************************)
\* The coordinator is started again after a crash.
Start ==
    /\ pc["worker"] = "down"
    /\ Goto("worker", "recover")
    /\ UNCHANGED <<excuse, record, ledger, thread, wired, job, said, due, trouble, outcomes>>

\* Slip: every start begins a new ledger.
WatermarkMoves == marked' = TRUE /\ fresh' = FALSE

\* Set on the first read and never moved.
Watermark ==
    /\ marked' = TRUE
    /\ fresh' = (marked /\ fresh)

\* catch_up(): what the row says is recorded, unless it predates the ledger.
Recover ==
    /\ pc["worker"] = "recover"
    /\ Watermark
    /\ LET missing == IF fresh' THEN MessageForState(repair) ELSE Nothing
       IN  Publish("worker", missing, wired, "resting")
    /\ owed' = (owed \/ (fresh' /\ repair.state # "proposed"))
    /\ UNCHANGED <<excuse, repair, thread, wired, said, due, trouble, outcomes>>

\* reconcile() swallows what it raises over a repair: the worker goes on, and what
\* the ledger lacks it lacks until the next start.
RecoverRaises ==
    /\ pc["worker"] = "recover"
    /\ Watermark
    /\ owed' = (owed /\ Told)
    /\ Goto("worker", "resting")
    /\ UNCHANGED <<excuse, repair, ledger, thread, wired, job, said, due, trouble, outcomes>>

\* advance() commits; what it decided is known to this process only, and a
\* classification without a defect is no action message_for() knows.
Pass ==
    /\ pc["worker"] = "resting"
    /\ \E d \in Decisions(repair) :
          /\ repair' = d.row
          /\ said' = d.action
          /\ fresh' = (fresh \/ d.row # repair \/ d.action # "parked")
          /\ owed' = IF d.row = repair THEN owed ELSE d.action # "classified"
          /\ outcomes' = IF d.row = repair THEN outcomes ELSE outcomes + 1
    /\ outcomes' <= MaxOutcomes
    /\ Goto("worker", "announce")
    /\ UNCHANGED <<excuse, marked, ledger, thread, wired, job, due, trouble>>

\* What recover() parked before the pass raised nobody is told.
PassRaises ==
    /\ pc["worker"] = "resting"
    /\ \E row \in {repair, Because("parked", "needs_attention", "unsettled", repair).row} :
          /\ repair' = row
          /\ owed' = (owed /\ row = repair)
          /\ outcomes' = IF row = repair THEN outcomes ELSE outcomes + 1
    /\ outcomes' <= MaxOutcomes
    /\ fresh' = TRUE
    /\ UNCHANGED <<excuse, marked, ledger, thread, wired, pc, job, said, due, trouble>>

\* A pass that walks no repair still retries.
QuietPass ==
    /\ pc["worker"] = "resting"
    /\ Goto("worker", "retry")
    /\ UNCHANGED <<excuse, record, ledger, thread, wired, job, said, due, trouble, outcomes>>

Announce ==
    /\ pc["worker"] = "announce"
    /\ Publish("worker", MessageFor(said, repair), wired, "retry")
    /\ said' = "none"
    /\ UNCHANGED <<excuse, record, thread, wired, due, trouble, outcomes>>

\* _announce() swallows what it raises over a decision, and goes on.
AnnounceRaises ==
    /\ pc["worker"] = "announce"
    /\ owed' = (owed /\ Told)
    /\ said' = "none"
    /\ Goto("worker", "retry")
    /\ UNCHANGED <<excuse, repair, fresh, marked, ledger, thread, wired, job, due,
                   trouble, outcomes>>

\* The operator's process is at this row, or it was settled since it was read.
Unaware(i) == ~Pending(i) \/ (Attempting("command") /\ job["command"].row = i)

\* deliver_due() reads every due row before it attempts the first.
Retry(waited) ==
    /\ pc["worker"] = "retry"
    /\ due' = IF wired THEN DueWhen(waited) ELSE {}
    /\ Goto("worker", "next")
    /\ UNCHANGED <<excuse, record, ledger, thread, wired, job, said, trouble, outcomes>>

\* Rows are attempted in the order of their ids.
NextDue ==
    /\ pc["worker"] = "next"
    /\ \E d \in due :
          /\ \A e \in due : d.row <= e.row
          /\ due' = due \ {d}
          /\ Take("worker", Work(d, "next"))
          /\ excuse' = IF Unaware(d.row) THEN excuse + 1 ELSE excuse
    /\ Goto("worker", "post")
    /\ UNCHANGED <<record, ledger, thread, wired, said, trouble, outcomes>>

Delivered ==
    /\ pc["worker"] = "next"
    /\ due = {}
    /\ Goto("worker", "resting")
    /\ UNCHANGED <<record, excuse, ledger, thread, wired, job, said, due, trouble, outcomes>>

(***************************************************************************)
(* The command line refuses to run without a credential.                   *)
(***************************************************************************)
Command ==
    /\ pc["command"] = "resting"
    /\ trouble < MaxTrouble
    /\ trouble' = trouble + 1
    /\ \E m \in ByHand :
          /\ ~Known(About("by hand", 0, m))
          /\ Publish("command", About("by hand", 0, m), TRUE, "resting")
    /\ UNCHANGED <<record, excuse, thread, wired, said, due, outcomes>>

(***************************************************************************)
(* One attempt, by either process.                                         *)
(***************************************************************************)
Twice(p) == IF ledger[job[p].row].posted THEN 1 ELSE 0

\* Slip: the thread is never remembered.
AnsweredUnthreaded(p) ==
    /\ pc[p] = "post"
    /\ excuse' = excuse - Twice(p)
    /\ ledger' = [ledger EXCEPT ![job[p].row].posted = TRUE]
    /\ Goto(p, "sent")
    /\ UNCHANGED <<record, thread, wired, job, said, due, trouble, outcomes>>

Answered(p) ==
    /\ pc[p] = "post"
    /\ excuse' = excuse - Twice(p)
    /\ ledger' = [ledger EXCEPT ![job[p].row].posted = TRUE]
    /\ Goto(p, IF thread THEN "sent" ELSE "adopt")
    /\ UNCHANGED <<record, thread, wired, job, said, due, trouble, outcomes>>

\* remember_thread()
Adopt(p) ==
    /\ pc[p] = "adopt"
    /\ thread' = TRUE
    /\ Goto(p, "sent")
    /\ UNCHANGED <<excuse, record, ledger, wired, job, said, due, trouble, outcomes>>

Return(p) == Goto(p, job[p].back) /\ Take(p, NoJob)

Settle(p, st, tried) ==
    /\ ledger' = [ledger EXCEPT ![job[p].row].st = st, ![job[p].row].tries = @ + tried]
    /\ Return(p)
    /\ UNCHANGED <<record, excuse, thread, wired, said, due, trouble, outcomes>>

Sent(p)    == pc[p] = "sent" /\ Settle(p, "sent", 1)
Disable(p) == pc[p] = "disable" /\ Settle(p, "disabled", 0)

\* Slip: a lost answer is taken for a refusal.
UnansweredRetries(p) ==
    /\ pc[p] = "post"
    /\ excuse' = excuse - Twice(p)
    /\ ledger' = [ledger EXCEPT ![job[p].row].posted = TRUE,
                               ![job[p].row].tries = @ + 1]
    /\ Return(p)
    /\ UNCHANGED <<record, thread, wired, said, due, trouble, outcomes>>

\* Whether the message is in the channel nobody knows; it is not sent again.
Unanswered(p) ==
    /\ pc[p] = "post"
    /\ excuse' = excuse - Twice(p)
    /\ ledger' = [ledger EXCEPT ![job[p].row].posted = TRUE,
                               ![job[p].row].st = "unknown",
                               ![job[p].row].tries = @ + 1]
    /\ Return(p)
    /\ UNCHANGED <<record, thread, wired, said, due, trouble, outcomes>>

\* Slip: refusals are not counted.
RejectedUncounted(p) == pc[p] = "post" /\ Settle(p, "pending", 0)

\* _retry() goes by the number of tries read with the row.
Rejected(p) ==
    /\ pc[p] = "post"
    /\ Settle(p, IF job[p].tries + 1 >= MaxAttempts THEN "failed" ELSE "pending", 1)

(***************************************************************************)
(* Crashes.                                                                *)
(***************************************************************************)
\* An attempt cut short leaves its row as it was.
Kill(p) ==
    /\ trouble < MaxTrouble
    /\ pc[p] # "down"
    /\ p = "command" => pc[p] # "resting"
    /\ trouble' = trouble + 1
    /\ ledger' = IF pc[p] = "post" THEN [ledger EXCEPT ![job[p].row].posted = TRUE] ELSE ledger
    /\ excuse' = excuse + (IF Attempting(p) THEN 1 ELSE 0)
                       - (IF pc[p] = "post" THEN Twice(p) ELSE 0)
    /\ Take(p, NoJob)
    /\ IF p = "worker"
       THEN Goto(p, "down") /\ due' = {} /\ said' = "none"
       ELSE Goto(p, "resting") /\ UNCHANGED <<due, said>>
    /\ UNCHANGED <<record, thread, wired, outcomes>>

Deliver(p) ==
    \/ Answered(p) \/ Adopt(p) \/ Sent(p) \/ Unanswered(p) \/ Rejected(p) \/ Disable(p)

Worker ==
    \/ Start \/ Recover \/ Pass \/ QuietPass \/ Announce \/ NextDue \/ Delivered
    \/ \E waited \in BOOLEAN : Retry(waited)
    \/ Deliver("worker")

(***************************************************************************)
(* The specification.                                                      *)
(***************************************************************************)
At(state, h) == [state |-> state, head |-> h, why |-> ""]

\* Older than the ledger, or awaiting its merge and announced as that.
Older ==
    /\ repair \in {At("proposed", 0), At("dispatched", 0)}
                    \cup {At("candidate", h) : h \in 1 .. LastHead}
    /\ fresh = FALSE /\ owed = FALSE /\ marked = FALSE /\ thread = FALSE
    /\ ledger = <<>>

Announced ==
    /\ repair \in {At("awaiting_merge", h) : h \in 1 .. LastHead}
    /\ fresh = TRUE /\ owed = TRUE /\ marked = TRUE /\ thread = TRUE
    /\ ledger = <<[Row(MessageForState(repair)) EXCEPT !.st = "sent", !.tries = 1,
                                                      !.posted = TRUE]>>

Init ==
    /\ Older \/ Announced
    /\ wired \in BOOLEAN
    /\ pc = [p \in Procs |-> IF p = "worker" THEN "down" ELSE "resting"]
    /\ job = [p \in Procs |-> NoJob]
    /\ said = "none"
    /\ due = {}
    /\ excuse = 0
    /\ trouble = 0
    /\ outcomes = 0

Next ==
    \/ Worker \/ PassRaises \/ RecoverRaises \/ AnnounceRaises
    \/ Command \/ Deliver("command")
    \/ \E p \in Procs : Kill(p)

\* The loop of the coordinator goes on and not every pass raises, and a row's
\* wait is over at some pass.
Spec == Init /\ [][Next]_vars
FairSpec == Spec /\ WF_vars(Worker) /\ SF_vars(Retry(TRUE))

(***************************************************************************)
(* Properties.                                                             *)
(***************************************************************************)
States == {"proposed", "dispatched", "candidate", "verified", "awaiting_merge",
           "merged", "needs_attention", "terminal"}
Kinds == {"session", "pr", "verified", "awaiting-merge", "merge-verified",
          "merge-failed", "blocked", "failed", "attention", "terminal", "by hand"}
Causes == {"", "stuck", "unsettled", "no defect", "budget"} \cup ByHand
Repairs == [state: States, head: 0 .. LastHead, why: Causes]
EventIds == [kind: Kinds, head: 0 .. LastHead, why: Causes]
Rows == [id: EventIds,
         st: {"pending", "sent", "failed", "unknown", "disabled"},
         tries: Nat, posted: BOOLEAN]
Locations == {"down", "resting", "recover", "announce", "retry", "next", "disable",
              "post", "adopt", "sent"}

\* Every variable has its type, and a process works on a row that exists:
\* what publish() inserted, or deliver_due() read.
TypeOK ==
    /\ repair \in Repairs
    /\ fresh \in BOOLEAN /\ owed \in BOOLEAN /\ marked \in BOOLEAN
    /\ thread \in BOOLEAN /\ wired \in BOOLEAN
    /\ ledger \in Seq(Rows)
    /\ pc \in [Procs -> Locations]
    /\ job \in [Procs -> [row: Nat, tries: Nat, back: {"resting", "retry", "next"}]]
    /\ \A p \in Procs :
          pc[p] = "disable" \/ Attempting(p) => job[p].row \in 1 .. Len(ledger)
    /\ due \subseteq [row: 1 .. Len(ledger), tries: Nat]
    /\ excuse \in Int
    /\ trouble \in 0 .. MaxTrouble /\ outcomes \in 0 .. MaxOutcomes

\* A crash between the controller's write and the message loses no outcome:
\* whenever the worker rests, what it committed last has its row in the ledger.
\* What has none before the next start is what is never announced, a
\* classification without a defect and what recover() parked in a pass that
\* raised, and what announcing or recovering it raised over.
OutcomeRecorded == pc["worker"] = "resting" /\ owed => Told

\* Nothing is sent twice on purpose: for every time a message is posted that may
\* be in the channel already, an attempt died before its outcome was written or
\* ran unaware of another.  An answer that was lost is no such excuse.
DuplicatesExplained == excuse >= 0

\* The first delivered message is the parent of the rest: none counts as sent
\* before the repair has its thread, also when a process dies in between.
SentThreaded ==
    (\E i \in DOMAIN ledger : ledger[i].st = "sent") => thread

\* With a credential, deliver_due() ends every message: again and again none is
\* left pending, however often Slack turns them away.
AllSettle == []<>(wired => \A i \in DOMAIN ledger : ~Pending(i))

\* What the outbox sees of the rows.
Recorded  == [i \in DOMAIN ledger |-> ledger[i].id]
Standings == [i \in DOMAIN ledger |-> ledger[i].st]
InChannel == {i \in DOMAIN ledger : ledger[i].posted}

Out == INSTANCE Outbox WITH
    Message <- EventIds, event <- Recorded, standing <- Standings, posted <- InChannel

\* The ledger keeps the promises of Outbox, for two processes that die and attempt
\* side by side: an event is recorded once, what counts as sent was posted, and
\* neither is a message posted again nor a settled one reopened without an excuse.
OutboxKept == Out!Spec
===============================================================================
