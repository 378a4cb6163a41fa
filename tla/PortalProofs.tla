------------------------------ MODULE PortalProofs ------------------------------
(***************************************************************************)
(* For any products, threads, tabs and bounds: the portal's requests work  *)
(* on links and charts that exist; the demo chart is made once, unless two *)
(* look for it at once or its list is not read; the restricted profile     *)
(* changes no chart; the explorations table tells the truth about a sound  *)
(* product's links that no two requests had in hand and none broke off     *)
(* about; one of those that comes back to life after its discard is        *)
(* reported, if its row is among the newest; an alarm about one that is    *)
(* raised by an answer is true; and the validator's verdict is what the    *)
(* product answered, with the exceptions VerdictIsExact names.             *)
(***************************************************************************)
EXTENDS Portal, ValidatorProofs, FiniteSetTheorems, TLAPS

-----------------------------------------------------------------------------
(* The inductive invariant. *)

LinkSteps  == {"judging", "keeping", "looking", "fetching", "deleting", "marking", "verifying"}
ChartSteps == {"noting", "updating", "reading", "misreading"}

SavedKeys == 1 .. Len(superset.saved)

Configs == [limit: Nat, palette: {"google", "omitted", "none"},
            sort: {"asc", "desc", "omitted"}]

\* A request as the program builds it; what it has seen is a record or a chart.
IsRequest(j) ==
    /\ j = [does |-> j.does, profile |-> j.profile, tab |-> j.tab, item |-> j.item,
            spec |-> j.spec, config |-> j.config, seen |-> j.seen]
    /\ j.profile \in Profiles

Typed ==
    /\ product \in Products
    /\ page \in {"explorations", "settings"}
    /\ superset \in [saved: Seq(Specs \union {"gone"}), current: [Tabs -> Nat]]
    /\ \A tab \in Tabs : superset.current[tab] \in 0 .. Len(superset.saved)
    /\ charts \in Seq(Configs)
    /\ records \in [Keys -> [spec: Specs \union {"none"}, discarded: BOOLEAN]]
    /\ \A key \in Keys : records[key] # NoRecord => key \in SavedKeys
    /\ newer \subseteq Keys \X Keys
    /\ pc \in [Threads -> Steps]
    /\ job = [t \in Threads |-> job[t]]
    /\ \A t \in Threads : IsRequest(job[t])
    /\ requests \in 0 .. MaxRequests
    /\ gone \subseteq Keys

\* What a request has in hand where it is.
PlacedAt(t) ==
    /\ pc[t] \in {"idle", "posting", "clearing"} => job[t].item = <<>>
    /\ pc[t] \in LinkSteps => \E key \in SavedKeys : job[t].item = Link(key)
    /\ pc[t] \in {"finding", "generating"} => job[t].item = TheChart
    /\ pc[t] \in ChartSteps => \E n \in DOMAIN charts : job[t].item = Chart(n)
    /\ pc[t] = "posting" => job[t].tab \in Tabs
    /\ pc[t] \in {"posting", "judging", "keeping"} => job[t].spec \in Specs
    /\ pc[t] = "updating" => Editor(t)
    /\ pc[t] \in {"clearing", "finding", "generating", "noting", "updating"} =>
          job[t].config \in Configs

Items == {TheChart} \union {Link(key) : key \in Keys} \union {Chart(n) : n \in DOMAIN charts}

\* What is remembered of them, and what is never forgotten.
Noted == alarms \union unfounded \union overlooked
Grown == /\ alarms \subseteq alarms' /\ unfounded \subseteq unfounded'
         /\ overlooked \subseteq overlooked'

\* Tuples and sets of variables are expanded everywhere.
USE DEF table, findings, Noted, Grown

\* Every saved key was a request's: those still posting are to come.
Posting  == {t \in Threads : pc[t] = "posting"}
Counting == IsFiniteSet(Posting) /\ Len(superset.saved) + Cardinality(Posting) <= requests

\* Two requests about the same thing overlap.
Sharing ==
    \A t, u \in Threads :
       t # u /\ job[t].item = job[u].item /\ job[t].item # <<>> => job[t].item \in muddled

\* Who is about to make the demo chart makes the first, or it is muddled.
Charting ==
    TheChart \notin muddled =>
       /\ Len(charts) <= 1
       /\ Len(charts) = 1 => \A t \in Threads : pc[t] # "generating"

\* A tab goes on with a live key, where keys are renewed.
Living ==
    product.keys # "reused" =>
       \A tab \in Tabs : superset.current[tab] # 0 =>
          superset.saved[superset.current[tab]] # "gone"

Has(t, key) == job[t].item = Link(key)
Free(key)   == \A t \in Threads : ~Has(t, key)

Agrees(key) ==
    records[key] # NoRecord =>
       superset.saved[key] = IF Discarded(key) THEN "gone" ELSE records[key].spec

\* Where a request stands with the one link it has in hand.
Stage(t, key) ==
    /\ pc[t] \in {"judging", "keeping"} =>
          superset.saved[key] = job[t].spec /\ ~Discarded(key)
    /\ pc[t] \in {"looking", "fetching", "deleting"} => Agrees(key)
    /\ pc[t] = "marking" => superset.saved[key] = "gone"
    /\ pc[t] = "verifying" =>
          superset.saved[key] = "gone" /\ (records[key] # NoRecord => Discarded(key))

Keeps == product.keys # "reused" /\ product.deletes

Truth ==
    Keeps =>
       \A key \in Keys : Link(key) \notin muddled =>
          /\ Free(key) => Agrees(key)
          /\ \A t \in Threads : Has(t, key) => Stage(t, key)

\* A discarded link that lives is reported, or about to be.
Reports(key) ==
    Link(key) \notin overlooked =>
       /\ \A t \in Threads : pc[t] = "keeping" /\ Has(t, key) => ~Discarded(key)
       /\ key \in gone =>
             /\ key \in SavedKeys
             /\ Discarded(key)
             /\ \/ superset.saved[key] = "gone"
                \/ Link(key) \in alarms \union unfounded
                \/ \E t \in Threads : Has(t, key) /\ pc[t] \in {"judging", "verifying"}

Reporting == \A key \in Keys : Link(key) \notin muddled => Reports(key)

IInv ==
    /\ Typed
    /\ \A t \in Threads : PlacedAt(t)
    /\ Noted \union muddled \subseteq Items
    /\ Counting /\ Sharing /\ Charting /\ Living /\ Truth /\ Reporting

-----------------------------------------------------------------------------
(* Requests and what they are about. *)

LEMMA ItemsApart ==
    /\ \A k : Link(k) # <<>> /\ Link(k)[2] = k
    /\ \A n : Chart(n) # <<>> /\ Chart(n)[2] = n
    /\ \A k, n : Link(k) # Chart(n)
    /\ \A k, l : Link(k) = Link(l) => k = l
    /\ \A m, n : Chart(m) = Chart(n) => m = n
  <1>1. ASSUME NEW k PROVE Link(k)[1] = "key" /\ Link(k)[2] = k /\ Link(k) # <<>>
    BY DEF Link
  <1>2. ASSUME NEW n PROVE Chart(n)[1] = "chart" /\ Chart(n)[2] = n /\ Chart(n) # <<>>
    BY DEF Chart
  <1>3. ASSUME NEW k, NEW n PROVE Link(k) # Chart(n)
    BY <1>1, <1>2
  <1>4. ASSUME NEW k, NEW l, Link(k) = Link(l) PROVE k = l
    BY <1>1, <1>4
  <1>5. ASSUME NEW m, NEW n, Chart(m) = Chart(n) PROVE m = n
    BY <1>2, <1>5
  <1> QED BY <1>1, <1>2, <1>3, <1>4, <1>5

LEMMA SpecsTyped ==
    /\ "gone" \notin Specs /\ "none" \notin Specs
    /\ \A n \in 1 .. MaxRequests : States[n] \in Specs
  <1>1. MaxRequests \in 1 .. 4 /\ DOMAIN States = 1 .. 4
    BY BoundsAreNaturals DEF States
  <1>2. \A n \in 1 .. 4 : States[n] \in {"a", "b", "c", "d"}
    BY DEF States
  <1>3. Specs \subseteq {"a", "b", "c", "d"}
    BY <1>1, <1>2 DEF Specs
  <1>4. \A n \in 1 .. MaxRequests : n \in 1 .. 4
    BY <1>1
  <1>5. \A n \in 1 .. MaxRequests : States[n] \in Specs
    BY <1>1, <1>4 DEF Specs
  <1> QED BY <1>3, <1>5

\* What a new request has, by the step it begins with.
Begun(j, step) ==
    /\ IsRequest(j)
    /\ step \in {"posting", "looking", "deleting", "finding", "clearing"}
    /\ step \in {"posting", "clearing"} => j.item = <<>>
    /\ step = "posting" => j.tab \in Tabs /\ j.spec \in Specs
    /\ step \in {"looking", "deleting"} => \E key \in SavedKeys : j.item = Link(key)
    /\ step = "finding" => j.item = TheChart
    /\ step \in {"clearing", "finding"} => j.config \in Configs

LEMMA RequestBegun ==
    ASSUME Typed, requests < MaxRequests, NEW j \in Requests
    PROVE  Begun(j, FirstStep[j.does])
  <1> USE DEF Request, IsRequest, Begun, FirstStep
  <1>1. Fixture \in Configs
    BY DEF Fixture, Config, CHART_ROW_LIMIT, Configs
  <1>2. CASE j = Request("reset", "analyst", 0, <<>>, "none", Fixture)
    BY <1>1, <1>2 DEF Profiles
  <1>3. ASSUME NEW profile \in Profiles, NEW tab \in Tabs,
               j = Request("save", profile, tab, <<>>, States[requests + 1], Only(Omitted))
        PROVE  Begun(j, FirstStep[j.does])
    <2>1. States[requests + 1] \in Specs
      <3>1. requests + 1 \in 1 .. MaxRequests
        BY BoundsAreNaturals DEF Typed
      <3> QED BY <3>1, SpecsTyped
    <2> QED BY <1>3, <2>1
  <1>4. ASSUME NEW does \in {"open", "discard"}, NEW profile \in Profiles,
               NEW key \in DOMAIN superset.saved,
               j = Request(does, profile, 0, Link(key), "none", Only(Omitted))
        PROVE  Begun(j, FirstStep[j.does])
    <2>1. key \in SavedKeys
      BY DEF Typed, SavedKeys
    <2> QED BY <1>4, <2>1
  <1>5. ASSUME NEW profile \in Profiles,
               j = Request("view", profile, 0, TheChart, "none", Only(Omitted))
        PROVE  Begun(j, FirstStep[j.does])
    BY <1>5 DEF Only, Config, Configs, Omitted
  <1>6. ASSUME NEW profile \in Profiles, NEW limit \in {Omitted, 275},
               NEW direction \in {"asc", "desc"},
               j = Request("sort", profile, 0, TheChart, "none", Sorted(limit, direction))
        PROVE  Begun(j, FirstStep[j.does])
    <2>1. Sorted(limit, direction) \in Configs
      BY DEF Sorted, Config, Configs, Omitted
    <2> QED BY <1>6, <2>1
  <1> HIDE DEF Request, IsRequest, Begun, FirstStep
  <1>7. CASE page = "explorations"
    BY <1>2, <1>3, <1>4, <1>7 DEF Requests
  <1>8. CASE page = "settings"
    BY <1>2, <1>5, <1>6, <1>8 DEF Requests
  <1> QED BY <1>7, <1>8 DEF Typed

-----------------------------------------------------------------------------
(* The product. *)

\* A save goes to a new key, or to one its tab goes on with.
SaveGives(s, k, spec) ==
    /\ s \in [saved: Seq(Specs \union {"gone"}), current: [Tabs -> Nat]]
    /\ \A tb \in Tabs : s.current[tb] \in 0 .. Len(s.saved)
    /\ \A tb \in Tabs : s.current[tb] \in {superset.current[tb], k}
    /\ k \in 1 .. Len(s.saved) /\ s.saved[k] = spec
    /\ \/ Len(s.saved) = Len(superset.saved)
          /\ \E tb \in Tabs : superset.current[tb] = k
       \/ Len(s.saved) = Len(superset.saved) + 1 /\ k = Len(s.saved)
    /\ \A i \in SavedKeys : i # k => s.saved[i] = superset.saved[i]

LEMMA SaveKeeps ==
    ASSUME Typed, NEW tab \in Tabs, NEW spec \in Specs, NEW s, NEW k,
           s = Save(product, superset, tab, spec), k = KeyOf(product, s, tab)
    PROVE  SaveGives(s, k, spec)
  <1>1. /\ superset \in [saved: Seq(Specs \union {"gone"}), current: [Tabs -> Nat]]
        /\ \A tb \in Tabs : superset.current[tb] \in 0 .. Len(superset.saved)
        /\ Len(superset.saved) \in Nat /\ superset.saved \in Seq(Specs \union {"gone"})
    BY DEF Typed
  <1>2. PICK tb \in Tabs : \A x : DOMAIN x.current = Tabs => Tab(product, x, tab) = tb
    <2>1. CASE product.tabs = "own"
      BY <2>1 DEF Tab
    <2>2. CASE product.tabs # "own"
      <3>1. \A x : DOMAIN x.current = Tabs => Tab(product, x, tab) = CHOOSE t \in Tabs : TRUE
        BY <2>2 DEF Tab
      <3>2. (CHOOSE t \in Tabs : TRUE) \in Tabs
        OBVIOUS
      <3> QED BY <3>1, <3>2
    <2> QED BY <2>1, <2>2
  <1>3. Tab(product, superset, tab) = tb
    BY <1>1, <1>2
  <1>4. PICK key \in 0 .. Len(superset.saved) :
            key = superset.current[tb] /\ key = KeyOf(product, superset, tab)
    BY <1>1, <1>3 DEF KeyOf
  <1>5. CASE key = 0 \/ product.keys = "unshared"
    <2>1. s = [saved   |-> Append(superset.saved, spec),
               current |-> [superset.current EXCEPT ![tb] = Len(superset.saved) + 1]]
      <3>1. KeyOf(product, superset, tab) = 0 \/ product.keys = "unshared"
        BY <1>4, <1>5
      <3>2. s = [saved   |-> Append(superset.saved, spec),
                 current |-> [superset.current EXCEPT
                                ![Tab(product, superset, tab)] = Len(superset.saved) + 1]]
        BY <3>1, SaveIs
      <3> QED BY <1>3, <3>2, Zenon
    <2>2. /\ s.saved \in Seq(Specs \union {"gone"})
          /\ Len(s.saved) = Len(superset.saved) + 1
          /\ s.saved[Len(superset.saved) + 1] = spec
          /\ \A i \in SavedKeys : s.saved[i] = superset.saved[i]
      BY <1>1, <2>1 DEF SavedKeys
    <2>3. /\ s.current \in [Tabs -> Nat]
          /\ s.current[tb] = Len(superset.saved) + 1
          /\ \A t \in Tabs \ {tb} : s.current[t] = superset.current[t]
      BY <1>1, <2>1
    <2>4. k = Len(superset.saved) + 1
      BY <1>2, <2>3 DEF KeyOf
    <2>5. \A t \in Tabs : s.current[t] \in 0 .. Len(s.saved)
      BY <1>1, <2>2, <2>3
    <2>6. s \in [saved: Seq(Specs \union {"gone"}), current: [Tabs -> Nat]]
      BY <2>1, <2>2, <2>3
    <2>7. \A t \in Tabs : s.current[t] \in {superset.current[t], k}
      BY <2>3, <2>4
    <2>8. k \in 1 .. Len(s.saved) /\ s.saved[k] = spec /\ k = Len(s.saved)
      BY <1>1, <2>2, <2>4
    <2> QED BY <2>2, <2>5, <2>6, <2>7, <2>8 DEF SaveGives
  <1>6. CASE ~(key = 0 \/ product.keys = "unshared")
    <2>1. s = [superset EXCEPT !.saved[key] = spec]
      <3>1. ~(KeyOf(product, superset, tab) = 0 \/ product.keys = "unshared")
        BY <1>4, <1>6
      <3>2. s = [superset EXCEPT !.saved[KeyOf(product, superset, tab)] = spec]
        BY <3>1, SaveIs
      <3> QED BY <1>4, <3>2, Zenon
    <2>2. s.saved = [superset.saved EXCEPT ![key] = spec] /\ s.current = superset.current
      BY <1>1, <2>1
    <2>3. k = key /\ key \in 1 .. Len(superset.saved)
      BY <1>1, <1>2, <1>4, <1>6, <2>2 DEF KeyOf
    <2>4. /\ s.saved \in Seq(Specs \union {"gone"})
          /\ Len(s.saved) = Len(superset.saved)
          /\ s.saved[key] = spec
          /\ \A i \in SavedKeys : i # key => s.saved[i] = superset.saved[i]
      BY <1>1, <2>2, <2>3 DEF SavedKeys
    <2>5. s \in [saved: Seq(Specs \union {"gone"}), current: [Tabs -> Nat]]
      BY <1>1, <2>1, <2>2, <2>4
    <2> QED BY <1>1, <1>4, <2>2, <2>3, <2>4, <2>5 DEF SaveGives
  <1> QED BY <1>5, <1>6

\* A deletion is of one key, which no tab goes on with where keys are renewed.
LEMMA DeleteKeeps ==
    ASSUME Typed, NEW k \in SavedKeys, NEW s, s = Delete(product, superset, k)
    PROVE  /\ s \in [saved: Seq(Specs \union {"gone"}), current: [Tabs -> Nat]]
           /\ \A tb \in Tabs : s.current[tb] \in {0, superset.current[tb]}
           /\ product.keys # "reused" => \A tb \in Tabs : s.current[tb] # k \/ s.current[tb] = 0
           /\ Len(s.saved) = Len(superset.saved)
           /\ s.saved[k] \in {"gone", superset.saved[k]}
           /\ product.deletes => s.saved[k] = "gone"
           /\ \A i \in SavedKeys : i # k => s.saved[i] = superset.saved[i]
  <1>1. /\ superset.saved \in Seq(Specs \union {"gone"}) /\ superset.current \in [Tabs -> Nat]
        /\ Len(superset.saved) \in Nat
    BY DEF Typed
  <1>2. s = [saved |-> s.saved, current |-> s.current]
    BY DEF Delete
  <1>3. /\ s.saved \in Seq(Specs \union {"gone"})
        /\ Len(s.saved) = Len(superset.saved)
        /\ s.saved[k] \in {"gone", superset.saved[k]}
        /\ product.deletes => s.saved[k] = "gone"
        /\ \A i \in SavedKeys : i # k => s.saved[i] = superset.saved[i]
    <2>1. CASE product.deletes
      <3>1. s.saved = [superset.saved EXCEPT ![k] = "gone"]
        BY <2>1 DEF Delete
      <3> QED BY <1>1, <3>1 DEF SavedKeys
    <2>2. CASE ~product.deletes
      BY <1>1, <2>2 DEF Delete
    <2> QED BY <2>1, <2>2
  <1>4. /\ s.current \in [Tabs -> Nat]
        /\ \A tb \in Tabs : s.current[tb] \in {0, superset.current[tb]}
        /\ product.keys # "reused" => \A tb \in Tabs : s.current[tb] # k \/ s.current[tb] = 0
    <2>1. CASE product.keys = "reused"
      BY <1>1, <2>1 DEF Delete
    <2>2. CASE product.keys # "reused"
      <3>1. s.current = [t \in Tabs |-> IF superset.current[t] = k THEN 0
                                        ELSE superset.current[t]]
        BY <1>1, <2>2 DEF Delete
      <3> QED BY <1>1, <3>1
    <2> QED BY <2>1, <2>2
  <1> QED BY <1>2, <1>3, <1>4

-----------------------------------------------------------------------------
(* What a step of one thread leaves alone. *)

\* Thread t is at a step with a request in hand; the others are where they were.
Moves(t, step, j) ==
    /\ pc' \in [Threads -> Steps]
    /\ job' = [u \in Threads |-> job'[u]]
    /\ \A u \in Threads : IsRequest(job'[u])
    /\ pc'[t] = step /\ job'[t] = j
    /\ \A u \in Threads \ {t} : pc'[u] = pc[u] /\ job'[u] = job[u]

LEMMA GoesMoves ==
    ASSUME Typed, NEW t \in Threads, NEW step \in Steps, NEW j, IsRequest(j), Goes(t, step, j)
    PROVE  Moves(t, step, j)
  <1>1. /\ pc \in [Threads -> Steps] /\ job = [u \in Threads |-> job[u]]
        /\ \A u \in Threads : IsRequest(job[u])
        /\ pc' = [pc EXCEPT ![t] = step] /\ job' = [job EXCEPT ![t] = j]
    BY DEF Typed, Goes
  <1>2. DOMAIN job = Threads
    BY <1>1
  <1>3. /\ job' = [u \in Threads |-> IF u = t THEN j ELSE job[u]]
    BY <1>1, <1>2
  <1>4. /\ job' = [u \in Threads |-> job'[u]]
        /\ job'[t] = j /\ \A u \in Threads \ {t} : job'[u] = job[u]
    BY <1>3
  <1>5. /\ pc' \in [Threads -> Steps] /\ pc'[t] = step
        /\ \A u \in Threads \ {t} : pc'[u] = pc[u]
    BY <1>1
  <1>6. \A u \in Threads : IsRequest(job'[u])
    BY <1>1, <1>4
  <1> QED BY <1>4, <1>5, <1>6 DEF Moves

\* An idle thread has no request.
LEMMA IdleTyped == IsRequest(Idle) /\ Idle.item = <<>> /\ "idle" \in Steps
  BY DEF Idle, IsRequest, Request, Profiles, Steps

\* A request that has got another item is still a request.
LEMMA WithItem ==
    ASSUME NEW j, IsRequest(j), NEW item
    PROVE  /\ IsRequest([j EXCEPT !.item = item])
           /\ [j EXCEPT !.item = item].item = item
           /\ [j EXCEPT !.item = item].does = j.does
           /\ [j EXCEPT !.item = item].profile = j.profile
           /\ [j EXCEPT !.item = item].spec = j.spec
           /\ [j EXCEPT !.item = item].config = j.config
  BY DEF IsRequest

LEMMA WithSeen ==
    ASSUME NEW j, IsRequest(j), NEW seen
    PROVE  /\ IsRequest([j EXCEPT !.seen = seen])
           /\ [j EXCEPT !.seen = seen].item = j.item
           /\ [j EXCEPT !.seen = seen].does = j.does
           /\ [j EXCEPT !.seen = seen].profile = j.profile
           /\ [j EXCEPT !.seen = seen].spec = j.spec
           /\ [j EXCEPT !.seen = seen].config = j.config
  BY DEF IsRequest

LEMMA PlacedStays ==
    ASSUME Typed, \A u \in Threads : PlacedAt(u),
           NEW t \in Threads, NEW step, NEW j, Moves(t, step, j),
           SavedKeys \subseteq SavedKeys', DOMAIN charts \subseteq DOMAIN charts',
           PlacedAt(t)'
    PROVE  \A u \in Threads : PlacedAt(u)'
  <1> SUFFICES ASSUME NEW u \in Threads \ {t} PROVE PlacedAt(u)'
    OBVIOUS
  <1>1. pc'[u] = pc[u] /\ job'[u] = job[u]
    BY DEF Moves
  <1>2. PlacedAt(u)
    OBVIOUS
  <1> QED BY <1>1, <1>2 DEF PlacedAt, Editor

LEMMA SharingKept ==
    ASSUME Sharing, NEW t \in Threads, NEW step, NEW j, Moves(t, step, j),
           muddled \subseteq muddled',
           j.item \in {<<>>, job[t].item} \/ Shared(t, j.item) \subseteq muddled'
    PROVE  Sharing'
  <1> SUFFICES ASSUME NEW v \in Threads, NEW u \in Threads, v # u,
                      job'[v].item = job'[u].item, job'[v].item # <<>>
               PROVE  job'[v].item \in muddled'
    BY DEF Sharing
  <1>1. \A w \in Threads \ {t} : job'[w] = job[w]
    BY DEF Moves
  <1>2. CASE v # t /\ u # t
    BY <1>1, <1>2 DEF Sharing
  <1>3. ASSUME NEW w \in Threads \ {t}, j.item = job[w].item, j.item # <<>>
        PROVE  j.item \in muddled'
    <2>1. CASE j.item = job[t].item
      BY <1>3, <2>1 DEF Sharing
    <2>2. CASE Shared(t, j.item) \subseteq muddled'
      BY <1>3, <2>2 DEF Shared
    <2> QED BY <1>3, <2>1, <2>2
  <1>4. job'[t] = j
    BY DEF Moves
  <1> QED BY <1>1, <1>2, <1>3, <1>4

\* No key but those thread t has or gets changes.
Untouched(t) ==
    \A key \in Keys : Link(key) \notin muddled' /\ ~Has(t, key) /\ ~Has(t, key)' =>
       /\ records'[key] = records[key]
       /\ key \in SavedKeys => superset'.saved[key] = superset.saved[key]

LEMMA TruthKept ==
    ASSUME IInv, Sharing', NEW t \in Threads, NEW step, NEW j, Moves(t, step, j),
           product' = product, muddled \subseteq muddled', Untouched(t),
           \A key \in Keys : Keeps /\ Link(key) \notin muddled' =>
              /\ Has(t, key)' => Stage(t, key)'
              /\ Has(t, key) /\ ~Has(t, key)' => Agrees(key)'
    PROVE  Truth'
  <1> SUFFICES ASSUME Keeps, NEW key \in Keys, Link(key) \notin muddled'
               PROVE  /\ Free(key)' => Agrees(key)'
                      /\ \A u \in Threads : Has(u, key)' => Stage(u, key)'
    BY DEF Truth, Keeps
  <1>1. Link(key) \notin muddled /\ Link(key) # <<>>
    BY ItemsApart
  <1>2. /\ Free(key) => Agrees(key)
        /\ \A u \in Threads : Has(u, key) => Stage(u, key)
    BY <1>1 DEF IInv, Truth
  <1>3. ASSUME Free(key)' PROVE Agrees(key)'
    <2>1. CASE Has(t, key)
      BY <1>3, <2>1 DEF Free
    <2>2. CASE ~Has(t, key)
      <3>1. Free(key)
        BY <1>3, <2>2 DEF Free, Has, Moves
      <3>2. ~Has(t, key)'
        BY <1>3 DEF Free
      <3>3. /\ records'[key] = records[key]
            /\ key \in SavedKeys => superset'.saved[key] = superset.saved[key]
        BY <2>2, <3>2 DEF Untouched
      <3>4. records[key] # NoRecord => key \in SavedKeys
        BY DEF IInv, Typed
      <3> QED BY <1>2, <3>1, <3>3, <3>4 DEF Agrees, Discarded
    <2> QED BY <2>1, <2>2
  <1>4. ASSUME NEW u \in Threads, Has(u, key)' PROVE Stage(u, key)'
    <2>1. CASE u = t
      BY <1>4, <2>1
    <2>2. CASE u # t
      <3>1. pc'[u] = pc[u] /\ job'[u] = job[u] /\ Has(u, key)
        BY <1>4, <2>2 DEF Moves, Has
      <3>2. ~Has(t, key)'
        BY <1>1, <1>4, <2>2 DEF Sharing, Has
      <3>3. ~Has(t, key)
        BY <1>1, <2>2, <3>1 DEF IInv, Sharing, Has
      <3>4. /\ records'[key] = records[key]
            /\ key \in SavedKeys => superset'.saved[key] = superset.saved[key]
        BY <3>2, <3>3 DEF Untouched
      <3>5. pc[u] \in LinkSteps => key \in SavedKeys
        BY <3>1, ItemsApart DEF IInv, PlacedAt, Has
      <3>6. Stage(u, key)
        BY <1>2, <3>1
      <3>7. Agrees(key) /\ pc[u] \in LinkSteps => Agrees(key)'
        BY <3>4, <3>5 DEF Agrees, Discarded
      <3> QED BY <3>1, <3>4, <3>5, <3>6, <3>7 DEF Stage, Discarded, LinkSteps
    <2> QED BY <2>1, <2>2
  <1> QED BY <1>3, <1>4

LEMMA ReportingKept ==
    ASSUME IInv, NEW t \in Threads, NEW step, NEW j, Moves(t, step, j),
           muddled \subseteq muddled', Grown, Untouched(t),
           SavedKeys \subseteq SavedKeys',
           \A key \in Keys : Link(key) \notin muddled' =>
              /\ Has(t, key) \/ Has(t, key)' => Reports(key)'
              /\ ~Has(t, key) /\ ~Has(t, key)' => (key \in gone' => key \in gone)
    PROVE  Reporting'
  <1> SUFFICES ASSUME NEW key \in Keys, Link(key) \notin muddled', ~Has(t, key), ~Has(t, key)'
               PROVE  Reports(key)'
    BY DEF Reporting
  <1>1. Reports(key)
    BY DEF IInv, Reporting
  <1>2. /\ records'[key] = records[key]
        /\ key \in SavedKeys => superset'.saved[key] = superset.saved[key]
    BY DEF Untouched
  <1>3. \A u \in Threads : u # t => pc'[u] = pc[u] /\ (Has(u, key)' <=> Has(u, key))
    BY DEF Moves, Has
  <1> QED BY <1>1, <1>2, <1>3 DEF Reports, Discarded

-----------------------------------------------------------------------------
(* Steps that write nothing. *)

LEMMA SavedAreKeys ==
    ASSUME IInv
    PROVE  /\ SavedKeys \subseteq Keys
           /\ Len(superset.saved) \in Nat /\ DOMAIN superset.saved = SavedKeys
           /\ Len(charts) \in Nat /\ DOMAIN charts = 1 .. Len(charts)
  <1>1. /\ Len(superset.saved) \in Nat /\ DOMAIN superset.saved = SavedKeys
        /\ Len(charts) \in Nat /\ DOMAIN charts = 1 .. Len(charts)
    BY DEF IInv, Typed, SavedKeys
  <1>2. Cardinality(Posting) \in Nat
    BY FS_CardinalityType DEF IInv, Counting
  <1>3. MaxRequests \in Nat /\ requests \in 0 .. MaxRequests
    BY BoundsAreNaturals DEF IInv, Typed
  <1>4. Len(superset.saved) <= MaxRequests
    BY <1>1, <1>2, <1>3 DEF IInv, Counting
  <1> QED BY <1>1, <1>3, <1>4 DEF SavedKeys, Keys

\* Whoever begins to save is a request of its own.
LEMMA CountingKept ==
    ASSUME IInv, NEW t \in Threads, NEW step, NEW j, Moves(t, step, j),
           Len(superset'.saved) = Len(superset.saved),
           \/ requests' = requests /\ step # "posting"
           \/ requests' = requests + 1
    PROVE  Counting'
  <1>1. /\ IsFiniteSet(Posting) /\ Cardinality(Posting) \in Nat
        /\ Len(superset.saved) + Cardinality(Posting) <= requests
        /\ Len(superset.saved) \in Nat /\ requests \in Int
    BY FS_CardinalityType, SavedAreKeys, BoundsAreNaturals DEF IInv, Counting, Typed
  <1>2. \A u \in Threads \ {t} : pc'[u] = pc[u]
    BY DEF Moves
  <1>3. CASE requests' = requests /\ step # "posting"
    <2>1. Posting' \in SUBSET Posting
      BY <1>2, <1>3 DEF Posting, Moves
    <2>2. PICK n \in Nat : n = Cardinality(Posting') /\ n <= Cardinality(Posting)
      BY <1>1, <2>1, FS_Subset, FS_CardinalityType
    <2>3. IsFiniteSet(Posting')
      BY <1>1, <2>1, FS_Subset
    <2>4. Len(superset.saved) + n <= requests
      BY <1>1, <2>2
    <2> QED BY <1>3, <2>2, <2>3, <2>4 DEF Counting
  <1>4. CASE requests' = requests + 1
    <2>1. /\ IsFiniteSet(Posting \union {t})
          /\ Cardinality(Posting \union {t}) \in {Cardinality(Posting), Cardinality(Posting) + 1}
      BY <1>1, FS_AddElement
    <2>2. Posting' \in SUBSET (Posting \union {t})
      BY <1>2 DEF Posting
    <2>3. PICK n \in Nat : n = Cardinality(Posting') /\ n <= Cardinality(Posting \union {t})
      BY <2>1, <2>2, FS_Subset, FS_CardinalityType
    <2>4. IsFiniteSet(Posting')
      BY <2>1, <2>2, FS_Subset
    <2>5. Len(superset.saved) + n <= requests + 1
      BY <1>1, <2>1, <2>3
    <2> QED BY <1>4, <2>3, <2>4, <2>5 DEF Counting
  <1> QED BY <1>3, <1>4

stores == <<product, page, superset, charts, records, newer, gone>>

\* A step that writes nothing: what it owes is the place it goes to, and the
\* truth about the link it had or gets.
LEMMA QuietStep ==
    ASSUME IInv, NEW t \in Threads, NEW step, NEW j, Moves(t, step, j), UNCHANGED stores,
           \/ requests' = requests /\ step # "posting"
           \/ requests' = requests + 1 /\ requests < MaxRequests,
           muddled \subseteq muddled', Grown,
           Noted' \union muddled' \subseteq Items,
           PlacedAt(t)',
           j.item \in {<<>>, job[t].item} \/ Shared(t, j.item) \subseteq muddled',
           step = "generating" => Len(charts) = 0 \/ TheChart \in muddled',
           \A key \in Keys : Link(key) \notin muddled' =>
              /\ Keeps /\ Has(t, key)' => Stage(t, key)'
              /\ Keeps /\ Has(t, key) /\ ~Has(t, key)' => Agrees(key)
              /\ Has(t, key) \/ Has(t, key)' => Reports(key)'
    PROVE  IInv'
  <1>1. UNCHANGED <<product, page, superset, charts, records, gone>>
    BY DEF stores
  <1>2. Typed'
    <2>1. requests' \in 0 .. MaxRequests
      BY BoundsAreNaturals DEF IInv, Typed
    <2>2. SavedKeys' = SavedKeys
      BY <1>1 DEF SavedKeys
    <2> QED BY <1>1, <2>1, <2>2 DEF IInv, Typed, Moves, stores
  <1>3. \A u \in Threads : PlacedAt(u)'
    BY <1>1, PlacedStays DEF IInv, SavedKeys
  <1>4. Items' = Items
    BY <1>1 DEF Items
  <1>5. Counting'
    BY <1>1, CountingKept
  <1>6. Sharing'
    BY SharingKept DEF IInv
  <1>7. Charting'
    <2> SUFFICES ASSUME TheChart \notin muddled'
                 PROVE  /\ Len(charts) <= 1
                        /\ Len(charts) = 1 => \A u \in Threads : pc'[u] # "generating"
      BY <1>1 DEF Charting
    <2>1. /\ Len(charts) <= 1
          /\ Len(charts) = 1 => \A u \in Threads : pc[u] # "generating"
      BY DEF IInv, Charting
    <2> QED BY <2>1 DEF Moves
  <1>8. Living'
    BY <1>1 DEF IInv, Living
  <1>9. Untouched(t)
    BY <1>1 DEF Untouched
  <1>10. Truth'
    <2>1. \A key \in Keys : Agrees(key)' <=> Agrees(key)
      BY <1>1 DEF Agrees, Discarded
    <2> QED BY <1>1, <1>6, <1>9, <2>1, TruthKept
  <1>11. Reporting'
    BY <1>1, <1>9, ReportingKept DEF SavedKeys
  <1> QED BY <1>2, <1>3, <1>4, <1>5, <1>6, <1>7, <1>8, <1>10, <1>11 DEF IInv

LEMMA ItemKnown ==
    ASSUME IInv, NEW t \in Threads
    PROVE  /\ job[t].item # <<>> => job[t].item \in Items
           /\ pc[t] \notin {"idle", "posting", "clearing"} => job[t].item \in Items
  <1>1. /\ pc[t] \in Steps /\ PlacedAt(t)
    BY DEF IInv, Typed
  <1>2. SavedKeys \subseteq Keys
    BY SavedAreKeys
  <1> QED BY <1>1, <1>2 DEF PlacedAt, Items, Steps, Calling, LinkSteps, ChartSteps

\* An idle thread goes on as nothing.
LEMMA EndsMoves ==
    ASSUME Typed, NEW t \in Threads, Ends(t)
    PROVE  /\ Moves(t, "idle", Idle) /\ PlacedAt(t)'
           /\ \A key : ~Has(t, key)'
  <1>1. Moves(t, "idle", Idle)
    BY GoesMoves, IdleTyped DEF Ends
  <1>2. pc'[t] = "idle" /\ job'[t].item = <<>>
    BY <1>1, IdleTyped DEF Moves
  <1> QED BY <1>1, <1>2, ItemsApart DEF PlacedAt, LinkSteps, ChartSteps, Has

\* The clause of Reporting about a key survives a step that writes nothing.
LEMMA ReportsOn ==
    ASSUME IInv, NEW t \in Threads, NEW step, NEW j, Moves(t, step, j), UNCHANGED stores,
           Grown, NEW key \in Keys, Link(key) \notin muddled,
           step = "keeping" /\ Has(t, key)' => ~Discarded(key) \/ Link(key) \in overlooked',
           \/ pc[t] \notin {"judging", "verifying"}
           \/ superset.saved[key] = "gone" \/ Link(key) \in Noted' \/ ~Discarded(key)
    PROVE  Reports(key)'
  <1>1. Reports(key)
    BY DEF IInv, Reporting
  <1>2. UNCHANGED <<product, page, superset, charts, records, gone>>
    BY DEF stores
  <1>3. SavedKeys' = SavedKeys /\ (Discarded(key)' <=> Discarded(key))
    BY <1>2 DEF SavedKeys, Discarded
  <1>4. \A u \in Threads : u # t => pc'[u] = pc[u] /\ (Has(u, key)' <=> Has(u, key))
    BY DEF Moves, Has
  <1> QED BY <1>1, <1>2, <1>3, <1>4 DEF Reports, Moves

LEMMA EndsStep ==
    ASSUME IInv, NEW t \in Threads, Ends(t), UNCHANGED stores, requests' = requests,
           muddled \subseteq muddled', Grown,
           Noted' \union muddled' \subseteq Items,
           \A key \in Keys : Link(key) \notin muddled' /\ Has(t, key) =>
              /\ Keeps => Agrees(key)
              /\ \/ pc[t] \notin {"judging", "verifying"}
                 \/ superset.saved[key] = "gone" \/ Link(key) \in Noted' \/ ~Discarded(key)
    PROVE  IInv'
  <1>1. /\ Moves(t, "idle", Idle) /\ PlacedAt(t)'
        /\ \A key : ~Has(t, key)'
    BY EndsMoves DEF IInv
  <1>2. Idle.item = <<>>
    BY IdleTyped
  <1>3. ASSUME NEW key \in Keys, Link(key) \notin muddled', Has(t, key)
        PROVE  Reports(key)'
    BY <1>1, <1>3, ReportsOn
  <1> QED BY <1>1, <1>2, <1>3, QuietStep

LEMMA BrokenOffStep ==
    ASSUME IInv, NEW t \in Threads, pc[t] \in Calling, BreaksOff(t, job[t].item),
           UNCHANGED <<stores, findings, requests>>
    PROVE  IInv'
  <1>1. muddled' = muddled \union ({job[t].item} \ {<<>>}) /\ Ends(t)
    BY DEF BreaksOff
  <1>2. Noted' \union muddled' \subseteq Items
    BY <1>1, ItemKnown DEF IInv
  <1>3. \A key \in Keys : Has(t, key) => Link(key) \in muddled'
    BY <1>1, ItemsApart DEF Has
  <1> QED BY <1>1, <1>2, <1>3, EndsStep

\* What a thread with one link in hand knows of it.
LEMMA InHand ==
    ASSUME IInv, NEW t \in Threads, pc[t] \in LinkSteps
    PROVE  \E key \in Keys :
              /\ key \in SavedKeys /\ job[t].item = Link(key) /\ job[t].item[2] = key
              /\ \A k : Has(t, k) => k = key
              /\ Link(key) \notin muddled /\ Keeps => Stage(t, key)
              /\ Link(key) \notin muddled => Reports(key)
              /\ Link(key) \in Items
  <1>1. PICK key \in SavedKeys : job[t].item = Link(key)
    BY DEF IInv, PlacedAt
  <1>2. key \in Keys /\ Link(key) \in Items
    BY SavedAreKeys DEF Items
  <1>3. job[t].item[2] = key /\ \A k : Has(t, k) => k = key
    BY <1>1, ItemsApart DEF Has
  <1>4. Link(key) \notin muddled => Reports(key)
    BY <1>2 DEF IInv, Reporting
  <1>5. Link(key) \notin muddled /\ Keeps => Stage(t, key)
    BY <1>1, <1>2 DEF IInv, Truth, Has
  <1> QED BY <1>1, <1>2, <1>3, <1>4, <1>5

LEMMA BeginStep == ASSUME IInv, NEW t \in Threads, Begin(t) PROVE IInv'
  <1>1. /\ pc[t] = "idle" /\ requests < MaxRequests /\ requests' = requests + 1
        /\ UNCHANGED stores /\ UNCHANGED findings
    BY DEF Begin, stores
  <1>2. PICK j \in Requests : Continues(t, FirstStep[j.does], j)
    BY DEF Begin
  <1>3. PICK step : step = FirstStep[j.does] /\ Begun(j, step)
    BY <1>1, RequestBegun DEF IInv
  <1>4. /\ Goes(t, step, j) /\ muddled' = muddled \union (Shared(t, j.item) \ {<<>>})
    BY <1>2, <1>3 DEF Continues
  <1>5. Moves(t, step, j)
    BY <1>3, <1>4, GoesMoves DEF IInv, Begun, Steps, Calling
  <1>6. /\ UNCHANGED <<product, page, superset, charts, records, gone>>
    BY <1>1 DEF stores
  <1>7. PlacedAt(t)'
    BY <1>3, <1>5, <1>6 DEF PlacedAt, Begun, Moves, LinkSteps, ChartSteps, SavedKeys
  <1>8. j.item = <<>> \/ j.item \in Items
    BY <1>3, SavedAreKeys DEF Begun, Items
  <1>9. Noted' \union muddled' \subseteq Items
    BY <1>1, <1>4, <1>8 DEF IInv, Shared
  <1>10. job[t].item = <<>>
    BY <1>1 DEF IInv, PlacedAt
  <1>11. j.item = <<>> \/ Shared(t, j.item) \subseteq muddled'
    BY <1>4 DEF Shared
  <1>12. ASSUME NEW key \in Keys, Link(key) \notin muddled'
         PROVE  /\ Has(t, key)' => (Keeps => Stage(t, key)') /\ Reports(key)'
                /\ ~Has(t, key)
    <2>1. ~Has(t, key)
      BY <1>10, ItemsApart DEF Has
    <2>2. ASSUME Has(t, key)', Keeps PROVE Stage(t, key)'
      <3>1. j.item = Link(key) /\ j.item # <<>>
        BY <1>5, <2>2, ItemsApart DEF Has, Moves
      <3>2. Free(key)
        <4>1. ASSUME NEW u \in Threads, Has(u, key) PROVE FALSE
          <5>1. u # t
            BY <2>1, <4>1
          <5>2. Link(key) \in Shared(t, j.item)
            BY <3>1, <4>1, <5>1 DEF Shared, Has
          <5> QED BY <1>4, <1>12, <3>1, <5>2
        <4> QED BY <4>1 DEF Free
      <3>3. Agrees(key)
        BY <1>4, <1>12, <2>2, <3>2 DEF IInv, Truth
      <3>4. step \in {"looking", "deleting"}
        BY <1>3, <3>1, ItemsApart DEF Begun, TheChart
      <3>5. Agrees(key)'
        BY <1>6, <3>3 DEF Agrees, Discarded
      <3> QED BY <1>5, <3>4, <3>5 DEF Stage, Moves
    <2>3. Reports(key)'
      <3>1. step # "keeping"
        BY <1>3 DEF Begun
      <3> QED BY <1>1, <1>4, <1>5, <1>12, <3>1, ReportsOn
    <2> QED BY <2>1, <2>2, <2>3
  <1>13. step = "generating" => Len(charts) = 0
    BY <1>3 DEF Begun
  <1>14. /\ muddled \subseteq muddled' /\ Grown
         /\ requests' = requests + 1 /\ requests < MaxRequests
         /\ j.item \in {<<>>, job[t].item} \/ Shared(t, j.item) \subseteq muddled'
    BY <1>1, <1>4, <1>11
  <1> QED BY <1>1, <1>5, <1>7, <1>9, <1>12, <1>13, <1>14, QuietStep

LEMMA UnservedStep == ASSUME IInv, NEW t \in Threads, Unserved(t) PROVE IInv'
  BY BrokenOffStep DEF Unserved, stores

LEMMA RefusedStep ==
    ASSUME IInv, NEW t \in Threads, Refused(t) \/ DeleteMisses(t) \/ Denied(t)
    PROVE  IInv'
  <1>1. /\ Ends(t) /\ UNCHANGED stores /\ requests' = requests
        /\ muddled' = muddled /\ UNCHANGED findings
        /\ pc[t] \in {"posting", "deleting", "generating"}
    BY DEF Refused, DeleteMisses, Denied, stores, told, limits
  <1>2. ASSUME NEW key \in Keys, Link(key) \notin muddled, Has(t, key), Keeps
        PROVE  Agrees(key)
    <2>1. pc[t] = "deleting"
      BY <1>1, <1>2, ItemsApart DEF IInv, PlacedAt, Has, TheChart
    <2>2. Stage(t, key)
      BY <1>2 DEF IInv, Truth
    <2> QED BY <2>1, <2>2 DEF Stage
  <1> QED BY <1>1, <1>2, EndsStep DEF IInv

LEMMA JudgeStep == ASSUME IInv, NEW t \in Threads, Judge(t) PROVE IInv'
  <1>1. /\ pc[t] = "judging" /\ UNCHANGED stores /\ requests' = requests /\ muddled' = muddled
    BY DEF Judge, stores, limits
  <1>2. PICK key \in Keys :
           /\ key \in SavedKeys /\ job[t].item = Link(key) /\ job[t].item[2] = key
           /\ \A k : Has(t, k) => k = key
           /\ Link(key) \notin muddled /\ Keeps => Stage(t, key)
           /\ Link(key) \notin muddled => Reports(key)
           /\ Link(key) \in Items
    BY <1>1, InHand DEF LinkSteps
  <1>3. /\ unfounded' = unfounded
        /\ alarms' = IF Discarded(key) /\ Listed(key) THEN alarms \union {Link(key)} ELSE alarms
        /\ overlooked' = IF Discarded(key) /\ ~Listed(key) THEN overlooked \union {Link(key)}
                         ELSE overlooked
        /\ IF Discarded(key) /\ Listed(key) THEN Ends(t) ELSE Goes(t, "keeping", job[t])
    BY <1>2 DEF Judge, Raised
  <1>4. Grown /\ Noted' \union muddled' \subseteq Items
    BY <1>1, <1>2, <1>3 DEF IInv
  <1>5. CASE Discarded(key) /\ Listed(key)
    <2>1. Ends(t)
      BY <1>3, <1>5
    <2>2. ASSUME Link(key) \notin muddled, Keeps PROVE FALSE
      BY <1>1, <1>2, <1>5, <2>2 DEF Stage
    <2> QED BY <1>1, <1>2, <1>3, <1>4, <1>5, <2>1, <2>2, EndsStep
  <1>6. CASE ~(Discarded(key) /\ Listed(key))
    <2>1. Moves(t, "keeping", job[t])
      <3>1. Goes(t, "keeping", job[t])
        BY <1>3, <1>6
      <3> QED BY <3>1, GoesMoves DEF IInv, Typed, Steps
    <2>2. UNCHANGED <<product, page, superset, charts, records, gone>>
      BY <1>1 DEF stores
    <2>3. PlacedAt(t)'
      <3>1. job[t].spec \in Specs
        BY <1>1 DEF IInv, PlacedAt
      <3> QED BY <1>2, <2>1, <2>2, <3>1 DEF PlacedAt, Moves, ChartSteps, SavedKeys
    <2>4. \A k : Has(t, k)' <=> Has(t, k)
      BY <2>1 DEF Has, Moves
    <2>5. Link(key) \notin muddled /\ Keeps => Stage(t, key)'
      BY <1>1, <1>2, <2>1, <2>2 DEF Stage, Moves, Discarded
    <2>6. Link(key) \notin muddled => Reports(key)'
      BY <1>1, <1>2, <1>3, <1>4, <1>6, <2>1, ReportsOn
    <2> QED BY <1>1, <1>2, <1>4, <2>1, <2>3, <2>4, <2>5, <2>6, QuietStep
  <1> QED BY <1>5, <1>6

LEMMA LookStep == ASSUME IInv, NEW t \in Threads, Look(t) PROVE IInv'
  <1>1. /\ pc[t] = "looking" /\ UNCHANGED stores /\ requests' = requests
        /\ muddled' = muddled /\ UNCHANGED findings
    BY DEF Look, stores, told, limits
  <1>2. PICK key \in Keys :
           /\ key \in SavedKeys /\ job[t].item = Link(key) /\ job[t].item[2] = key
           /\ \A k : Has(t, k) => k = key
           /\ Link(key) \notin muddled /\ Keeps => Stage(t, key)
           /\ Link(key) \notin muddled => Reports(key)
           /\ Link(key) \in Items
    BY <1>1, InHand DEF LinkSteps
  <1>3. PICK j : j = [job[t] EXCEPT !.seen = records[job[t].item[2]]]
    OBVIOUS
  <1>4. IsRequest(j) /\ j.item = job[t].item
    BY <1>3, WithSeen DEF IInv, Typed
  <1>5. Moves(t, "fetching", j)
    BY <1>3, <1>4, GoesMoves DEF Look, IInv, Typed, Steps, Calling
  <1>6. UNCHANGED <<product, page, superset, charts, records, gone>>
    BY <1>1 DEF stores
  <1>7. PlacedAt(t)'
    BY <1>2, <1>4, <1>5, <1>6 DEF PlacedAt, Moves, ChartSteps, SavedKeys
  <1>8. \A k : Has(t, k)' <=> Has(t, k)
    BY <1>4, <1>5 DEF Has, Moves
  <1>9. Link(key) \notin muddled /\ Keeps => Stage(t, key)'
    BY <1>1, <1>2, <1>5, <1>6 DEF Stage, Moves, Agrees, Discarded
  <1>10. Link(key) \notin muddled => Reports(key)'
    BY <1>1, <1>2, <1>5, ReportsOn
  <1> QED BY <1>1, <1>2, <1>4, <1>5, <1>7, <1>8, <1>9, <1>10, QuietStep DEF IInv

LEMMA FetchStep == ASSUME IInv, NEW t \in Threads, Fetch(t) \/ FetchFails(t) PROVE IInv'
  <1>1. /\ pc[t] = "fetching" /\ UNCHANGED stores /\ requests' = requests
        /\ muddled' = muddled /\ Ends(t)
        /\ Grown /\ Noted' \subseteq Noted \union {job[t].item}
    BY DEF Fetch, FetchFails, stores, limits, Asserts, AssertsAnyway, Raised
  <1>2. Noted' \union muddled' \subseteq Items
    BY <1>1, ItemKnown DEF IInv
  <1>3. ASSUME NEW key \in Keys, Link(key) \notin muddled, Has(t, key), Keeps
        PROVE  Agrees(key)
    <2>1. Stage(t, key)
      BY <1>3 DEF IInv, Truth
    <2> QED BY <1>1, <2>1 DEF Stage
  <1> QED BY <1>1, <1>2, <1>3, EndsStep

LEMMA VerifyStep == ASSUME IInv, NEW t \in Threads, Verify(t) \/ VerifyFails(t) PROVE IInv'
  <1>1. /\ pc[t] = "verifying" /\ UNCHANGED stores /\ requests' = requests /\ muddled' = muddled
        /\ Ends(t) /\ Grown /\ Noted' \subseteq Noted \union {job[t].item}
        /\ superset.saved[job[t].item[2]] = "gone" \/ job[t].item \in Noted'
    BY DEF Verify, VerifyFails, stores, limits, Asserts, AssertsAnyway, Raised
  <1>2. PICK key \in Keys :
           /\ key \in SavedKeys /\ job[t].item = Link(key) /\ job[t].item[2] = key
           /\ \A k : Has(t, k) => k = key
           /\ Link(key) \notin muddled /\ Keeps => Stage(t, key)
           /\ Link(key) \notin muddled => Reports(key)
           /\ Link(key) \in Items
    BY <1>1, InHand DEF LinkSteps
  <1>3. /\ Noted' \union muddled' \subseteq Items
        /\ superset.saved[key] = "gone" \/ Link(key) \in Noted'
    BY <1>1, <1>2 DEF IInv
  <1>4. Link(key) \notin muddled /\ Keeps => Agrees(key)
    BY <1>1, <1>2 DEF Stage, Agrees
  <1> QED BY <1>1, <1>2, <1>3, <1>4, EndsStep

\* A thread that works on a chart, before and after, has no link to account for.
LEMMA ChartStep ==
    ASSUME IInv, NEW t \in Threads, NEW step \in Steps, NEW j, IsRequest(j), Goes(t, step, j),
           UNCHANGED <<stores, findings, requests>>,
           pc[t] \in {"finding", "generating", "noting", "updating"},
           step \in {"generating", "noting", "updating", "misreading"},
           muddled \subseteq muddled', muddled' \subseteq Items,
           step = "generating" =>
              j.item = TheChart /\ (Len(charts) = 0 \/ TheChart \in muddled'),
           step # "generating" => \E n \in DOMAIN charts : j.item = Chart(n),
           j.item = job[t].item \/ Shared(t, j.item) \subseteq muddled',
           step = "updating" => j.profile # "restricted_viewer",
           j.config \in Configs
    PROVE  IInv'
  <1>1. Moves(t, step, j)
    BY GoesMoves DEF IInv
  <1>2. UNCHANGED <<product, page, superset, charts, records, gone>>
    BY DEF stores
  <1>3. PlacedAt(t)'
    BY <1>1, <1>2 DEF PlacedAt, Moves, LinkSteps, ChartSteps, Editor
  <1>4. \A key : ~Has(t, key) /\ ~Has(t, key)'
    <2>1. \A key : job[t].item # Link(key)
      BY ItemsApart DEF IInv, PlacedAt, ChartSteps, TheChart
    <2>2. \A key : j.item # Link(key)
      BY ItemsApart DEF TheChart
    <2> QED BY <1>1, <2>1, <2>2 DEF Has, Moves
  <1>5. Grown /\ Noted' \union muddled' \subseteq Items
    BY DEF IInv
  <1> QED BY <1>1, <1>3, <1>4, <1>5, QuietStep

LEMMA FindStep == ASSUME IInv, NEW t \in Threads, Find(t) \/ FindFails(t) PROVE IInv'
  <1>1. pc[t] = "finding" /\ UNCHANGED <<stores, findings, requests>>
    BY DEF Find, FindFails, stores
  <1>2. /\ job[t].item = TheChart /\ IsRequest(job[t]) /\ job[t].config \in Configs
        /\ TheChart \in Items
    BY <1>1 DEF IInv, Typed, PlacedAt, Items
  <1>3. CASE FindFails(t)
    <2>1. muddled' = muddled \union {TheChart} /\ Goes(t, "generating", job[t])
      BY <1>3 DEF FindFails
    <2> QED BY <1>1, <1>2, <2>1, ChartStep DEF IInv, Steps, Calling
  <1>4. CASE Find(t) /\ charts = <<>>
    <2>1. Continues(t, "generating", job[t])
      BY <1>4 DEF Find
    <2>2. /\ Goes(t, "generating", job[t])
          /\ muddled' = muddled \union (Shared(t, TheChart) \ {<<>>})
      BY <1>2, <2>1 DEF Continues
    <2>3. muddled \subseteq muddled' /\ muddled' \subseteq Items
      BY <1>2, <2>2 DEF IInv, Shared
    <2>4. Len(charts) = 0
      <3>1. Len(<<>>) = 0
        OBVIOUS
      <3> QED BY <1>4, <3>1
    <2> QED BY <1>1, <1>2, <2>2, <2>3, <2>4, ChartStep DEF Steps, Calling
  <1>5. CASE Find(t) /\ charts # <<>>
    <2>1. PICK n \in DOMAIN charts : Continues(t, "noting", [job[t] EXCEPT !.item = Chart(n)])
      BY <1>5 DEF Find
    <2>2. PICK j : j = [job[t] EXCEPT !.item = Chart(n)]
      OBVIOUS
    <2>3. IsRequest(j) /\ j.item = Chart(n) /\ j.config \in Configs
      BY <1>2, <2>2, WithItem
    <2>4. /\ Goes(t, "noting", j) /\ muddled' = muddled \union (Shared(t, Chart(n)) \ {<<>>})
      BY <2>1, <2>2, <2>3 DEF Continues
    <2>5. /\ muddled \subseteq muddled' /\ muddled' \subseteq Items
          /\ Shared(t, j.item) \subseteq muddled'
      BY <2>3, <2>4, ItemsApart DEF IInv, Shared, Items
    <2> QED BY <1>1, <2>3, <2>4, <2>5, ChartStep DEF Steps, Calling
  <1> QED BY <1>3, <1>4, <1>5

LEMMA NoteStep == ASSUME IInv, NEW t \in Threads, Note(t) PROVE IInv'
  <1>1. /\ pc[t] = "noting" /\ UNCHANGED <<stores, findings, requests>>
        /\ muddled' = muddled
    BY DEF Note, stores, told, limits
  <1>2. /\ IsRequest(job[t]) /\ job[t].config \in Configs
        /\ \E n \in DOMAIN charts : job[t].item = Chart(n)
    BY <1>1 DEF IInv, Typed, PlacedAt, ChartSteps
  <1>3. CASE job[t].does = "view" \/ ~Editor(t)
    <2>1. Ends(t)
      BY <1>3 DEF Note
    <2>2. \A key : ~Has(t, key)
      BY <1>2, ItemsApart DEF Has
    <2> QED BY <1>1, <2>1, <2>2, EndsStep DEF IInv
  <1>4. CASE ~(job[t].does = "view" \/ ~Editor(t))
    <2>1. Goes(t, "updating", [job[t] EXCEPT !.seen = charts[job[t].item[2]]])
      BY <1>4 DEF Note
    <2>2. PICK j : j = [job[t] EXCEPT !.seen = charts[job[t].item[2]]]
      OBVIOUS
    <2>3. /\ IsRequest(j) /\ j.item = job[t].item /\ j.config = job[t].config
          /\ j.profile = job[t].profile
      BY <1>2, <2>2, WithSeen
    <2>4. j.profile # "restricted_viewer"
      BY <1>4, <2>3 DEF Editor
    <2> QED BY <1>1, <1>2, <2>1, <2>2, <2>3, <2>4, ChartStep DEF IInv, Steps, Calling
  <1> QED BY <1>3, <1>4

LEMMA ReadStep == ASSUME IInv, NEW t \in Threads, Read(t) PROVE IInv'
  <1>1. /\ pc[t] \in {"reading", "misreading"} /\ UNCHANGED stores /\ requests' = requests
        /\ muddled' = muddled /\ Ends(t)
        /\ Grown /\ Noted' \subseteq Noted \union {job[t].item}
    BY DEF Read, stores, limits, Asserts, AssertsAnyway, Raised
  <1>2. Noted' \union muddled' \subseteq Items
    BY <1>1, ItemKnown DEF IInv
  <1>3. \A key : ~Has(t, key)
    BY <1>1, ItemsApart DEF IInv, PlacedAt, ChartSteps, Has
  <1> QED BY <1>1, <1>2, <1>3, EndsStep

LEMMA UpdateFailsStep == ASSUME IInv, NEW t \in Threads, UpdateFails(t) PROVE IInv'
  <1>1. /\ pc[t] = "updating" /\ UNCHANGED <<stores, findings, requests, muddled>>
        /\ Goes(t, "misreading", job[t])
    BY DEF UpdateFails, stores, told
  <1>2. /\ IsRequest(job[t]) /\ job[t].config \in Configs
        /\ \E n \in DOMAIN charts : job[t].item = Chart(n)
    BY <1>1 DEF IInv, Typed, PlacedAt, ChartSteps
  <1> QED BY <1>1, <1>2, ChartStep DEF IInv, Steps, Calling

-----------------------------------------------------------------------------
(* Steps that write a link or its record. *)

LEMMA WriteStep ==
    ASSUME IInv, NEW t \in Threads, NEW step, step # "generating", NEW j, Moves(t, step, j),
           UNCHANGED <<product, page, charts, findings, requests>>, newer' \subseteq Keys \X Keys,
           superset' \in [saved: Seq(Specs \union {"gone"}), current: [Tabs -> Nat]],
           \A tab \in Tabs : superset'.current[tab] \in 0 .. Len(superset'.saved),
           records' \in [Keys -> [spec: Specs \union {"none"}, discarded: BOOLEAN]],
           \A key \in Keys : records'[key] # NoRecord => key \in SavedKeys',
           gone' \subseteq Keys, SavedKeys \subseteq SavedKeys',
           muddled \subseteq muddled', muddled' \subseteq Items,
           PlacedAt(t)', Counting', Living', Untouched(t),
           j.item \in {<<>>, job[t].item} \/ Shared(t, j.item) \subseteq muddled',
           \A key \in Keys : Link(key) \notin muddled' =>
              /\ Keeps /\ Has(t, key)' => Stage(t, key)'
              /\ Keeps /\ Has(t, key) /\ ~Has(t, key)' => Agrees(key)'
              /\ Has(t, key) \/ Has(t, key)' => Reports(key)'
              /\ ~Has(t, key) /\ ~Has(t, key)' => (key \in gone' => key \in gone)
    PROVE  IInv'
  <1>1. /\ product' = product /\ page' = page /\ charts' = charts
        /\ UNCHANGED findings /\ requests' = requests
    OBVIOUS
  <1>2. Typed'
    BY <1>1 DEF IInv, Typed, Moves
  <1>3. \A u \in Threads : PlacedAt(u)'
    BY <1>1, PlacedStays DEF IInv
  <1>4. Noted' \union muddled' \subseteq Items /\ Items' = Items
    BY <1>1 DEF IInv, Items
  <1>5. Sharing'
    BY SharingKept DEF IInv
  <1>6. Charting'
    BY <1>1 DEF IInv, Charting, Moves
  <1>7. Truth'
    BY <1>1, <1>5, TruthKept
  <1>8. Reporting'
    BY <1>1, ReportingKept
  <1> QED BY <1>2, <1>3, <1>4, <1>5, <1>6, <1>7, <1>8 DEF IInv

\* A thread with an unmuddled link in hand has it alone.
LEMMA Alone ==
    ASSUME IInv, NEW t \in Threads, NEW key \in Keys, Has(t, key), Link(key) \notin muddled,
           NEW u \in Threads, Has(u, key)
    PROVE  u = t
  BY ItemsApart DEF IInv, Sharing, Has

LEMMA KeepStep == ASSUME IInv, NEW t \in Threads, Keep(t) PROVE IInv'
  <1>1. /\ pc[t] = "keeping" /\ Ends(t)
        /\ UNCHANGED <<product, page, charts, findings, requests>>
        /\ superset' = superset /\ muddled' = muddled /\ gone' = gone
    BY DEF Keep, told, limits
  <1>2. PICK key \in Keys :
           /\ key \in SavedKeys /\ job[t].item = Link(key) /\ job[t].item[2] = key
           /\ \A k : Has(t, k) => k = key
           /\ Link(key) \notin muddled /\ Keeps => Stage(t, key)
           /\ Link(key) \notin muddled => Reports(key)
           /\ Link(key) \in Items
    BY <1>1, InHand DEF LinkSteps
  <1>3. /\ Moves(t, "idle", Idle) /\ PlacedAt(t)' /\ \A k : ~Has(t, k)'
    BY <1>1, EndsMoves DEF IInv
  <1>4. /\ records' = [records EXCEPT ![key] = [spec |-> job[t].spec, discarded |-> FALSE]]
        /\ job[t].spec \in Specs
    BY <1>1, <1>2 DEF Keep, IInv, PlacedAt
  <1>5. /\ records' \in [Keys -> [spec: Specs \union {"none"}, discarded: BOOLEAN]]
        /\ records'[key] = [spec |-> job[t].spec, discarded |-> FALSE]
        /\ \A k \in Keys : k # key => records'[k] = records[k]
    BY <1>4 DEF IInv, Typed
  <1>6. /\ SavedKeys' = SavedKeys /\ \A k \in Keys : records'[k] # NoRecord => k \in SavedKeys'
    BY <1>1, <1>2, <1>5 DEF IInv, Typed, SavedKeys
  <1>7. Counting'
    BY <1>1, <1>3, CountingKept
  <1>8. Living'
    BY <1>1 DEF IInv, Living
  <1>9. Untouched(t)
    BY <1>1, <1>2, <1>5 DEF Untouched, Has
  <1>10. ASSUME Link(key) \notin muddled, Keeps PROVE Agrees(key)'
    BY <1>1, <1>2, <1>5, <1>10 DEF Stage, Agrees, Discarded
  <1>11. ASSUME Link(key) \notin muddled PROVE Reports(key)'
    <2>1. Has(t, key) /\ Reports(key)
      BY <1>2, <1>11 DEF Has
    <2>2. Link(key) \notin overlooked => key \notin gone
      BY <1>1, <2>1 DEF Reports
    <2> QED BY <1>1, <1>5, <2>2 DEF Reports, Discarded
  <1>12. Idle.item = <<>>
    BY IdleTyped
  <1>13. /\ superset' \in [saved: Seq(Specs \union {"gone"}), current: [Tabs -> Nat]]
         /\ \A tab \in Tabs : superset'.current[tab] \in 0 .. Len(superset'.saved)
         /\ gone' \subseteq Keys /\ muddled' \subseteq Items
    BY <1>1 DEF IInv, Typed
  <1>14. newer' \subseteq Keys \X Keys
    BY <1>2 DEF Keep, Rows, IInv, Typed
  <1> QED BY <1>1, <1>2, <1>3, <1>5, <1>6, <1>7, <1>8, <1>9, <1>10, <1>11, <1>12, <1>13, <1>14,
             WriteStep

LEMMA MarkStep == ASSUME IInv, NEW t \in Threads, Mark(t) PROVE IInv'
  <1>1. /\ pc[t] = "marking" /\ Goes(t, "verifying", job[t])
        /\ UNCHANGED <<product, page, charts, findings, requests>>
        /\ superset' = superset /\ muddled' = muddled /\ newer' = newer
    BY DEF Mark, limits
  <1>2. PICK key \in Keys :
           /\ key \in SavedKeys /\ job[t].item = Link(key) /\ job[t].item[2] = key
           /\ \A k : Has(t, k) => k = key
           /\ Link(key) \notin muddled /\ Keeps => Stage(t, key)
           /\ Link(key) \notin muddled => Reports(key)
           /\ Link(key) \in Items
    BY <1>1, InHand DEF LinkSteps
  <1>3. Moves(t, "verifying", job[t])
    BY <1>1, GoesMoves DEF IInv, Typed, Steps, Calling
  <1>4. SavedKeys' = SavedKeys
    BY <1>1 DEF SavedKeys
  <1>5. PlacedAt(t)'
    BY <1>2, <1>3, <1>4 DEF PlacedAt, Moves, ChartSteps
  <1>6. /\ records' = IF records[key] # NoRecord
                      THEN [records EXCEPT ![key].discarded = TRUE] ELSE records
        /\ gone' = IF records[key] # NoRecord THEN gone \union {key} ELSE gone
    BY <1>2 DEF Mark
  <1>7. /\ records' \in [Keys -> [spec: Specs \union {"none"}, discarded: BOOLEAN]]
        /\ records[key] # NoRecord => records'[key].discarded
        /\ records[key] = NoRecord => records'[key] = records[key]
        /\ \A k \in Keys : k # key => records'[k] = records[k]
    BY <1>6 DEF IInv, Typed
  <1>8. \A k \in Keys : records'[k] # NoRecord => k \in SavedKeys'
    BY <1>2, <1>4, <1>7 DEF IInv, Typed
  <1>9. Counting'
    BY <1>1, <1>3, CountingKept
  <1>10. Living'
    BY <1>1 DEF IInv, Living
  <1>11. Untouched(t)
    BY <1>1, <1>2, <1>7 DEF Untouched, Has
  <1>12. \A k : Has(t, k)' <=> Has(t, k)
    BY <1>3 DEF Has, Moves
  <1>13. records'[key] # NoRecord => records'[key].discarded
    BY <1>7
  <1>14. ASSUME Link(key) \notin muddled, Keeps PROVE Stage(t, key)'
    BY <1>1, <1>2, <1>3, <1>13, <1>14 DEF Stage, Moves, Discarded
  <1>15. ASSUME Link(key) \notin muddled PROVE Reports(key)'
    <2>1. Has(t, key) /\ Reports(key)
      BY <1>2, <1>15 DEF Has
    <2>2. \A u \in Threads : ~(pc'[u] = "keeping" /\ Has(u, key)')
      <3>1. ASSUME NEW u \in Threads, u # t, Has(u, key)' PROVE FALSE
        BY <1>3, <1>15, <2>1, <3>1, Alone DEF Has, Moves
      <3> QED BY <1>3, <3>1 DEF Moves
    <2>3. ASSUME key \in gone', Link(key) \notin overlooked PROVE Discarded(key)'
      BY <1>6, <1>7, <2>1, <2>3 DEF Reports, Discarded, NoRecord
    <2>4. Has(t, key)' /\ pc'[t] \in {"judging", "verifying"}
      BY <1>3, <1>12, <2>1 DEF Moves
    <2> QED BY <1>1, <1>2, <1>4, <2>2, <2>3, <2>4 DEF Reports
  <1>16. /\ superset' \in [saved: Seq(Specs \union {"gone"}), current: [Tabs -> Nat]]
         /\ \A tab \in Tabs : superset'.current[tab] \in 0 .. Len(superset'.saved)
         /\ gone' \subseteq Keys /\ muddled' \subseteq Items /\ newer' \subseteq Keys \X Keys
         /\ \A k \in Keys : ~Has(t, k) => (k \in gone' => k \in gone)
    BY <1>1, <1>2, <1>6 DEF IInv, Typed, Has
  <1> QED BY <1>1, <1>2, <1>3, <1>4, <1>5, <1>7, <1>8, <1>9, <1>10, <1>11, <1>12, <1>14, <1>15,
             <1>16, WriteStep

\* What a save gives, and who had its link before.
LEMMA PostStep == ASSUME IInv, NEW t \in Threads, Post(t) PROVE IInv'
  <1>1. /\ pc[t] = "posting" /\ job[t].item = <<>> /\ job[t].tab \in Tabs /\ job[t].spec \in Specs
        /\ IsRequest(job[t])
        /\ UNCHANGED <<product, page, charts, table, findings, gone, requests>>
    BY DEF Post, IInv, PlacedAt, Typed
  <1>2. PICK k : k = KeyOf(product, superset', job[t].tab)
    OBVIOUS
  <1>3. PICK spec \in Specs : spec = job[t].spec
    BY <1>1
  <1>4. superset' = Save(product, superset, job[t].tab, spec)
    BY <1>3 DEF Post
  <1>5. /\ superset' \in [saved: Seq(Specs \union {"gone"}), current: [Tabs -> Nat]]
        /\ \A tb \in Tabs : superset'.current[tb] \in 0 .. Len(superset'.saved)
        /\ \A tb \in Tabs : superset'.current[tb] \in {superset.current[tb], k}
        /\ k \in 1 .. Len(superset'.saved) /\ superset'.saved[k] = spec
        /\ \/ Len(superset'.saved) = Len(superset.saved)
              /\ \E tb \in Tabs : superset.current[tb] = k
           \/ Len(superset'.saved) = Len(superset.saved) + 1 /\ k = Len(superset'.saved)
        /\ \A i \in SavedKeys : i # k => superset'.saved[i] = superset.saved[i]
    <2>1. Typed /\ job[t].tab \in Tabs
      BY <1>1 DEF IInv
    <2>2. PICK tab \in Tabs : tab = job[t].tab
      BY <2>1
    <2>3. PICK s : s = superset'
      OBVIOUS
    <2>4. s = Save(product, superset, tab, spec) /\ k = KeyOf(product, s, tab)
      BY <1>2, <1>4, <2>2, <2>3
    <2>5. SaveGives(s, k, spec)
      BY <2>1, <2>4, SaveKeeps
    <2> QED BY <2>3, <2>5 DEF SaveGives
  <1>6. PICK j : j = [job[t] EXCEPT !.item = Link(k)]
    OBVIOUS
  <1>7. IsRequest(j) /\ j.item = Link(k) /\ j.spec = spec
    BY <1>1, <1>3, <1>6, WithItem
  <1>8. Continues(t, "judging", j) \/ BreaksOff(t, Link(k))
    <2>1. Served(t, "judging", j)
      BY <1>2, <1>6 DEF Post
    <2> QED BY <1>7, <2>1 DEF Served
  <1>9. PICK step, r :
           /\ Moves(t, step, r) /\ step \in {"judging", "idle"}
           /\ muddled \subseteq muddled' /\ muddled' \subseteq muddled \union {Link(k)}
           /\ \/ step = "judging" /\ r = j /\ Shared(t, Link(k)) \subseteq muddled'
              \/ step = "idle" /\ r = Idle /\ Link(k) \in muddled'
    <2>1. CASE Continues(t, "judging", j)
      <3>1. Goes(t, "judging", j) /\ muddled' = muddled \union (Shared(t, Link(k)) \ {<<>>})
        BY <1>7, <2>1 DEF Continues
      <3>2. Moves(t, "judging", j)
        BY <1>7, <3>1, GoesMoves DEF IInv, Steps
      <3>3. Link(k) # <<>> /\ Shared(t, Link(k)) \subseteq {Link(k)}
        BY ItemsApart DEF Shared
      <3> QED BY <3>1, <3>2, <3>3
    <2>2. CASE BreaksOff(t, Link(k))
      <3>1. muddled' = muddled \union {Link(k)} /\ Ends(t)
        BY <2>2, ItemsApart DEF BreaksOff
      <3>2. Moves(t, "idle", Idle)
        BY <3>1, EndsMoves DEF IInv
      <3> QED BY <3>1, <3>2
    <2> QED BY <1>8, <2>1, <2>2
  <1>10. /\ Len(superset.saved) \in Nat /\ Len(superset'.saved) \in Nat
         /\ Len(superset'.saved) <= Len(superset.saved) + 1
         /\ SavedKeys \subseteq SavedKeys' /\ k \in SavedKeys'
    <2>1. Len(superset.saved) \in Nat
      BY SavedAreKeys
    <2> QED BY <1>5, <2>1 DEF SavedKeys
  <1>11. Counting'
    <2>1. Posting' = Posting \ {t} /\ t \in Posting
      BY <1>1, <1>9 DEF Posting, Moves
    <2>2. IsFiniteSet(Posting) /\ Len(superset.saved) + Cardinality(Posting) <= requests
      BY DEF IInv, Counting
    <2>3. IsFiniteSet(Posting') /\ Cardinality(Posting') = Cardinality(Posting) - 1
      BY <2>1, <2>2, FS_RemoveElement
    <2>4. PICK n \in Int : n = Cardinality(Posting)
      BY <2>2, FS_CardinalityType
    <2>5. requests \in Int
      BY DEF IInv, Typed
    <2>6. Len(superset'.saved) + (n - 1) <= requests
      BY <1>10, <2>2, <2>4, <2>5
    <2> QED BY <1>1, <2>3, <2>4, <2>6 DEF Counting
  <1>12. k \in Keys /\ Link(k) \in Items
    <2>1. IsFiniteSet(Posting')
      BY <1>11 DEF Counting
    <2>2. PICK n \in Nat : n = Cardinality(Posting')
      BY <2>1, FS_CardinalityType
    <2>3. Len(superset'.saved) + n <= requests
      BY <1>1, <1>11, <2>2 DEF Counting
    <2>4. requests \in 0 .. MaxRequests /\ MaxRequests \in Nat
      BY BoundsAreNaturals DEF IInv, Typed
    <2>5. k \in 1 .. MaxRequests
      BY <1>5, <1>10, <2>2, <2>3, <2>4
    <2> QED BY <2>5 DEF Keys, Items
  <1>13. Living'
    <2> SUFFICES ASSUME product.keys # "reused", NEW tb \in Tabs, superset'.current[tb] # 0
                 PROVE  superset'.saved[superset'.current[tb]] # "gone"
      BY <1>1 DEF Living
    <2>1. spec # "gone"
      BY SpecsTyped
    <2>2. CASE superset'.current[tb] = k
      BY <1>5, <2>1, <2>2
    <2>3. CASE superset'.current[tb] # k
      <3>1. superset'.current[tb] = superset.current[tb]
        BY <1>5, <2>3
      <3>2. superset.current[tb] \in SavedKeys
        BY <1>10, <3>1 DEF IInv, Typed, SavedKeys
      <3>3. superset.saved[superset.current[tb]] # "gone"
        BY <3>1 DEF IInv, Living
      <3> QED BY <1>5, <2>3, <3>1, <3>2, <3>3
    <2> QED BY <2>2, <2>3
  <1>14. PlacedAt(t)'
    <2>1. pc'[t] = step /\ job'[t] = r
      BY <1>9 DEF Moves
    <2>2. Idle.item = <<>>
      BY IdleTyped
    <2> QED BY <1>7, <1>9, <1>10, <2>1, <2>2 DEF PlacedAt, LinkSteps, ChartSteps
  <1>15. /\ \A key : ~Has(t, key)
         /\ \A key : Has(t, key)' => key = k /\ step = "judging"
         /\ Link(k) \notin muddled' => step = "judging" /\ Has(t, k)'
    <2>1. job'[t] = r /\ Idle.item = <<>>
      BY <1>9, IdleTyped DEF Moves
    <2> QED BY <1>1, <1>7, <1>9, <2>1, ItemsApart DEF Has
  <1>16. Untouched(t)
    BY <1>1, <1>5, <1>15 DEF Untouched
  <1>17. ASSUME Link(k) \notin muddled' PROVE Free(k)
    <2>1. ASSUME NEW u \in Threads, Has(u, k) PROVE FALSE
      <3>1. u # t
        BY <1>15, <2>1
      <3>2. Link(k) \in Shared(t, Link(k))
        BY <2>1, <3>1 DEF Shared, Has
      <3> QED BY <1>9, <1>17, <3>2
    <2> QED BY <2>1 DEF Free
  <1>18. ASSUME Link(k) \notin muddled', Keeps PROVE Stage(t, k)'
    <2>1. pc'[t] = "judging" /\ job'[t] = j
      BY <1>9, <1>18 DEF Moves
    <2>2. ~Discarded(k)
      <3>1. CASE k \in SavedKeys
        <4>1. Agrees(k)
          BY <1>9, <1>12, <1>17, <1>18 DEF IInv, Truth
        <4>2. PICK tb \in Tabs : superset.current[tb] = k
          BY <1>5, <1>10, <3>1 DEF SavedKeys
        <4>3. superset.saved[k] # "gone"
          BY <1>5, <1>18, <4>2 DEF IInv, Living, Keeps
        <4> QED BY <4>1, <4>3 DEF Agrees, Discarded, NoRecord
      <3>2. CASE k \notin SavedKeys
        BY <1>12, <3>2 DEF IInv, Typed, Discarded, NoRecord
      <3> QED BY <3>1, <3>2
    <2>3. ~Discarded(k)'
      BY <1>1, <2>2 DEF Discarded
    <2> QED BY <1>5, <1>7, <2>1, <2>3 DEF Stage
  <1>19. ASSUME Link(k) \notin muddled' PROVE Reports(k)'
    <2>1. Reports(k)
      BY <1>9, <1>12, <1>19 DEF IInv, Reporting
    <2>2. pc'[t] = "judging" /\ Has(t, k)'
      BY <1>9, <1>15, <1>19 DEF Moves
    <2>3. \A u \in Threads : u # t => pc'[u] = pc[u] /\ (Has(u, k)' <=> Has(u, k))
      BY <1>9 DEF Moves, Has
    <2>4. Discarded(k)' <=> Discarded(k)
      BY <1>1 DEF Discarded
    <2> QED BY <1>1, <1>10, <2>1, <2>2, <2>3, <2>4 DEF Reports
  <1>20. muddled' \subseteq Items
    BY <1>9, <1>12 DEF IInv
  <1>21. /\ records' \in [Keys -> [spec: Specs \union {"none"}, discarded: BOOLEAN]]
         /\ \A key \in Keys : records'[key] # NoRecord => key \in SavedKeys'
         /\ gone' \subseteq Keys /\ newer' \subseteq Keys \X Keys
    BY <1>1, <1>10 DEF IInv, Typed
  <1>22. r.item \in {<<>>, job[t].item} \/ Shared(t, r.item) \subseteq muddled'
    BY <1>7, <1>9, IdleTyped
  <1>23. \A key \in Keys : Link(key) \notin muddled' =>
              /\ Keeps /\ Has(t, key)' => Stage(t, key)'
              /\ Keeps /\ Has(t, key) /\ ~Has(t, key)' => Agrees(key)'
              /\ Has(t, key) \/ Has(t, key)' => Reports(key)'
              /\ ~Has(t, key) /\ ~Has(t, key)' => (key \in gone' => key \in gone)
    BY <1>1, <1>15, <1>18, <1>19
  <1> QED BY <1>1, <1>5, <1>9, <1>10, <1>11, <1>13, <1>14, <1>16, <1>20, <1>21, <1>22, <1>23,
             WriteStep

LEMMA DeleteStep == ASSUME IInv, NEW t \in Threads, DeleteLink(t) PROVE IInv'
  <1>1. /\ pc[t] = "deleting" /\ IsRequest(job[t]) /\ superset.saved[job[t].item[2]] # "gone"
        /\ UNCHANGED <<product, page, charts, table, findings, gone, requests>>
    BY DEF DeleteLink, IInv, Typed
  <1>2. PICK k \in Keys :
           /\ k \in SavedKeys /\ job[t].item = Link(k) /\ job[t].item[2] = k
           /\ \A i : Has(t, i) => i = k
           /\ Link(k) \notin muddled /\ Keeps => Stage(t, k)
           /\ Link(k) \notin muddled => Reports(k)
           /\ Link(k) \in Items
    BY <1>1, InHand DEF LinkSteps
  <1>3. superset' = Delete(product, superset, k)
    BY <1>2 DEF DeleteLink
  <1>4. /\ superset' \in [saved: Seq(Specs \union {"gone"}), current: [Tabs -> Nat]]
        /\ \A tb \in Tabs : superset'.current[tb] \in {0, superset.current[tb]}
        /\ product.keys # "reused" =>
              \A tb \in Tabs : superset'.current[tb] # k \/ superset'.current[tb] = 0
        /\ Len(superset'.saved) = Len(superset.saved)
        /\ superset'.saved[k] \in {"gone", superset.saved[k]}
        /\ product.deletes => superset'.saved[k] = "gone"
        /\ \A i \in SavedKeys : i # k => superset'.saved[i] = superset.saved[i]
    BY <1>2, <1>3, DeleteKeeps DEF IInv
  <1>5. PICK step, r :
           /\ Moves(t, step, r) /\ step \in {"marking", "idle"}
           /\ muddled \subseteq muddled' /\ muddled' \subseteq muddled \union {Link(k)}
           /\ \/ step = "marking" /\ r = job[t]
              \/ step = "idle" /\ r = Idle /\ Link(k) \in muddled'
    <2>1. Served(t, "marking", job[t])
      BY DEF DeleteLink
    <2>2. CASE Continues(t, "marking", job[t])
      <3>1. /\ Goes(t, "marking", job[t])
            /\ muddled' = muddled \union (Shared(t, Link(k)) \ {<<>>})
        BY <1>2, <2>2 DEF Continues
      <3>2. Moves(t, "marking", job[t])
        BY <1>1, <3>1, GoesMoves DEF IInv, Steps
      <3> QED BY <3>1, <3>2 DEF Shared
    <2>3. CASE BreaksOff(t, job[t].item)
      <3>1. muddled' = muddled \union {Link(k)} /\ Ends(t)
        BY <1>2, <2>3, ItemsApart DEF BreaksOff
      <3>2. Moves(t, "idle", Idle)
        BY <3>1, EndsMoves DEF IInv
      <3> QED BY <3>1, <3>2
    <2> QED BY <2>1, <2>2, <2>3 DEF Served
  <1>6. SavedKeys' = SavedKeys
    BY <1>4 DEF SavedKeys
  <1>7. \A tb \in Tabs : superset'.current[tb] \in 0 .. Len(superset'.saved)
    <2>1. Len(superset.saved) \in Nat
      BY SavedAreKeys
    <2>2. \A tb \in Tabs : superset.current[tb] \in 0 .. Len(superset.saved)
      BY DEF IInv, Typed
    <2> SUFFICES ASSUME NEW tb \in Tabs
                 PROVE  superset'.current[tb] \in 0 .. Len(superset.saved)
      BY <1>4
    <2>3. superset'.current[tb] \in {0, superset.current[tb]}
      BY <1>4
    <2> QED BY <2>1, <2>2, <2>3
  <1>8. Counting'
    BY <1>1, <1>4, <1>5, CountingKept
  <1>9. Living'
    <2> SUFFICES ASSUME product.keys # "reused", NEW tb \in Tabs, superset'.current[tb] # 0
                 PROVE  superset'.saved[superset'.current[tb]] # "gone"
      BY <1>1 DEF Living
    <2>1. superset'.current[tb] = superset.current[tb] /\ superset'.current[tb] # k
      BY <1>4
    <2>2. superset.current[tb] \in SavedKeys
      BY <1>6, <1>7, <2>1 DEF SavedKeys
    <2>3. superset.saved[superset.current[tb]] # "gone"
      BY <2>1 DEF IInv, Living
    <2> QED BY <1>4, <2>1, <2>2, <2>3
  <1>10. /\ PlacedAt(t)'
         /\ \A key : Has(t, key)' => key = k /\ step = "marking"
         /\ Link(k) \notin muddled' => step = "marking" /\ Has(t, k)'
    <2>1. pc'[t] = step /\ job'[t] = r /\ Idle.item = <<>>
      BY <1>5, IdleTyped DEF Moves
    <2>2. PlacedAt(t)'
      BY <1>2, <1>5, <1>6, <2>1 DEF PlacedAt, LinkSteps, ChartSteps
    <2> QED BY <1>2, <1>5, <2>1, <2>2, ItemsApart DEF Has
  <1>11. Untouched(t)
    BY <1>1, <1>2, <1>4 DEF Untouched, Has
  <1>12. ASSUME Link(k) \notin muddled', Keeps PROVE Stage(t, k)'
    <2>1. pc'[t] = "marking"
      BY <1>5, <1>12 DEF Moves
    <2> QED BY <1>4, <1>12, <2>1 DEF Stage, Keeps
  <1>13. ASSUME Link(k) \notin muddled' PROVE Reports(k)'
    <2>1. Reports(k)
      BY <1>2, <1>5, <1>13
    <2>2. pc'[t] = step /\ step # "keeping"
      BY <1>5 DEF Moves
    <2>3. \A u \in Threads : u # t => pc'[u] = pc[u] /\ (Has(u, k)' <=> Has(u, k))
      BY <1>5 DEF Moves, Has
    <2>4. Discarded(k)' <=> Discarded(k)
      BY <1>1 DEF Discarded
    <2> QED BY <1>1, <1>2, <1>4, <1>6, <2>1, <2>2, <2>3, <2>4 DEF Reports
  <1>14. muddled' \subseteq Items
    BY <1>2, <1>5 DEF IInv
  <1>15. /\ records' \in [Keys -> [spec: Specs \union {"none"}, discarded: BOOLEAN]]
         /\ \A key \in Keys : records'[key] # NoRecord => key \in SavedKeys'
         /\ gone' \subseteq Keys /\ newer' \subseteq Keys \X Keys
    BY <1>1, <1>6 DEF IInv, Typed
  <1>16. r.item \in {<<>>, job[t].item}
    BY <1>5, IdleTyped
  <1>17. \A key \in Keys : Link(key) \notin muddled' =>
              /\ Keeps /\ Has(t, key)' => Stage(t, key)'
              /\ Keeps /\ Has(t, key) /\ ~Has(t, key)' => Agrees(key)'
              /\ Has(t, key) \/ Has(t, key)' => Reports(key)'
              /\ ~Has(t, key) /\ ~Has(t, key)' => (key \in gone' => key \in gone)
    BY <1>1, <1>2, <1>10, <1>12, <1>13
  <1> QED BY <1>1, <1>4, <1>5, <1>6, <1>7, <1>8, <1>9, <1>10, <1>11, <1>14, <1>15, <1>16, <1>17,
             WriteStep

-----------------------------------------------------------------------------
(* Steps that write a chart, and those that end everything. *)

LEMMA ChartsTyped ==
    ASSUME NEW chart \in Configs, NEW config \in Configs
    PROVE  /\ Generate(product, Config(CHART_ROW_LIMIT, "google", "omitted")) \in Configs
           /\ Update(product, chart, config) \in Configs
  <1>1. Generate(product, Config(CHART_ROW_LIMIT, "google", "omitted")) \in Configs
    BY DEF Generate, Config, CHART_ROW_LIMIT, Configs, Omitted
  <1>2. Limit(product, chart, config.limit) \in Nat
    BY DEF Limit, Configs, DEFAULT_LIMIT
  <1>3. Update(product, chart, config).palette \in {"google", "omitted", "none"}
    BY DEF Update, Configs
  <1>4. Update(product, chart, config).sort \in {"asc", "desc", "omitted"}
    BY DEF Update, Configs
  <1>5. Update(product, chart, config) \in Configs
    BY <1>2, <1>3, <1>4 DEF Update, Configs
  <1> QED BY <1>1, <1>5

LEMMA ChartWriteStep ==
    ASSUME IInv, NEW t \in Threads, NEW step, NEW j, Moves(t, step, j),
           UNCHANGED <<product, page, superset, table, findings, gone, requests>>,
           charts' \in Seq(Configs), DOMAIN charts \subseteq DOMAIN charts',
           muddled \subseteq muddled', muddled' \subseteq Items',
           PlacedAt(t)', Charting', step # "posting",
           j.item \in {<<>>, job[t].item} \/ Shared(t, j.item) \subseteq muddled',
           \A key : ~Has(t, key) /\ ~Has(t, key)'
    PROVE  IInv'
  <1>1. /\ product' = product /\ page' = page /\ superset' = superset
        /\ UNCHANGED table /\ UNCHANGED findings /\ gone' = gone /\ requests' = requests
    OBVIOUS
  <1>2. SavedKeys' = SavedKeys
    BY <1>1 DEF SavedKeys
  <1>3. Typed'
    BY <1>1, <1>2 DEF IInv, Typed, Moves
  <1>4. \A u \in Threads : PlacedAt(u)'
    BY <1>2, PlacedStays DEF IInv
  <1>5. Noted' \union muddled' \subseteq Items'
    <2>1. Items \subseteq Items'
      BY DEF Items
    <2> QED BY <1>1, <2>1 DEF IInv
  <1>6. Sharing'
    BY SharingKept DEF IInv
  <1>7. Counting'
    BY <1>1, CountingKept
  <1>8. Living'
    BY <1>1 DEF IInv, Living
  <1>9. Untouched(t)
    BY <1>1 DEF Untouched
  <1>10. Truth'
    BY <1>1, <1>6, <1>9, TruthKept
  <1>11. Reporting'
    BY <1>1, <1>2, <1>9, ReportingKept
  <1> QED BY <1>3, <1>4, <1>5, <1>6, <1>7, <1>8, <1>10, <1>11 DEF IInv

LEMMA GeneratedStep == ASSUME IInv, NEW t \in Threads, Generated(t) PROVE IInv'
  <1>1. /\ pc[t] = "generating" /\ job[t].item = TheChart /\ IsRequest(job[t])
        /\ Editor(t) /\ job[t].config \in Configs
        /\ UNCHANGED <<product, page, superset, table, findings, gone, requests>>
    BY DEF Generated, IInv, Typed, PlacedAt
  <1>2. PICK chart \in Configs : charts' = Append(charts, chart)
    <2>1. Generate(product, Config(CHART_ROW_LIMIT, "google", "omitted")) \in Configs
      BY <1>1, ChartsTyped
    <2> QED BY <2>1 DEF Generated
  <1>3. PICK n : n = Len(charts')
    OBVIOUS
  <1>4. /\ charts' \in Seq(Configs) /\ Len(charts) \in Nat /\ n = Len(charts) + 1
        /\ DOMAIN charts \subseteq DOMAIN charts' /\ n \in DOMAIN charts'
    BY <1>2, <1>3 DEF IInv, Typed
  <1>5. PICK j : j = [job[t] EXCEPT !.item = Chart(n)]
    OBVIOUS
  <1>6. IsRequest(j) /\ j.item = Chart(n) /\ j.config \in Configs
    BY <1>1, <1>5, WithItem
  <1>7. Continues(t, "noting", j) \/ BreaksOff(t, Chart(n))
    <2>1. Served(t, "noting", j)
      BY <1>3, <1>5 DEF Generated
    <2> QED BY <1>6, <2>1 DEF Served
  <1>8. PICK step, r :
           /\ Moves(t, step, r)
           /\ muddled \subseteq muddled' /\ muddled' \subseteq muddled \union {Chart(n)}
           /\ \/ step = "noting" /\ r = j /\ Shared(t, Chart(n)) \subseteq muddled'
              \/ step = "idle" /\ r = Idle
    <2>1. CASE Continues(t, "noting", j)
      <3>1. Goes(t, "noting", j) /\ muddled' = muddled \union (Shared(t, Chart(n)) \ {<<>>})
        BY <1>6, <2>1 DEF Continues
      <3>2. Moves(t, "noting", j)
        BY <1>6, <3>1, GoesMoves DEF IInv, Steps, Calling
      <3>3. Chart(n) # <<>> /\ Shared(t, Chart(n)) \subseteq {Chart(n)}
        BY ItemsApart DEF Shared
      <3> QED BY <3>1, <3>2, <3>3
    <2>2. CASE BreaksOff(t, Chart(n))
      <3>1. muddled' = muddled \union {Chart(n)} /\ Ends(t)
        BY <2>2, ItemsApart DEF BreaksOff
      <3>2. Moves(t, "idle", Idle)
        BY <3>1, EndsMoves DEF IInv
      <3> QED BY <3>1, <3>2
    <2> QED BY <1>7, <2>1, <2>2
  <1>9. pc'[t] = step /\ job'[t] = r /\ Idle.item = <<>>
    BY <1>8, IdleTyped DEF Moves
  <1>10. PlacedAt(t)'
    BY <1>4, <1>6, <1>8, <1>9 DEF PlacedAt, LinkSteps, ChartSteps
  <1>11. muddled' \subseteq Items'
    <2>1. Items \subseteq Items' /\ Chart(n) \in Items'
      BY <1>4 DEF Items
    <2> QED BY <1>8, <2>1 DEF IInv
  <1>12. Charting'
    <2> SUFFICES ASSUME TheChart \notin muddled'
                 PROVE  /\ Len(charts') <= 1
                        /\ \A u \in Threads : pc'[u] # "generating"
      BY DEF Charting
    <2>1. Len(charts) <= 1 /\ Len(charts) # 1
      BY <1>1, <1>8 DEF IInv, Charting
    <2>2. ASSUME NEW u \in Threads \ {t}, pc[u] = "generating" PROVE FALSE
      <3>1. job[u].item = TheChart /\ TheChart # <<>>
        BY <2>2, ItemsApart DEF IInv, PlacedAt, TheChart
      <3> QED BY <1>1, <1>8, <3>1 DEF IInv, Sharing
    <2>3. \A u \in Threads : pc'[u] # "generating"
      BY <1>8, <2>2 DEF Moves
    <2>4. Len(charts') <= 1
      <3>1. PICK m \in Nat : m = Len(charts) /\ n = m + 1
        BY <1>4
      <3>2. n = 1
        BY <2>1, <3>1
      <3> QED BY <1>3, <3>2
    <2> QED BY <2>3, <2>4
  <1>13. \A key : ~Has(t, key) /\ ~Has(t, key)'
    BY <1>1, <1>6, <1>8, <1>9, ItemsApart DEF Has, TheChart
  <1>14. r.item \in {<<>>, job[t].item} \/ Shared(t, r.item) \subseteq muddled'
    BY <1>6, <1>8, <1>9
  <1> QED BY <1>1, <1>4, <1>8, <1>10, <1>11, <1>12, <1>13, <1>14, ChartWriteStep

LEMMA UpdateChartStep == ASSUME IInv, NEW t \in Threads, UpdateChart(t) PROVE IInv'
  <1>1. /\ pc[t] = "updating" /\ IsRequest(job[t]) /\ job[t].config \in Configs
        /\ UNCHANGED <<product, page, superset, table, findings, gone, requests>>
    BY DEF UpdateChart, IInv, Typed, PlacedAt
  <1>2. PICK n \in DOMAIN charts : job[t].item = Chart(n) /\ job[t].item[2] = n
    BY <1>1, ItemsApart DEF IInv, PlacedAt, ChartSteps
  <1>3. charts \in Seq(Configs) /\ charts[n] \in Configs
    BY <1>2 DEF IInv, Typed
  <1>4. PICK chart \in Configs : charts' = [charts EXCEPT ![n] = chart]
    <2>1. Update(product, charts[n], job[t].config) \in Configs
      BY <1>1, <1>3, ChartsTyped
    <2>2. charts' = [charts EXCEPT ![n] = Update(product, charts[n], job[t].config)]
      BY <1>2 DEF UpdateChart
    <2> QED BY <2>1, <2>2
  <1>5. /\ charts' \in Seq(Configs) /\ Len(charts') = Len(charts)
        /\ DOMAIN charts' = DOMAIN charts
    BY <1>2, <1>3, <1>4
  <1>6. Items' = Items /\ Chart(n) \in Items
    BY <1>5 DEF Items
  <1>7. PICK step, r :
           /\ Moves(t, step, r)
           /\ muddled \subseteq muddled' /\ muddled' \subseteq muddled \union {Chart(n)}
           /\ \/ step = "reading" /\ r = job[t]
              \/ step = "idle" /\ r = Idle
    <2>1. Served(t, "reading", job[t])
      BY DEF UpdateChart
    <2>2. CASE Continues(t, "reading", job[t])
      <3>1. /\ Goes(t, "reading", job[t])
            /\ muddled' = muddled \union (Shared(t, Chart(n)) \ {<<>>})
        BY <1>2, <2>2 DEF Continues
      <3>2. Moves(t, "reading", job[t])
        BY <1>1, <3>1, GoesMoves DEF IInv, Steps, Calling
      <3> QED BY <3>1, <3>2 DEF Shared
    <2>3. CASE BreaksOff(t, job[t].item)
      <3>1. muddled' = muddled \union {Chart(n)} /\ Ends(t)
        BY <1>2, <2>3, ItemsApart DEF BreaksOff
      <3>2. Moves(t, "idle", Idle)
        BY <3>1, EndsMoves DEF IInv
      <3> QED BY <3>1, <3>2
    <2> QED BY <2>1, <2>2, <2>3 DEF Served
  <1>8. pc'[t] = step /\ job'[t] = r /\ Idle.item = <<>>
    BY <1>7, IdleTyped DEF Moves
  <1>9. PlacedAt(t)'
    BY <1>2, <1>5, <1>7, <1>8 DEF PlacedAt, LinkSteps, ChartSteps
  <1>10. Charting'
    <2> SUFFICES ASSUME TheChart \notin muddled'
                 PROVE  /\ Len(charts) <= 1
                        /\ Len(charts) = 1 => \A u \in Threads : pc'[u] # "generating"
      BY <1>5 DEF Charting
    <2>1. /\ Len(charts) <= 1
          /\ Len(charts) = 1 => \A u \in Threads : pc[u] # "generating"
      BY <1>7 DEF IInv, Charting
    <2> QED BY <1>7, <2>1 DEF Moves
  <1>11. \A key : ~Has(t, key) /\ ~Has(t, key)'
    BY <1>2, <1>7, <1>8, ItemsApart DEF Has
  <1>12. /\ muddled' \subseteq Items' /\ DOMAIN charts \subseteq DOMAIN charts'
         /\ r.item \in {<<>>, job[t].item} /\ step # "posting"
    BY <1>5, <1>6, <1>7, <1>8 DEF IInv
  <1> QED BY <1>1, <1>5, <1>7, <1>9, <1>10, <1>11, <1>12, ChartWriteStep

LEMMA ClearStep == ASSUME IInv, NEW t \in Threads, Clear(t) PROVE IInv'
  <1>1. /\ pc[t] = "clearing" /\ IsRequest(job[t]) /\ job[t].config \in Configs
        /\ records' = [key \in Keys |-> NoRecord] /\ gone' = {}
        /\ product' = product /\ page' = page /\ superset' = superset
        /\ charts' = charts /\ UNCHANGED findings /\ requests' = requests /\ newer' = {}
        /\ muddled' =
              muddled \union Shared(t, TheChart)
                 \union ({Link(key) : key \in Keys} \intersect {job[u].item : u \in Threads})
    BY DEF Clear, IInv, Typed, PlacedAt, limits
  <1>2. PICK j : j = [job[t] EXCEPT !.item = TheChart]
    OBVIOUS
  <1>3. IsRequest(j) /\ j.item = TheChart /\ j.config \in Configs
    BY <1>1, <1>2, WithItem
  <1>4. Goes(t, "finding", j)
    BY <1>2 DEF Clear
  <1>5. Moves(t, "finding", j)
    BY <1>3, <1>4, GoesMoves DEF IInv, Steps, Calling
  <1>6. SavedKeys' = SavedKeys /\ Items' = Items
    BY <1>1 DEF SavedKeys, Items
  <1>7. Typed'
    <2>1. /\ records' \in [Keys -> [spec: Specs \union {"none"}, discarded: BOOLEAN]]
          /\ \A key \in Keys : records'[key] = NoRecord
      BY <1>1 DEF NoRecord
    <2> QED BY <1>1, <1>5, <2>1 DEF IInv, Typed, Moves
  <1>8. PlacedAt(t)'
    BY <1>3, <1>5 DEF PlacedAt, Moves, LinkSteps, ChartSteps
  <1>9. \A u \in Threads : PlacedAt(u)'
    BY <1>1, <1>5, <1>6, <1>8, PlacedStays DEF IInv
  <1>10. Noted' \union muddled' \subseteq Items'
    BY <1>1, <1>6 DEF IInv, Shared, Items
  <1>11. Counting'
    BY <1>1, <1>5, CountingKept
  <1>12. Sharing'
    <2>1. muddled \subseteq muddled' /\ Shared(t, j.item) \subseteq muddled'
      BY <1>1, <1>3
    <2> QED BY <1>5, <2>1, SharingKept DEF IInv
  <1>13. Charting'
    <2> SUFFICES ASSUME TheChart \notin muddled'
                 PROVE  /\ Len(charts) <= 1
                        /\ Len(charts) = 1 => \A u \in Threads : pc'[u] # "generating"
      BY <1>1 DEF Charting
    <2>1. /\ Len(charts) <= 1
          /\ Len(charts) = 1 => \A u \in Threads : pc[u] # "generating"
      BY <1>1 DEF IInv, Charting
    <2> QED BY <1>5, <2>1 DEF Moves
  <1>14. Living'
    BY <1>1 DEF IInv, Living
  <1>15. ASSUME NEW key \in Keys, Link(key) \notin muddled', NEW u \in Threads
         PROVE  ~Has(u, key)'
    <2>1. ~Has(u, key)
      BY <1>1, <1>15 DEF Has
    <2>2. j.item # Link(key)
      BY <1>3, ItemsApart DEF TheChart
    <2> QED BY <1>5, <2>1, <2>2 DEF Has, Moves
  <1>16. Truth'
    BY <1>1, <1>15 DEF Truth, Agrees
  <1>17. Reporting'
    BY <1>1, <1>15 DEF Reporting, Reports
  <1> QED BY <1>7, <1>9, <1>10, <1>11, <1>12, <1>13, <1>14, <1>16, <1>17 DEF IInv

LEMMA CrashStep == ASSUME IInv, Crash PROVE IInv'
  <1>1. /\ pc' = [t \in Threads |-> "idle"] /\ job' = [t \in Threads |-> Idle]
        /\ muddled' = muddled \union ({job[t].item : t \in Threads} \ {<<>>})
        /\ product' = product /\ page' = page /\ superset' = superset
        /\ charts' = charts /\ UNCHANGED table /\ UNCHANGED findings
        /\ gone' = gone /\ requests' = requests
    BY DEF Crash
  <1>2. \A t \in Threads : pc'[t] = "idle" /\ job'[t] = Idle /\ job'[t].item = <<>>
    BY <1>1, IdleTyped
  <1>3. SavedKeys' = SavedKeys /\ Items' = Items
    BY <1>1 DEF SavedKeys, Items
  <1>4. Typed'
    BY <1>1, <1>2, <1>3, IdleTyped DEF IInv, Typed
  <1>5. \A t \in Threads : PlacedAt(t)'
    BY <1>2 DEF PlacedAt, LinkSteps, ChartSteps
  <1>6. Noted' \union muddled' \subseteq Items'
    BY <1>1, <1>3, ItemKnown DEF IInv
  <1>7. Counting'
    <2>1. Posting' = {}
      BY <1>2 DEF Posting
    <2>2. IsFiniteSet(Posting') /\ Cardinality(Posting') = 0
      BY <2>1, FS_EmptySet
    <2>3. PICK n \in Nat : n = Cardinality(Posting)
      BY FS_CardinalityType DEF IInv, Counting
    <2>4. Len(superset.saved) \in Nat /\ requests \in Int /\ Len(superset.saved) + n <= requests
      BY <2>3, SavedAreKeys DEF IInv, Counting, Typed
    <2>5. Len(superset.saved) + 0 <= requests
      BY <2>3, <2>4
    <2> QED BY <1>1, <2>2, <2>5 DEF Counting
  <1>8. Sharing'
    BY <1>2 DEF Sharing
  <1>9. Charting'
    BY <1>1, <1>2 DEF IInv, Charting
  <1>10. Living'
    BY <1>1 DEF IInv, Living
  <1>11. ASSUME NEW key \in Keys, Link(key) \notin muddled'
         PROVE  Link(key) \notin muddled /\ \A t \in Threads : ~Has(t, key) /\ ~Has(t, key)'
    BY <1>1, <1>2, <1>11, ItemsApart DEF Has
  <1>12. Truth'
    <2> SUFFICES ASSUME Keeps, NEW key \in Keys, Link(key) \notin muddled'
                 PROVE  /\ Agrees(key)'
                        /\ \A t \in Threads : Has(t, key)' => Stage(t, key)'
      BY <1>1 DEF Truth, Keeps
    <2>1. Agrees(key)
      BY <1>11 DEF IInv, Truth, Free
    <2> QED BY <1>1, <1>11, <2>1 DEF Agrees, Discarded
  <1>13. Reporting'
    <2> SUFFICES ASSUME NEW key \in Keys, Link(key) \notin muddled' PROVE Reports(key)'
      BY DEF Reporting
    <2>1. Reports(key) /\ \A t \in Threads : ~Has(t, key)
      BY <1>11 DEF IInv, Reporting
    <2> QED BY <1>1, <1>2, <1>3, <2>1 DEF Reports, Discarded
  <1> QED BY <1>4, <1>5, <1>6, <1>7, <1>8, <1>9, <1>10, <1>12, <1>13 DEF IInv

-----------------------------------------------------------------------------
(* The induction. *)

LEMMA InitHolds == Init => IInv
  <1> SUFFICES ASSUME Init PROVE IInv
    OBVIOUS
  <1>1. /\ product \in Products /\ page \in {"explorations", "settings"}
        /\ superset = [saved |-> <<>>, current |-> [tab \in Tabs |-> 0]] /\ charts = <<>>
        /\ records = [key \in Keys |-> NoRecord] /\ newer = {}
        /\ pc = [t \in Threads |-> "idle"] /\ job = [t \in Threads |-> Idle]
        /\ Noted = {} /\ muddled = {} /\ gone = {} /\ requests = 0
    BY DEF Init, Unsaved
  <1>2. \A t \in Threads : pc[t] = "idle" /\ job[t] = Idle /\ job[t].item = <<>>
    BY <1>1, IdleTyped
  <1>3. Len(superset.saved) = 0 /\ Len(charts) = 0
    BY <1>1
  <1>4. Typed
    <2>1. superset \in [saved: Seq(Specs \union {"gone"}), current: [Tabs -> Nat]]
      BY <1>1
    <2>2. records \in [Keys -> [spec: Specs \union {"none"}, discarded: BOOLEAN]]
      BY <1>1 DEF NoRecord
    <2>3. \A tab \in Tabs : superset.current[tab] \in 0 .. Len(superset.saved)
      BY <1>1, <1>3
    <2>4. requests \in 0 .. MaxRequests
      BY <1>1, BoundsAreNaturals
    <2> QED BY <1>1, <1>2, <2>1, <2>2, <2>3, <2>4, IdleTyped DEF Typed
  <1>5. \A t \in Threads : PlacedAt(t)
    BY <1>2 DEF PlacedAt, LinkSteps, ChartSteps
  <1>6. Counting
    <2>1. Posting = {}
      BY <1>2 DEF Posting
    <2>2. IsFiniteSet(Posting) /\ Cardinality(Posting) = 0
      BY <2>1, FS_EmptySet
    <2> QED BY <1>1, <1>3, <2>2 DEF Counting
  <1>7. Sharing
    BY <1>2 DEF Sharing
  <1>8. Charting
    BY <1>2, <1>3 DEF Charting
  <1>9. Living
    BY <1>1 DEF Living
  <1>10. \A key \in Keys, t \in Threads : ~Has(t, key)
    BY <1>2, ItemsApart DEF Has
  <1>11. Truth
    BY <1>1, <1>10 DEF Truth, Agrees
  <1>12. Reporting
    BY <1>1, <1>10 DEF Reporting, Reports
  <1> QED BY <1>1, <1>4, <1>5, <1>6, <1>7, <1>8, <1>9, <1>11, <1>12 DEF IInv

LEMMA StepHolds == IInv /\ [Next]_vars => IInv'
  <1> SUFFICES ASSUME IInv, [Next]_vars PROVE IInv'
    OBVIOUS
  <1>1. CASE UNCHANGED vars
    <2>1. UNCHANGED <<product, page, superset, charts, table, pc, job,
                      findings, muddled, gone, requests>>
      BY <1>1 DEF vars, told, limits
    <2> QED BY <2>1 DEF IInv, Typed, PlacedAt, Editor, Items, Counting, Posting, Sharing,
                   Charting, Living, Truth, Keeps, Free, Has, Agrees, Stage, Reporting,
                   Reports, SavedKeys, Discarded
  <1>2. CASE Crash
    BY <1>2, CrashStep
  <1>3. ASSUME NEW t \in Threads,
               \/ Begin(t) \/ Unserved(t) \/ Post(t) \/ Refused(t) \/ Judge(t) \/ Keep(t)
        PROVE  IInv'
    BY <1>3, BeginStep, UnservedStep, PostStep, RefusedStep, JudgeStep, KeepStep
  <1>4. ASSUME NEW t \in Threads,
               \/ Look(t) \/ Fetch(t) \/ FetchFails(t) \/ DeleteLink(t) \/ DeleteMisses(t)
               \/ Mark(t) \/ Verify(t) \/ VerifyFails(t)
        PROVE  IInv'
    BY <1>4, LookStep, FetchStep, DeleteStep, RefusedStep, MarkStep, VerifyStep
  <1>5. ASSUME NEW t \in Threads,
               \/ Find(t) \/ FindFails(t) \/ Generated(t) \/ Denied(t) \/ Note(t)
               \/ UpdateChart(t) \/ UpdateFails(t) \/ Read(t) \/ Clear(t)
        PROVE  IInv'
    BY <1>5, FindStep, GeneratedStep, RefusedStep, NoteStep, UpdateChartStep, UpdateFailsStep,
       ReadStep, ClearStep
  <1> QED BY <1>1, <1>2, <1>3, <1>4, <1>5 DEF Next

LEMMA Inductive == Spec => []IInv
  BY InitHolds, StepHolds, PTL DEF Spec

-----------------------------------------------------------------------------
(* No false alarm: the second inductive invariant. *)

\* A request that changes the chart says how to sort it.
Asking(t) ==
    /\ pc[t] \in {"clearing", "finding", "generating", "noting"} =>
          job[t].does = "view" \/ job[t].config.sort # "omitted"
    /\ pc[t] = "updating" => job[t].config.sort # "omitted"

\* The product takes what a change of a chart says, and keeps the rest.
Applies == Meets(product, Contract["row_limit"])

\* What a request has seen is still so, or what its change has made of it.
Seeing(t) ==
    /\ \A key \in Keys : pc[t] = "fetching" /\ Has(t, key) /\ Link(key) \notin muddled =>
          job[t].seen = records[key]
    /\ \A n \in DOMAIN charts : job[t].item = Chart(n) /\ Chart(n) \notin muddled =>
          /\ pc[t] = "updating" => job[t].seen = charts[n]
          /\ pc[t] = "reading" /\ Applies => Kept(job[t].seen, charts[n], job[t].config)

\* A product that does as it should has alarms only about what is muddled.
Alarmed ==
    /\ alarms \subseteq {Link(key) : key \in Keys} \union {Chart(n) : n \in DOMAIN charts}
    /\ Keeps => \A key \in Keys : Link(key) \in alarms => Link(key) \in muddled
    /\ Applies => \A n \in DOMAIN charts : Chart(n) \in alarms => Chart(n) \in muddled

Watching ==
    /\ \A t \in Threads : Asking(t) /\ Seeing(t)
    /\ Alarmed

\* Thread t is at a step with a request in hand; the others stay where they are.
At(t, step, j) ==
    /\ pc'[t] = step /\ job'[t] = j
    /\ \A u \in Threads \ {t} : pc'[u] = pc[u] /\ job'[u] = job[u]

LEMMA GoesAt ==
    ASSUME Typed, NEW t \in Threads, NEW step, NEW j, Goes(t, step, j)
    PROVE  At(t, step, j)
  <1>1. /\ DOMAIN pc = Threads /\ DOMAIN job = Threads
        /\ pc' = [pc EXCEPT ![t] = step] /\ job' = [job EXCEPT ![t] = j]
    BY DEF Typed, Goes
  <1> QED BY <1>1 DEF At

\* The others go on seeing what they saw: what thread t changes is its own, or muddled.
LEMMA WatchKept ==
    ASSUME IInv, Watching, NEW t \in Threads, NEW step, NEW j, At(t, step, j),
           product' = product, muddled \subseteq muddled', DOMAIN charts \subseteq DOMAIN charts',
           \A n \in DOMAIN charts : charts'[n] = charts[n] \/ job[t].item = Chart(n),
           \A key \in Keys : \/ records'[key] = records[key] \/ Has(t, key)
                             \/ Link(key) \in muddled' \/ Free(key),
           Asking(t)', Seeing(t)', Alarmed'
    PROVE  Watching'
  <1> SUFFICES ASSUME NEW u \in Threads \ {t} PROVE Asking(u)' /\ Seeing(u)'
    BY DEF Watching
  <1>1. pc'[u] = pc[u] /\ job'[u] = job[u] /\ u \in Threads
    BY DEF At
  <1>2. Asking(u) /\ Seeing(u)
    BY DEF Watching
  <1>3. Applies' <=> Applies
    BY DEF Applies
  <1>4. ASSUME NEW key \in Keys, pc[u] = "fetching", Has(u, key), Link(key) \notin muddled'
        PROVE  job[u].seen = records'[key]
    <2>1. ~Free(key) /\ ~Has(t, key)
      BY <1>4, ItemsApart DEF IInv, Sharing, Has, Free
    <2>2. records'[key] = records[key]
      BY <1>4, <2>1
    <2> QED BY <1>2, <1>4, <2>2 DEF Seeing
  <1>5. ASSUME NEW n \in DOMAIN charts', job[u].item = Chart(n), Chart(n) \notin muddled',
               pc[u] \in {"updating", "reading"}
        PROVE  n \in DOMAIN charts /\ charts'[n] = charts[n]
    <2>1. PICK m \in DOMAIN charts : job[u].item = Chart(m)
      BY <1>1, <1>5 DEF IInv, PlacedAt, ChartSteps
    <2>2. m = n
      BY <1>5, <2>1, ItemsApart
    <2>3. job[t].item # Chart(n)
      BY <1>5, ItemsApart DEF IInv, Sharing
    <2> QED BY <2>1, <2>2, <2>3
  <1>6. Asking(u)'
    BY <1>1, <1>2 DEF Asking
  <1>7. Seeing(u)'
    BY <1>1, <1>2, <1>3, <1>4, <1>5 DEF Seeing, Has
  <1> QED BY <1>6, <1>7

LEMMA AlarmedKept ==
    ASSUME IInv, Watching, product' = product, alarms' = alarms, muddled \subseteq muddled',
           DOMAIN charts \subseteq DOMAIN charts'
    PROVE  Alarmed'
  <1>1. Alarmed
    BY DEF Watching
  <1>2. ASSUME NEW n, Chart(n) \in alarms PROVE n \in DOMAIN charts
    BY <1>1, <1>2, ItemsApart DEF Alarmed
  <1>3. (Keeps' <=> Keeps) /\ (Applies' <=> Applies)
    BY DEF Keeps, Applies
  <1> QED BY <1>1, <1>2, <1>3 DEF Alarmed

\* An alarm is raised: about a muddled thing, or by a product that gives cause.
Caused(item) ==
    \/ \E key \in Keys : item = Link(key) /\ (Keeps => item \in muddled')
    \/ \E n \in DOMAIN charts : item = Chart(n) /\ (Applies => item \in muddled')

LEMMA AlarmRaised ==
    ASSUME Watching, UNCHANGED <<product, charts>>, muddled \subseteq muddled', NEW item,
           alarms' = alarms \union {item}, Caused(item)
    PROVE  Alarmed'
  <1>1. Alarmed
    BY DEF Watching
  <1>2. (Keeps' <=> Keeps) /\ (Applies' <=> Applies)
    BY DEF Keeps, Applies
  <1>3. CASE \E key \in Keys : item = Link(key) /\ (Keeps => item \in muddled')
    BY <1>1, <1>2, <1>3, ItemsApart DEF Alarmed
  <1>4. CASE \E n \in DOMAIN charts : item = Chart(n) /\ (Applies => item \in muddled')
    BY <1>1, <1>2, <1>4, ItemsApart DEF Alarmed
  <1> QED BY <1>3, <1>4 DEF Caused

\* Steps after which a request looks at nothing it has seen before.
Blind == {"idle", "posting", "judging", "keeping", "looking", "deleting", "marking", "verifying"}

LEMMA BlindWatch ==
    ASSUME NEW t, pc'[t] \in Blind
    PROVE  Asking(t)' /\ Seeing(t)'
  BY DEF Blind, Asking, Seeing

LEMMA WatchBegin == ASSUME IInv, Watching, NEW t \in Threads, Begin(t) PROVE Watching'
  <1>1. PICK j \in Requests : Continues(t, FirstStep[j.does], j)
    BY DEF Begin
  <1>2. PICK step : step = FirstStep[j.does]
    OBVIOUS
  <1>3. /\ At(t, step, j) /\ muddled \subseteq muddled'
        /\ UNCHANGED <<product, charts, records, alarms>>
    BY <1>1, <1>2, GoesAt DEF Begin, Continues, IInv
  <1>4. \/ step \in Blind
        \/ /\ step \in {"clearing", "finding"}
           /\ j.does = "view" \/ j.config.sort # "omitted"
    <2> USE DEF Request
    <2>1. CASE j = Request("reset", "analyst", 0, <<>>, "none", Fixture)
      <3>1. j.does = "reset" /\ j.config.sort = "desc"
        BY <2>1 DEF Fixture, Config
      <3> QED BY <1>2, <3>1 DEF FirstStep
    <2>2. CASE \E profile \in Profiles, tab \in Tabs :
                  j = Request("save", profile, tab, <<>>, States[requests + 1], Only(Omitted))
      BY <1>2, <2>2 DEF FirstStep, Blind
    <2>3. CASE \E does \in {"open", "discard"}, key \in DOMAIN superset.saved :
                  \E profile \in Profiles :
                     j = Request(does, profile, 0, Link(key), "none", Only(Omitted))
      BY <1>2, <2>3 DEF FirstStep, Blind
    <2>4. CASE \E profile \in Profiles :
                  j = Request("view", profile, 0, TheChart, "none", Only(Omitted))
      BY <1>2, <2>4 DEF FirstStep
    <2>5. CASE \E profile \in Profiles, limit \in {Omitted, 275}, direction \in {"asc", "desc"} :
                  j = Request("sort", profile, 0, TheChart, "none", Sorted(limit, direction))
      <3>1. j.does = "sort" /\ j.config.sort \in {"asc", "desc"}
        BY <2>5 DEF Sorted, Config
      <3> QED BY <1>2, <3>1 DEF FirstStep
    <2> HIDE DEF Request
    <2>6. CASE page = "explorations"
      BY <2>1, <2>2, <2>3, <2>6 DEF Requests
    <2>7. CASE page = "settings"
      BY <2>1, <2>4, <2>5, <2>7 DEF Requests
    <2> QED BY <2>6, <2>7 DEF IInv, Typed
  <1>5. Asking(t)' /\ Seeing(t)'
    <2>1. CASE step \in Blind
      BY <1>3, <2>1, BlindWatch DEF At
    <2>2. CASE step \in {"clearing", "finding"} /\ (j.does = "view" \/ j.config.sort # "omitted")
      BY <1>3, <2>2 DEF At, Asking, Seeing
    <2> QED BY <1>4, <2>1, <2>2
  <1>6. Alarmed'
    BY <1>3, AlarmedKept
  <1> QED BY <1>3, <1>5, <1>6, WatchKept

\* Steps that raise no alarm, write no chart and leave the request blind.
LEMMA WatchBlind ==
    ASSUME IInv, Watching, NEW t \in Threads,
           \/ Unserved(t) \/ Post(t) \/ Refused(t) \/ Keep(t) \/ DeleteLink(t)
           \/ DeleteMisses(t) \/ Mark(t) \/ Denied(t)
    PROVE  Watching'
  <1> USE DEF Served, Continues, BreaksOff, Ends
  <1>1. UNCHANGED <<product, charts, alarms>>
    BY DEF Unserved, Post, Refused, Keep, DeleteLink, DeleteMisses, Mark, Denied, told
  <1>2. muddled \subseteq muddled'
    BY DEF Unserved, Post, Refused, Keep, DeleteLink, DeleteMisses, Mark, Denied, told
  <1>3. \E step \in Blind : \E j : Goes(t, step, j)
    BY DEF Unserved, Post, Refused, Keep, DeleteLink, DeleteMisses, Mark, Denied, Blind
  <1>4. PICK step \in Blind : \E j : At(t, step, j)
    BY <1>3, GoesAt DEF IInv
  <1>5. \A key \in Keys : records'[key] = records[key] \/ Has(t, key)
    <2>1. CASE Keep(t) \/ Mark(t)
      <3>1. pc[t] \in LinkSteps
        BY <2>1 DEF Keep, Mark, LinkSteps
      <3>2. PICK key \in Keys : job[t].item = Link(key) /\ job[t].item[2] = key
        BY <3>1, InHand
      <3>3. \E r : records' = [records EXCEPT ![key] = r] \/ records' = records
        BY <2>1, <3>2 DEF Keep, Mark
      <3>4. \A k \in Keys : k # key => records'[k] = records[k]
        BY <3>3 DEF IInv, Typed
      <3> QED BY <3>2, <3>4 DEF Has
    <2>2. CASE ~(Keep(t) \/ Mark(t))
      BY <2>2 DEF Unserved, Post, Refused, DeleteLink, DeleteMisses, Denied
    <2> QED BY <2>1, <2>2
  <1>6. Asking(t)' /\ Seeing(t)'
    BY <1>4, BlindWatch DEF At
  <1>7. Alarmed'
    BY <1>1, <1>2, AlarmedKept
  <1> QED BY <1>1, <1>2, <1>4, <1>5, <1>6, <1>7, WatchKept

\* The assertions about a link.
LEMMA WatchLink ==
    ASSUME IInv, Watching, NEW t \in Threads,
           Judge(t) \/ Fetch(t) \/ FetchFails(t) \/ Verify(t) \/ VerifyFails(t)
    PROVE  Watching'
  <1> USE DEF Ends
  <1>1. UNCHANGED <<product, charts, records>> /\ muddled \subseteq muddled'
    BY DEF Judge, Fetch, FetchFails, Verify, VerifyFails
  <1>2. \E step \in Blind : \E j : Goes(t, step, j)
    BY DEF Judge, Fetch, FetchFails, Verify, VerifyFails, Blind
  <1>3. PICK step \in Blind : \E j : At(t, step, j)
    BY <1>2, GoesAt DEF IInv
  <1>4. pc[t] \in {"judging", "fetching", "verifying"}
    BY DEF Judge, Fetch, FetchFails, Verify, VerifyFails
  <1>5. PICK key \in Keys :
           /\ key \in SavedKeys /\ job[t].item = Link(key) /\ job[t].item[2] = key
           /\ \A k : Has(t, k) => k = key
           /\ Link(key) \notin muddled /\ Keeps => Stage(t, key)
           /\ Link(key) \notin muddled => Reports(key)
           /\ Link(key) \in Items
    BY <1>4, InHand DEF LinkSteps
  <1>6. \/ alarms' = alarms
        \/ alarms' = alarms \union {Link(key)} /\ (Keeps => Link(key) \in muddled')
    <2>1. CASE Judge(t)
      BY <1>5, <2>1 DEF Judge, Raised, Stage
    <2>2. CASE Fetch(t)
      <3>1. Link(key) \notin muddled => job[t].seen = records[key]
        BY <1>5, <2>2 DEF Fetch, Watching, Seeing, Has
      <3>2. ASSUME Link(key) \notin muddled, Keeps
            PROVE  Trusted(t, superset.saved[key])
        <4>1. Agrees(key) /\ job[t].seen = records[key] /\ records[key].discarded \in BOOLEAN
          BY <1>5, <2>2, <3>1, <3>2 DEF Fetch, Stage, IInv, Typed
        <4>2. CASE records[key] = NoRecord
          BY <4>1, <4>2 DEF Trusted, NoRecord
        <4>3. CASE records[key] # NoRecord
          BY <4>1, <4>3 DEF Trusted, Agrees, Discarded
        <4> QED BY <4>2, <4>3
      <3>3. Shown(t) = superset.saved[key] /\ Asserts(t, Trusted(t, Shown(t)))
        BY <1>5, <2>2 DEF Fetch, Shown
      <3> QED BY <1>1, <1>5, <3>2, <3>3 DEF Asserts, Raised
    <2>3. CASE Verify(t)
      BY <1>5, <2>3 DEF Verify, Asserts, Raised, Stage
    <2>4. CASE FetchFails(t) \/ VerifyFails(t)
      BY <2>4 DEF FetchFails, VerifyFails, AssertsAnyway
    <2> QED BY <2>1, <2>2, <2>3, <2>4
  <1>7. Alarmed'
    <2>1. CASE alarms' = alarms
      BY <1>1, <2>1, AlarmedKept
    <2>2. CASE alarms' = alarms \union {Link(key)} /\ (Keeps => Link(key) \in muddled')
      BY <1>1, <2>2, AlarmRaised DEF Caused
    <2> QED BY <1>6, <2>1, <2>2
  <1>8. Asking(t)' /\ Seeing(t)'
    BY <1>3, BlindWatch DEF At
  <1> QED BY <1>1, <1>3, <1>7, <1>8, WatchKept

LEMMA WatchLook == ASSUME IInv, Watching, NEW t \in Threads, Look(t) PROVE Watching'
  <1>1. /\ UNCHANGED <<product, charts, records, alarms, muddled>> /\ pc[t] = "looking"
    BY DEF Look, told
  <1>2. PICK key \in Keys : job[t].item = Link(key) /\ job[t].item[2] = key
    BY <1>1, InHand DEF LinkSteps
  <1>3. PICK j : j = [job[t] EXCEPT !.seen = records[key]]
    OBVIOUS
  <1>4. At(t, "fetching", j)
    BY <1>2, <1>3, GoesAt DEF Look, IInv
  <1>5. j.item = Link(key) /\ j.seen = records[key]
    <2>1. IsRequest(job[t])
      BY DEF IInv, Typed
    <2> QED BY <1>2, <1>3, <2>1 DEF IsRequest
  <1>6. Asking(t)' /\ Seeing(t)'
    BY <1>1, <1>4, <1>5, ItemsApart DEF At, Asking, Seeing, Has
  <1>7. Alarmed'
    BY <1>1, AlarmedKept
  <1> QED BY <1>1, <1>4, <1>6, <1>7, WatchKept

\* On the way to the chart a request does not forget what it was asked.
LEMMA WatchFind ==
    ASSUME IInv, Watching, NEW t \in Threads, Find(t) \/ FindFails(t) \/ Generated(t) \/ Clear(t)
    PROVE  Watching'
  <1> USE DEF Served, Continues, BreaksOff, Ends
  <1>1. product' = product /\ alarms' = alarms /\ muddled \subseteq muddled'
    BY DEF Find, FindFails, Generated, Clear
  <1>2. /\ DOMAIN charts \subseteq DOMAIN charts'
        /\ \A n \in DOMAIN charts : charts'[n] = charts[n]
    <2>1. CASE Generated(t)
      <3>1. PICK chart : charts' = Append(charts, chart)
        BY <2>1 DEF Generated
      <3>2. charts \in Seq(Configs)
        BY DEF IInv, Typed
      <3> QED BY <3>1, <3>2
    <2>2. CASE ~Generated(t)
      BY <2>2 DEF Find, FindFails, Clear
    <2> QED BY <2>1, <2>2
  <1>3. /\ IsRequest(job[t])
        /\ job[t].does = "view" \/ job[t].config.sort # "omitted"
    BY DEF Find, FindFails, Generated, Clear, IInv, Typed, Watching, Asking
  <1>4. PICK step, j : /\ Goes(t, step, j)
                       /\ \/ step = "idle"
                          \/ /\ step \in {"finding", "generating", "noting"}
                             /\ j = job[t] \/ \E item : j = [job[t] EXCEPT !.item = item]
    <2>1. CASE Find(t)
      BY <2>1 DEF Find
    <2>2. CASE FindFails(t)
      BY <2>2 DEF FindFails
    <2>3. CASE Generated(t)
      BY <2>3 DEF Generated
    <2>4. CASE Clear(t)
      BY <2>4 DEF Clear
    <2> QED BY <2>1, <2>2, <2>3, <2>4
  <1>5. At(t, step, j)
    BY <1>4, GoesAt DEF IInv
  <1>6. step = "idle" \/ (/\ step \in {"finding", "generating", "noting"}
                          /\ j.does = "view" \/ j.config.sort # "omitted")
    <2>1. CASE \E item : j = [job[t] EXCEPT !.item = item]
      <3>1. j.does = job[t].does /\ j.config = job[t].config
        BY <1>3, <2>1, WithItem
      <3> QED BY <1>3, <1>4, <3>1
    <2>2. CASE step = "idle" \/ j = job[t]
      BY <1>3, <1>4, <2>2
    <2> QED BY <1>4, <2>1, <2>2
  <1>7. Asking(t)' /\ Seeing(t)'
    BY <1>5, <1>6 DEF At, Asking, Seeing
  <1>8. \A key \in Keys : records'[key] = records[key] \/ Link(key) \in muddled' \/ Free(key)
    <2>1. CASE Clear(t)
      BY <2>1 DEF Clear, Free, Has
    <2>2. CASE ~Clear(t)
      BY <2>2 DEF Find, FindFails, Generated
    <2> QED BY <2>1, <2>2
  <1>9. Alarmed'
    BY <1>1, <1>2, AlarmedKept
  <1> QED BY <1>1, <1>2, <1>5, <1>7, <1>8, <1>9, WatchKept

LEMMA WatchNote == ASSUME IInv, Watching, NEW t \in Threads, Note(t) PROVE Watching'
  <1>1. UNCHANGED <<product, charts, records, alarms, muddled>> /\ pc[t] = "noting"
    BY DEF Note, told
  <1>2. Alarmed'
    BY <1>1, AlarmedKept
  <1>3. PICK n \in DOMAIN charts : job[t].item = Chart(n) /\ job[t].item[2] = n
    BY <1>1, ItemsApart DEF IInv, PlacedAt, ChartSteps
  <1>4. CASE job[t].does = "view" \/ ~Editor(t)
    <2>1. At(t, "idle", Idle)
      BY <1>4, GoesAt DEF Note, Ends, IInv
    <2>2. Asking(t)' /\ Seeing(t)'
      BY <2>1, BlindWatch DEF At, Blind
    <2> QED BY <1>1, <1>2, <2>1, <2>2, WatchKept
  <1>5. CASE ~(job[t].does = "view" \/ ~Editor(t))
    <2>1. PICK j : j = [job[t] EXCEPT !.seen = charts[n]]
      OBVIOUS
    <2>2. At(t, "updating", j)
      BY <1>3, <1>5, <2>1, GoesAt DEF Note, IInv
    <2>3. j.item = Chart(n) /\ j.seen = charts[n] /\ j.config = job[t].config
      <3>1. IsRequest(job[t])
        BY DEF IInv, Typed
      <3> QED BY <1>3, <2>1, <3>1 DEF IsRequest
    <2>4. job[t].config.sort # "omitted"
      BY <1>1, <1>5 DEF Watching, Asking
    <2>5. Asking(t)' /\ Seeing(t)'
      BY <1>1, <2>2, <2>3, <2>4, ItemsApart DEF At, Asking, Seeing
    <2> QED BY <1>1, <1>2, <2>2, <2>5, WatchKept
  <1> QED BY <1>4, <1>5

\* A product that keeps its contract has made of a chart what was asked.
LEMMA UpdateKept ==
    ASSUME Typed, Applies, NEW chart, NEW config, config.sort # "omitted"
    PROVE  Kept(chart, Update(product, chart, config), config)
  <1>1. product \in Product
    BY ProductsAreProducts DEF Typed
  <1>2. /\ product.omitted = "kept" /\ product.explicit = "applied"
        /\ product.palette = "kept" /\ product.sorts
    BY <1>1, ContractTerms DEF Applies
  <1>3. Limit(product, chart, config.limit) =
            IF config.limit = Omitted THEN chart.limit ELSE config.limit
    BY <1>2 DEF Limit
  <1> QED BY <1>2, <1>3 DEF Update, Kept

LEMMA WatchUpdate ==
    ASSUME IInv, Watching, NEW t \in Threads, UpdateChart(t) \/ UpdateFails(t)
    PROVE  Watching'
  <1> USE DEF Served, Continues, BreaksOff, Ends
  <1>1. /\ UNCHANGED <<product, records, alarms>> /\ muddled \subseteq muddled'
        /\ pc[t] = "updating" /\ job[t].config.sort # "omitted"
    BY DEF UpdateChart, UpdateFails, Watching, Asking, told
  <1>2. PICK n \in DOMAIN charts : job[t].item = Chart(n) /\ job[t].item[2] = n
    BY <1>1, ItemsApart DEF IInv, PlacedAt, ChartSteps
  <1>3. /\ DOMAIN charts' = DOMAIN charts
        /\ \A m \in DOMAIN charts : m # n => charts'[m] = charts[m]
        /\ UpdateChart(t) => charts'[n] = Update(product, charts[n], job[t].config)
    <2>1. CASE UpdateChart(t)
      <3>1. charts' = [charts EXCEPT ![n] = Update(product, charts[n], job[t].config)]
        BY <1>2, <2>1 DEF UpdateChart
      <3> QED BY <1>2, <3>1 DEF IInv, Typed
    <2>2. CASE UpdateFails(t) /\ ~UpdateChart(t)
      BY <2>2 DEF UpdateFails
    <2> QED BY <2>1, <2>2
  <1>4. PICK step, j : /\ At(t, step, j)
                       /\ \/ step \in {"idle", "misreading"}
                          \/ step = "reading" /\ j = job[t] /\ UpdateChart(t)
    <2>1. \E step, j : /\ Goes(t, step, j)
                       /\ \/ step \in {"idle", "misreading"}
                          \/ step = "reading" /\ j = job[t] /\ UpdateChart(t)
      BY DEF UpdateChart, UpdateFails
    <2> QED BY <2>1, GoesAt DEF IInv
  <1>5. Asking(t)' /\ Seeing(t)'
    <2>1. CASE step \in {"idle", "misreading"}
      BY <1>4, <2>1 DEF At, Asking, Seeing
    <2>2. CASE step = "reading" /\ j = job[t] /\ UpdateChart(t)
      <3>1. ASSUME Chart(n) \notin muddled', Applies
            PROVE  Kept(job[t].seen, charts'[n], job[t].config)
        <4>1. job[t].seen = charts[n]
          BY <1>1, <1>2, <3>1 DEF Watching, Seeing
        <4> QED BY <1>1, <1>3, <2>2, <3>1, <4>1, UpdateKept DEF IInv
      <3>2. Applies' <=> Applies
        BY <1>1 DEF Applies
      <3>3. \A m : job[t].item = Chart(m) => m = n
        BY <1>2, ItemsApart
      <3>4. pc'[t] = "reading" /\ job'[t] = job[t]
        BY <1>4, <2>2 DEF At
      <3> QED BY <3>1, <3>2, <3>3, <3>4 DEF Asking, Seeing
    <2> QED BY <1>4, <2>1, <2>2
  <1>6. Alarmed'
    BY <1>1, <1>3, AlarmedKept
  <1> QED BY <1>1, <1>2, <1>3, <1>4, <1>5, <1>6, WatchKept

LEMMA WatchRead == ASSUME IInv, Watching, NEW t \in Threads, Read(t) PROVE Watching'
  <1>1. UNCHANGED <<product, charts, records, muddled>> /\ pc[t] \in {"reading", "misreading"}
    BY DEF Read
  <1>2. PICK n \in DOMAIN charts : job[t].item = Chart(n) /\ job[t].item[2] = n
    BY <1>1, ItemsApart DEF IInv, PlacedAt, ChartSteps
  <1>3. \/ alarms' = alarms
        \/ /\ pc[t] = "reading" /\ alarms' = alarms \union {Chart(n)}
           /\ ~Kept(job[t].seen, charts[n], job[t].config)
    BY <1>2 DEF Read, Asserts, AssertsAnyway, Raised
  <1>4. Alarmed'
    <2>1. CASE alarms' = alarms
      BY <1>1, <2>1, AlarmedKept
    <2>2. CASE alarms' # alarms
      <3>1. Applies => Chart(n) \in muddled
        BY <1>2, <1>3, <2>2 DEF Watching, Seeing
      <3>2. Caused(Chart(n))
        BY <1>1, <3>1 DEF Caused
      <3> QED BY <1>1, <1>3, <2>2, <3>2, AlarmRaised
    <2> QED BY <2>1, <2>2
  <1>5. At(t, "idle", Idle)
    BY GoesAt DEF Read, Ends, IInv
  <1>6. Asking(t)' /\ Seeing(t)'
    BY <1>5, BlindWatch DEF At, Blind
  <1> QED BY <1>1, <1>4, <1>5, <1>6, WatchKept

LEMMA WatchCrash == ASSUME IInv, Watching, Crash PROVE Watching'
  <1>1. /\ UNCHANGED <<product, charts, alarms>> /\ muddled \subseteq muddled'
        /\ \A t \in Threads : pc'[t] = "idle"
    BY DEF Crash
  <1>2. \A t \in Threads : Asking(t)' /\ Seeing(t)'
    BY <1>1 DEF Asking, Seeing
  <1>3. Alarmed'
    BY <1>1, AlarmedKept
  <1> QED BY <1>2, <1>3 DEF Watching

LEMMA WatchInit == Init => Watching
  BY DEF Init, Watching, Asking, Seeing, Alarmed

LEMMA WatchHolds == IInv /\ Watching /\ [Next]_vars => Watching'
  <1> SUFFICES ASSUME IInv, Watching, [Next]_vars PROVE Watching'
    OBVIOUS
  <1>1. CASE UNCHANGED vars
    <2>1. UNCHANGED <<product, charts, records, pc, job, alarms, muddled>>
      BY <1>1 DEF vars, told
    <2> QED BY <2>1 DEF Watching, Asking, Seeing, Alarmed, Keeps, Applies, Has
  <1>2. CASE Crash
    BY <1>2, WatchCrash
  <1>3. ASSUME NEW t \in Threads,
               \/ Begin(t) \/ Unserved(t) \/ Post(t) \/ Refused(t) \/ Judge(t) \/ Keep(t)
               \/ Look(t) \/ Fetch(t) \/ FetchFails(t) \/ DeleteLink(t) \/ DeleteMisses(t)
               \/ Mark(t) \/ Verify(t) \/ VerifyFails(t)
        PROVE  Watching'
    BY <1>3, WatchBegin, WatchBlind, WatchLink, WatchLook
  <1>4. ASSUME NEW t \in Threads,
               \/ Find(t) \/ FindFails(t) \/ Generated(t) \/ Denied(t) \/ Note(t)
               \/ UpdateChart(t) \/ UpdateFails(t) \/ Read(t) \/ Clear(t)
        PROVE  Watching'
    BY <1>4, WatchFind, WatchBlind, WatchNote, WatchUpdate, WatchRead
  <1> QED BY <1>1, <1>2, <1>3, <1>4 DEF Next

LEMMA Watched == Spec => []Watching
  <1>1. Init /\ IInv => Watching
    BY WatchInit
  <1> QED BY <1>1, Inductive, WatchInit, WatchHolds, PTL DEF Spec

-----------------------------------------------------------------------------
(* The theorems. *)

\* A request that judges, keeps, marks or reads back has a link or a chart that
\* exists, and what is remembered of a link or a chart is of one that does: no
\* path in domain.py leads from a missing answer to the steps that use it.
THEOREM TypeCorrect == Spec => []TypeOK
  <1>1. ASSUME IInv PROVE TypeOK
    <2>1. DOMAIN superset.saved = SavedKeys
      BY <1>1, SavedAreKeys
    <2>2. /\ newer \subseteq Keys \X Keys /\ pc \in [Threads -> Steps]
          /\ superset.saved \in Seq(Specs \union {"gone"})
          /\ \A key \in Keys : records[key] # NoRecord => key \in DOMAIN superset.saved
      BY <1>1, <2>1 DEF IInv, Typed
    <2>3. \A key \in DOMAIN superset.saved : superset.saved[key] \in Specs \union {"gone"}
      BY <2>2
    <2>4. ASSUME NEW t \in Threads
          PROVE  /\ pc[t] \in LinkSteps =>
                       job[t].item \in {Link(key) : key \in DOMAIN superset.saved}
                 /\ pc[t] \in ChartSteps => job[t].item \in {Chart(n) : n \in DOMAIN charts}
      BY <1>1, <2>1 DEF IInv, PlacedAt
    <2>5. Noted \union muddled \subseteq Items
      BY <1>1 DEF IInv
    <2> QED BY <2>2, <2>3, <2>4, <2>5 DEF TypeOK, LinkSteps, ChartSteps, Items
  <1> QED BY <1>1, Inductive, PTL

\* The demo chart is made a second time only when two requests looked for it at
\* once or its list could not be read (domain.py, ensure_chart).
THEOREM MadeOnce == Spec => []OneChart
  <1>1. ASSUME IInv PROVE OneChart
    <2>1. Len(charts) \in Nat
      BY <1>1, SavedAreKeys
    <2> QED BY <1>1, <2>1 DEF IInv, Charting, OneChart
  <1> QED BY <1>1, Inductive, PTL

\* Between requests the explorations table tells the truth about the links of a
\* product that renews its keys and deletes what it is asked to, in whatever
\* order they were saved, opened and discarded.  It is not said of a link that
\* two requests had in hand at once or about which one broke off or died: a
\* death between the deletion and its mark leaves the row of a dead link
\* (domain.py, save_exploration and discard_exploration; events.py).
THEOREM TableTells == Spec => []RecordsAgree
  <1>1. ASSUME IInv PROVE RecordsAgree
    <2> SUFFICES ASSUME AtRest, InContract(product, "discarded_key"), NEW key \in Keys,
                        records[key] # NoRecord, Link(key) \notin muddled
                 PROVE  superset.saved[key] = IF Discarded(key) THEN "gone" ELSE records[key].spec
      BY DEF RecordsAgree
    <2>1. Keeps
      <3>1. product \in Product
        BY <1>1, ProductsAreProducts DEF IInv, Typed
      <3> QED BY <3>1, ContractTerms DEF InContract, Keeps
    <2>2. Free(key)
      BY <1>1, ItemsApart DEF AtRest, IInv, PlacedAt, Free, Has
    <2>3. Agrees(key)
      BY <1>1, <2>1, <2>2 DEF IInv, Truth
    <2> QED BY <2>3 DEF Agrees
  <1> QED BY <1>1, Inductive, PTL

\* Whatever the product does, a link whose discard was recorded does not come
\* back to life without an assertion having failed about it (save_exploration's
\* reuse check, discard_exploration's read-back), unless its row was beyond the
\* MaxListed newest when the save looked (events.py, explorations), or requests
\* about it overlapped or broke off.
THEOREM Reported == Spec => []DefectIsReported
  <1>1. ASSUME IInv PROVE DefectIsReported
    <2> SUFFICES ASSUME AtRest, NEW key \in gone, superset.saved[key] # "gone",
                        Link(key) \notin muddled \union overlooked
                 PROVE  Link(key) \in alarms \union unfounded
      BY DEF DefectIsReported
    <2>1. key \in Keys
      BY <1>1 DEF IInv, Typed
    <2> QED BY <1>1, <2>1 DEF IInv, Reporting, Reports, AtRest
  <1> QED BY <1>1, Inductive, PTL

\* No step of a request under the restricted profile makes or changes a chart,
\* whoever else is at work (domain.py, _require_editor).
THEOREM RestrictedHarmless == Spec => RestrictedChangesNothing
  <1>1. ASSUME IInv, [Next]_vars
        PROVE  [\A t \in Threads :
                   job[t].profile = "restricted_viewer" /\ pc'[t] # pc[t] => charts' = charts]_vars
    <2> SUFFICES ASSUME NEW t \in Threads, job[t].profile = "restricted_viewer",
                        pc'[t] # pc[t], charts' # charts
                 PROVE  FALSE
      OBVIOUS
    <2>1. ~Editor(t)
      BY DEF Editor
    <2>2. PICK u \in Threads : Generated(u) \/ UpdateChart(u)
      BY <1>1 DEF Next, vars, Begin, Unserved, Post, Refused, Judge, Keep, Look, Fetch,
             FetchFails, DeleteLink, DeleteMisses, Mark, Verify, VerifyFails, Find,
             FindFails, Denied, Note, UpdateFails, Read, Clear, Crash
    <2>3. Editor(u)
      BY <1>1, <2>2 DEF Generated, UpdateChart, IInv, PlacedAt
    <2>4. \E step, j : Goes(u, step, j)
      BY <2>2 DEF Generated, UpdateChart, Served, Continues, BreaksOff, Ends
    <2>5. pc'[t] = pc[t]
      BY <1>1, <2>1, <2>3, <2>4 DEF Goes, IInv, Typed
    <2> QED BY <2>5
  <1> QED BY <1>1, Inductive, PTL DEF Spec, RestrictedChangesNothing

\* What the validator says of a product, for every product there is.  Every call
\* answered: a family passes exactly when its contract is kept and the restricted
\* role denied.  A call without an answer blocks the replay.  An error status,
\* where the code makes its check of it, fails the replay of any product, and so
\* does a control page of B1 that did not come up: in those two cases the verdict
\* is not the product's, although validator.py:18-20 and README.md:447 say that
\* it is then blocked (validator.py, the cases and run; verification.grade).
THEOREM VerdictsTell == Spec => []VerdictIsExact
  <1>1. ASSUME IInv PROVE VerdictIsExact
    <2>1. product \in Product
      BY <1>1, ProductsAreProducts DEF IInv, Typed
    <2>2. \A shown \in Showings :
             Settled(runPages(product, shown), <<"B1">>) =
                IF shown.fresh # "page" THEN "blocked"
                ELSE IF /\ shown.control = "page"
                        /\ InContract(Presumed(product, shown), "number_format")
                THEN "passed" ELSE "failed"
      BY <2>1, PagesMissing
    <2>3. ASSUME NEW family \in DOMAIN CASES_BY_FAMILY
          PROVE  LET names == CASES_BY_FAMILY[family]
                 IN  /\ Verdict(family, product) =
                           IF Unanswerable(product, family) THEN "blocked"
                           ELSE IF InContract(product, family) THEN "passed" ELSE "failed"
                     /\ \A i \in DOMAIN names : \A n \in Cuts(names[i], product) :
                           Settled(runCutShort(names, product, i, n), names) = "blocked"
                     /\ \A i \in DOMAIN names : \A n \in Unguarded(names[i], product) :
                           Settled(runErred(names, product, i, n), names) =
                              IF Unanswerable(product, family) THEN "blocked" ELSE "failed"
      <3>1. CASES_BY_FAMILY[family] \in Namings
        BY FamilyNamings DEF Namings
      <3> QED BY <2>1, <3>1, FamilySays, CutShort, ErredVerdict
    <2> QED BY <2>2, <2>3 DEF VerdictIsExact
  <1> QED BY <1>1, Inductive, PTL

\* An answer gives rise to no false alarm: an assertion that fails of what a link
\* or a chart answered, if no two requests had that in hand at once and no request
\* about it broke off, fails of a product the validator does not pass either
\* (domain.py's assert_contract against validator.py's checks).  The assertions
\* made of a refusal or an error status are left out: those do raise alarms about
\* a product in order, which is not what domain.py:3-6 says becomes of them.
THEOREM NoFalseAlarm == Spec => []AlarmIsTrue
  <1>1. ASSUME IInv, Watching PROVE AlarmIsTrue
    <2> SUFFICES ASSUME NEW item \in alarms, item \notin muddled,
                        Verdict(IF item[1] = "key" THEN "discarded_key" ELSE "row_limit",
                                product) = "passed"
                 PROVE  FALSE
      BY DEF AlarmIsTrue
    <2>1. product \in Product
      BY <1>1, ProductsAreProducts DEF IInv, Typed
    <2>2. ASSUME NEW family \in DOMAIN CASES_BY_FAMILY, Verdict(family, product) = "passed"
          PROVE  InContract(product, family)
      BY <2>1, <2>2, FamilySays
    <2>3. CASE \E key \in Keys : item = Link(key)
      <3>1. item[1] = "key"
        BY <2>3 DEF Link
      <3>2. Meets(product, Contract["discarded_key"])
        BY <2>2, <3>1, FamilyNamings DEF InContract
      <3>3. Keeps
        BY <2>1, <3>2, ContractTerms DEF Keeps
      <3> QED BY <1>1, <2>3, <3>3 DEF Watching, Alarmed
    <2>4. CASE \E n \in DOMAIN charts : item = Chart(n)
      <3>1. item[1] # "key"
        BY <2>4 DEF Chart
      <3>2. Applies
        BY <2>2, <3>1, FamilyNamings DEF InContract, Applies
      <3> QED BY <1>1, <2>4, <3>2 DEF Watching, Alarmed
    <2> QED BY <1>1, <2>3, <2>4 DEF Watching, Alarmed
  <1> QED BY <1>1, Inductive, Watched, PTL
=============================================================================
