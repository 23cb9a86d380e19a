------------------------------ MODULE ViewProofs ------------------------------
(***************************************************************************)
(* What is proved of what others are shown of what the gateway keeps: the  *)
(* operators (OperatorsAreToldTheTruth of MCStores) the board of tasks,    *)
(* the pages and the tail of the logs, the spool of cron jobs, the file of *)
(* sources and the alerts; the providers the history of a conversation and *)
(* the reasoning that is kept for it (MessagesAreKept).  Each by itself,   *)
(* for any number of readers, writers, rows and clock steps.               *)
(***************************************************************************)
EXTENDS CronSpool, SourcesFile, Alerts, OperatorViews, MessageHistory,
        SelectionProofs, SequenceTheorems, FiniteSetTheorems, TLAPS

-----------------------------------------------------------------------------
(* The Tasks view: a walk over a tree that moves.                            *)

Rows == Kinds \X Tasks
Walks == [at : {"walk"}, root : Roots, lite : BOOLEAN, next : 1..Len(States) + 1, rows : SUBSET Rows, moved : SUBSET Tasks]
Checks == [at : {"warm"}, root : Roots, when : Int]
Stamps == [at : {"stamped"}, root : Roots, rows : SUBSET Rows, stamp : Int]
Pages == [at : {"shown"}, root : Roots, rows : SUBSET Rows, when : Int, from : Roots \cup {"none"}, asOf : Int,
          torn : BOOLEAN]
Looks == Walks \cup Checks \cup Stamps \cup Pages \cup {Idle}
Caches == [at : Int, ready : BOOLEAN, moments : SUBSET Rows, root : Roots \cup {"none"}, asOf : Int]

TaskTypes ==
  /\ tree \in [Roots -> [Tasks -> Kinds \cup {Gone}]]
  /\ liteCache \in Caches /\ mixed \in BOOLEAN
  /\ looking \in [Viewers -> Looks]
  /\ taskTime \in Nat

(* A walk has what lay in the directories it has passed, as long as nobody   *)
(* moved it, and a task nobody moved has no row but that of its state.       *)
WalksAreTrue ==
  \A v \in Viewers : looking[v].at = "walk" =>
    \A k \in Tasks \ looking[v].moved :
      LET at == tree[looking[v].root][k] IN
      /\ \A x \in looking[v].rows : x[2] = k => x[1] = at
      /\ \A i \in 1..looking[v].next - 1 : at = States[i] => <<at, k>> \in looking[v].rows

(* The stamp only grows, and is that of the walk the rows are of, unless     *)
(* their walk is about to store them or was crossed by another.              *)
CacheIsInOrder ==
  /\ liteCache.at <= taskTime
  /\ \A v \in Viewers : looking[v].at = "warm" => looking[v].when - liteCache.at < LiteTtl
  /\ ~mixed => /\ \A v \in Viewers : Stamping(v) => looking[v].stamp = liteCache.at
               /\ \A u, v \in Viewers : Stamping(u) /\ Stamping(v) => u = v
               /\ (\A v \in Viewers : ~Stamping(v)) => liteCache.asOf = liteCache.at

TaskInvariant == TaskTypes /\ WalksAreTrue /\ CacheIsInOrder /\ LiteIsRecent

(* The four state directories, none of which is where a task is gone to.     *)
LEMMA StatesAre ==
  /\ DOMAIN States = 1..4 /\ Len(States) = 4
  /\ States[1] = "new" /\ States[2] = "in_progress" /\ States[3] = "completed" /\ States[4] = "cancelled"
  /\ Kinds = {"new", "in_progress", "completed", "cancelled"} /\ Gone \notin Kinds
  /\ \A s \in Kinds : \E i \in 1..4 : States[i] = s
  /\ \A i \in 1..4 : States[i] \in Kinds
<1>1. DOMAIN States = 1..4 /\ Len(States) = 4
  BY DEF States
<1>2. States[1] = "new" /\ States[2] = "in_progress" /\ States[3] = "completed" /\ States[4] = "cancelled"
  BY DEF States
<1>3. \A i \in 1..4 : i = 1 \/ i = 2 \/ i = 3 \/ i = 4
  OBVIOUS
<1>4. Kinds = {"new", "in_progress", "completed", "cancelled"}
  BY <1>1, <1>2, <1>3 DEF Kinds, Range
<1> QED BY <1>1, <1>2, <1>3, <1>4 DEF Gone

LEMMA TasksStart == TasksInit => TaskInvariant
<1> SUFFICES ASSUME TasksInit PROVE TaskInvariant
  OBVIOUS
<1>1. \A v \in Viewers : looking[v] = Idle
  BY DEF TasksInit
<1>2. TaskTypes
  <2>1. liteCache \in Caches /\ mixed \in BOOLEAN
    <3>1. liteCache = NoMoments /\ mixed = FALSE
      BY DEF TasksInit
    <3>2. NoMoments \in Caches
      BY DEF NoMoments, Caches
    <3> QED BY <3>1, <3>2
  <2>2. tree \in [Roots -> [Tasks -> Kinds \cup {Gone}]]
    BY StatesAre DEF TasksInit
  <2> QED BY <2>1, <2>2 DEF TasksInit, TaskTypes, Looks
<1>3. WalksAreTrue /\ LiteIsRecent
  BY <1>1 DEF WalksAreTrue, LiteIsRecent, Idle
<1>4. CacheIsInOrder
  BY <1>1 DEF CacheIsInOrder, TasksInit, NoMoments, Idle, Stamping
<1> QED BY <1>2, <1>3, <1>4 DEF TaskInvariant

(* A step of one viewer that does not touch the tree.                        *)
LEMMA OneLooks ==
  ASSUME TaskInvariant, NEW v \in Viewers, NEW w \in Looks,
         looking' = [looking EXCEPT ![v] = w], UNCHANGED <<tree, taskTime>>,
         w.at = "walk" =>
           \A k \in Tasks \ w.moved :
             /\ \A x \in w.rows : x[2] = k => x[1] = tree[w.root][k]
             /\ \A i \in 1..w.next - 1 : tree[w.root][k] = States[i] => <<tree[w.root][k], k>> \in w.rows,
         w.at = "shown" /\ ~w.torn => w.when - w.asOf < LiteTtl
  PROVE  looking' \in [Viewers -> Looks] /\ WalksAreTrue' /\ LiteIsRecent'
<1>1. looking \in [Viewers -> Looks] /\ WalksAreTrue /\ LiteIsRecent
  BY DEF TaskInvariant, TaskTypes
<1>2. \A u \in Viewers : looking'[u] = IF u = v THEN w ELSE looking[u]
  BY <1>1
<1>3. looking' \in [Viewers -> Looks]
  BY <1>1
<1>4. WalksAreTrue'
  <2> SUFFICES ASSUME NEW u \in Viewers, looking'[u].at = "walk", NEW k \in Tasks \ looking'[u].moved
               PROVE  /\ \A x \in looking'[u].rows : x[2] = k => x[1] = tree[looking'[u].root][k]
                      /\ \A i \in 1..looking'[u].next - 1 : tree[looking'[u].root][k] = States[i]
                           => <<tree[looking'[u].root][k], k>> \in looking'[u].rows
    BY DEF WalksAreTrue
  <2>1. CASE u = v
    BY <1>2, <2>1
  <2>2. CASE u # v
    BY <1>1, <1>2, <2>2 DEF WalksAreTrue
  <2> QED BY <2>1, <2>2
<1>5. LiteIsRecent'
  BY <1>1, <1>2 DEF LiteIsRecent
<1> QED BY <1>3, <1>4, <1>5

(* A step of one viewer that does not publish.                               *)
LEMMA CacheRests ==
  ASSUME TaskInvariant, NEW v \in Viewers, NEW w \in Looks,
         looking' = [looking EXCEPT ![v] = w], UNCHANGED <<liteCache, mixed, taskTime>>,
         looking[v].at # "stamped", w.at # "stamped",
         w.at = "warm" => w.when - liteCache.at < LiteTtl
  PROVE  CacheIsInOrder'
<1>1. \A u \in Viewers : looking'[u] = IF u = v THEN w ELSE looking[u]
  BY DEF TaskInvariant, TaskTypes
<1>2. \A u \in Viewers : (Stamping(u)' <=> Stamping(u)) /\ (Stamping(u) => looking'[u] = looking[u])
  BY <1>1 DEF Stamping
<1> QED BY <1>1, <1>2 DEF TaskInvariant, CacheIsInOrder

LEMMA TasksStay == TaskInvariant /\ [TasksNext]_taskVars => TaskInvariant'
<1> SUFFICES ASSUME TaskInvariant, [TasksNext]_taskVars PROVE TaskInvariant'
  OBVIOUS
<1>1. /\ tree \in [Roots -> [Tasks -> Kinds \cup {Gone}]]
      /\ liteCache \in Caches /\ mixed \in BOOLEAN
      /\ looking \in [Viewers -> Looks] /\ taskTime \in Nat
  BY DEF TaskInvariant, TaskTypes
<1>2. TaskTypes /\ WalksAreTrue /\ CacheIsInOrder /\ LiteIsRecent
  BY DEF TaskInvariant
<1>3. \A v \in Viewers : /\ looking[v].at = "walk" => looking[v] \in Walks
                         /\ looking[v].at = "warm" => looking[v] \in Checks
                         /\ looking[v].at = "stamped" => looking[v] \in Stamps
                         /\ looking[v].at = "shown" => looking[v] \in Pages
  BY <1>1 DEF Looks, Walks, Checks, Stamps, Pages, Idle
<1>4. ASSUME NEW v \in Viewers, NEW r \in Roots, CheckCache(v, r)
      PROVE  TaskInvariant'
  <2>1. PICK w : w = [at |-> "warm", root |-> r, when |-> taskTime]
    OBVIOUS
  <2>2. /\ looking' = [looking EXCEPT ![v] = w] /\ UNCHANGED <<tree, liteCache, mixed, taskTime>>
        /\ taskTime - liteCache.at < LiteTtl /\ looking[v].at \in {"idle", "shown"}
    BY <1>4, <2>1 DEF CheckCache, Warm, Free
  <2>3. w \in Looks /\ w.at = "warm" /\ w.when = taskTime
    BY <1>1, <2>1 DEF Checks, Looks
  <2>4. looking' \in [Viewers -> Looks] /\ WalksAreTrue' /\ LiteIsRecent'
    BY <2>2, <2>3, OneLooks
  <2>5. CacheIsInOrder'
    BY <2>2, <2>3, CacheRests
  <2> QED BY <1>1, <2>2, <2>4, <2>5 DEF TaskInvariant, TaskTypes
<1>5. ASSUME NEW v \in Viewers, NEW r \in Roots, NEW lite \in BOOLEAN, BeginWalk(v, r, lite)
      PROVE  TaskInvariant'
  <2>1. PICK w : w = [at |-> "walk", root |-> r, lite |-> lite, next |-> 1, rows |-> {}, moved |-> {}]
    OBVIOUS
  <2>2. /\ looking' = [looking EXCEPT ![v] = w] /\ UNCHANGED <<tree, liteCache, mixed, taskTime>>
        /\ looking[v].at \in {"idle", "shown"}
    BY <1>5, <2>1 DEF BeginWalk, Free
  <2>3. w \in Walks /\ w.at = "walk" /\ w.rows = {} /\ w.next = 1
    BY <2>1, StatesAre DEF Walks
  <2>5. (\A x : x \notin w.rows) /\ \A i : i \notin 1..w.next - 1
    BY <2>3
  <2>6. w \in Looks /\ w.at = "walk"
    BY <2>3 DEF Looks
  <2>4. looking' \in [Viewers -> Looks] /\ WalksAreTrue' /\ LiteIsRecent'
    BY <2>2, <2>5, <2>6, OneLooks
  <2>7. CacheIsInOrder'
    BY <2>2, <2>6, CacheRests
  <2> QED BY <1>1, <2>2, <2>4, <2>7 DEF TaskInvariant, TaskTypes
<1>6. ASSUME NEW v \in Viewers, ListState(v)
      PROVE  TaskInvariant'
  <2> DEFINE w == looking[v]
             new == Listed(w.root, States[w.next])
  <2>1. w.at = "walk" /\ w \in Walks /\ w.next <= 4
    BY <1>3, <1>6, StatesAre DEF ListState
  <2>2. PICK p : p = [w EXCEPT !.rows = w.rows \cup new, !.next = w.next + 1]
    OBVIOUS
  <2>3. looking' = [looking EXCEPT ![v] = p] /\ UNCHANGED <<tree, liteCache, mixed, taskTime>>
    BY <1>1, <1>6, <2>2 DEF ListState
  <2>4. w.next \in 1..4 /\ w.root \in Roots /\ w.rows \subseteq Rows
    BY <2>1, StatesAre DEF Walks
  <2>5. new \subseteq Rows
    BY <2>4, StatesAre DEF Listed, Rows
  <2>6. /\ p \in Walks /\ p.at = "walk" /\ p.root = w.root /\ p.moved = w.moved
        /\ p.rows = w.rows \cup new /\ p.next = w.next + 1
    <3>1. w.next + 1 \in 1..Len(States) + 1
      BY <2>4, StatesAre
    <3>2. (w.rows \cup new) \in SUBSET Rows
      BY <2>4, <2>5
    <3>3. PICK q \in Walks : q = w
      BY <2>1
    <3>4. PICK rows, next : rows = w.rows \cup new /\ next = w.next + 1
      OBVIOUS
    <3> HIDE DEF w, new
    <3>5. p = [q EXCEPT !.rows = rows, !.next = next] /\ rows \in SUBSET Rows /\ next \in 1..Len(States) + 1 /\ q.at = "walk"
      BY <2>1, <2>2, <3>1, <3>2, <3>3, <3>4
    <3>6. /\ p \in Walks /\ p.at = "walk" /\ p.root = q.root /\ p.moved = q.moved
          /\ p.rows = rows /\ p.next = next
      BY <3>5 DEF Walks
    <3> QED BY <3>3, <3>4, <3>6
  <2>7. ASSUME NEW k \in Tasks \ p.moved
        PROVE  /\ \A x \in p.rows : x[2] = k => x[1] = tree[p.root][k]
               /\ \A i \in 1..p.next - 1 : tree[p.root][k] = States[i] => <<tree[p.root][k], k>> \in p.rows
    <3>1. /\ \A x \in w.rows : x[2] = k => x[1] = tree[w.root][k]
          /\ \A i \in 1..w.next - 1 : tree[w.root][k] = States[i] => <<tree[w.root][k], k>> \in w.rows
      BY <1>2, <2>1, <2>6, <2>7 DEF WalksAreTrue
    <3>2. \A x \in new : x[2] = k => x[1] = tree[w.root][k]
      BY DEF Listed
    <3>3. tree[w.root][k] = States[w.next] => <<tree[w.root][k], k>> \in new
      BY DEF Listed
    <3>4. \A i \in 1..p.next - 1 : i \in 1..w.next - 1 \/ i = w.next
      BY <2>4, <2>6
    <3> QED BY <2>6, <3>1, <3>2, <3>3, <3>4
  <2> HIDE DEF w, new
  <2>8. looking' \in [Viewers -> Looks] /\ WalksAreTrue' /\ LiteIsRecent'
    BY <2>3, <2>6, <2>7, OneLooks DEF Looks
  <2>9. CacheIsInOrder'
    BY <2>1, <2>3, <2>6, CacheRests DEF w, Looks
  <2> QED BY <1>1, <2>3, <2>8, <2>9 DEF TaskInvariant, TaskTypes
<1>7. ASSUME NEW v \in Viewers, EndWalk(v)
      PROVE  TaskInvariant'
  <2> DEFINE w == looking[v]
  <2>1. w.at = "walk" /\ w \in Walks
    BY <1>3, <1>7 DEF EndWalk, Walked
  <2>2. PICK p : p = OwnRows(w, taskTime)
    OBVIOUS
  <2>3. looking' = [looking EXCEPT ![v] = p] /\ UNCHANGED <<tree, liteCache, mixed, taskTime>>
    BY <1>7, <2>2 DEF EndWalk
  <2>4. p \in Looks /\ p.at = "shown" /\ p.when - p.asOf < LiteTtl
    <3>1. taskTime - taskTime < LiteTtl /\ taskTime \in Int
      BY <1>1, TaskAssumption
    <3> QED BY <2>1, <2>2, <3>1 DEF Walks, Pages, Looks, OwnRows
  <2>5. looking' \in [Viewers -> Looks] /\ WalksAreTrue' /\ LiteIsRecent'
    BY <2>3, <2>4, OneLooks
  <2>6. CacheIsInOrder'
    BY <2>1, <2>3, <2>4, CacheRests
  <2> QED BY <1>1, <2>3, <2>5, <2>6 DEF TaskInvariant, TaskTypes
<1>8. ASSUME NEW r \in Roots, NEW k \in Tasks, NEW s \in Kinds \cup {Gone}, MoveTask(r, k, s)
      PROVE  TaskInvariant'
  <2>1. /\ tree' = [tree EXCEPT ![r][k] = s] /\ UNCHANGED <<liteCache, mixed, taskTime>>
        /\ looking' = [v \in Viewers |-> IF looking[v].at = "walk" /\ looking[v].root = r
                                         THEN [looking[v] EXCEPT !.moved = @ \cup {k}] ELSE looking[v]]
    BY <1>8 DEF MoveTask
  <2>2. /\ tree' \in [Roots -> [Tasks -> Kinds \cup {Gone}]]
        /\ \A q \in Roots, l \in Tasks : q # r \/ l # k => tree'[q][l] = tree[q][l]
    BY <1>1, <2>1
  <2>3. ASSUME NEW v \in Viewers, looking[v].at = "walk", looking[v].root = r
        PROVE  /\ looking'[v] \in Walks /\ looking'[v].at = "walk" /\ looking'[v].root = r
               /\ looking'[v].rows = looking[v].rows /\ looking'[v].next = looking[v].next
               /\ looking'[v].moved = looking[v].moved \cup {k}
    <3>1. looking[v] \in Walks
      BY <1>3, <2>3
    <3>2. looking'[v] = [looking[v] EXCEPT !.moved = looking[v].moved \cup {k}]
      BY <2>1, <2>3
    <3> QED BY <2>3, <3>1, <3>2 DEF Walks
  <2>4. \A v \in Viewers : ~(looking[v].at = "walk" /\ looking[v].root = r) => looking'[v] = looking[v]
    BY <2>1
  <2>5. looking' \in [Viewers -> Looks]
    BY <1>1, <2>1, <2>3, <2>4 DEF Looks
  <2>6. WalksAreTrue'
    <3> SUFFICES ASSUME NEW u \in Viewers, looking'[u].at = "walk", NEW l \in Tasks \ looking'[u].moved
                 PROVE  /\ \A x \in looking'[u].rows : x[2] = l => x[1] = tree'[looking'[u].root][l]
                        /\ \A i \in 1..looking'[u].next - 1 : tree'[looking'[u].root][l] = States[i]
                             => <<tree'[looking'[u].root][l], l>> \in looking'[u].rows
      BY DEF WalksAreTrue
    <3>1. CASE looking[u].at = "walk" /\ looking[u].root = r
      <4>1. l # k /\ l \in Tasks \ looking[u].moved
        BY <2>3, <3>1
      <4>2. tree'[r][l] = tree[r][l]
        BY <2>2, <4>1
      <4> QED BY <1>2, <2>3, <3>1, <4>1, <4>2 DEF WalksAreTrue
    <3>2. CASE ~(looking[u].at = "walk" /\ looking[u].root = r)
      <4>1. looking'[u] = looking[u] /\ looking[u].root # r /\ looking[u] \in Walks
        BY <1>3, <2>4, <3>2
      <4>2. looking[u].root \in Roots
        BY <4>1 DEF Walks
      <4>3. tree'[looking[u].root][l] = tree[looking[u].root][l]
        BY <2>2, <4>1, <4>2
      <4> QED BY <1>2, <4>1, <4>3 DEF WalksAreTrue
    <3> QED BY <3>1, <3>2
  <2>7. LiteIsRecent'
    BY <1>2, <2>3, <2>4 DEF LiteIsRecent
  <2>8. CacheIsInOrder'
    <3>1. \A u \in Viewers : /\ looking[u].at \in {"warm", "stamped"} => looking'[u] = looking[u]
                             /\ looking'[u].at \in {"warm", "stamped"} => looking'[u] = looking[u]
      BY <2>3, <2>4
    <3> QED BY <1>2, <2>1, <3>1 DEF CacheIsInOrder, Stamping
  <2> QED BY <1>1, <2>1, <2>2, <2>5, <2>6, <2>7, <2>8 DEF TaskInvariant, TaskTypes
<1>9. ASSUME TaskTick
      PROVE  TaskInvariant'
  <2>1. /\ taskTime' = taskTime + 1 /\ UNCHANGED <<tree, liteCache, mixed>>
        /\ looking' = [v \in Viewers |-> IF looking[v].at = "shown" THEN Idle ELSE looking[v]]
    BY <1>9 DEF TaskTick
  <2>2. \A v \in Viewers : /\ looking[v].at \in {"walk", "warm", "stamped"} => looking'[v] = looking[v]
                           /\ looking'[v].at # "shown"
                           /\ looking'[v].at \in {"walk", "warm", "stamped"} => looking'[v] = looking[v]
    BY <2>1 DEF Idle
  <2>3. TaskTypes'
    BY <1>1, <2>1 DEF TaskTypes, Looks
  <2>4. WalksAreTrue' /\ LiteIsRecent'
    BY <1>2, <2>1, <2>2 DEF WalksAreTrue, LiteIsRecent
  <2>5. CacheIsInOrder'
    <3>1. liteCache.at <= taskTime + 1
      BY <1>1, <1>2 DEF CacheIsInOrder, Caches
    <3> QED BY <1>2, <2>1, <2>2, <3>1 DEF CacheIsInOrder, Stamping
  <2> QED BY <2>3, <2>4, <2>5 DEF TaskInvariant
<1>10. ASSUME NEW v \in Viewers, TakeFromCache(v)
       PROVE  TaskInvariant'
  <2>1. PICK torn : torn = (mixed \/ \E u \in Viewers : Stamping(u))
    OBVIOUS
  <2>2. PICK w : w = [at |-> "shown", root |-> looking[v].root, rows |-> liteCache.moments, when |-> looking[v].when,
                      from |-> liteCache.root, asOf |-> liteCache.asOf, torn |-> torn]
    OBVIOUS
  <2>3. /\ looking' = [looking EXCEPT ![v] = w] /\ UNCHANGED <<tree, liteCache, mixed, taskTime>>
        /\ looking[v].at = "warm"
    BY <1>10, <2>1, <2>2 DEF TakeFromCache
  <2>4. looking[v] \in Checks /\ torn \in BOOLEAN
    BY <1>3, <2>1, <2>3
  <2>5. w \in Looks /\ w.at = "shown" /\ w.torn = torn /\ w.when = looking[v].when /\ w.asOf = liteCache.asOf
    BY <1>1, <2>2, <2>4 DEF Caches, Checks, Pages, Looks
  <2>6. ~torn => w.when - w.asOf < LiteTtl
    BY <1>2, <2>1, <2>3, <2>5 DEF CacheIsInOrder
  <2>7. looking' \in [Viewers -> Looks] /\ WalksAreTrue' /\ LiteIsRecent'
    BY <2>3, <2>5, <2>6, OneLooks
  <2>8. CacheIsInOrder'
    BY <2>3, <2>5, CacheRests
  <2> QED BY <1>1, <2>3, <2>7, <2>8 DEF TaskInvariant, TaskTypes
<1>11. ASSUME NEW v \in Viewers, StampCache(v)
       PROVE  TaskInvariant'
  <2>1. PICK w : w = [at |-> "stamped", root |-> looking[v].root, rows |-> looking[v].rows, stamp |-> taskTime]
    OBVIOUS
  <2>2. /\ looking' = [looking EXCEPT ![v] = w] /\ UNCHANGED <<tree, taskTime>>
        /\ liteCache' = [liteCache EXCEPT !.at = taskTime, !.ready = TRUE]
        /\ mixed' = (\E u \in Viewers : Stamping(u))
        /\ looking[v].at = "walk"
    BY <1>11, <2>1 DEF StampCache, Walked
  <2>3. w \in Stamps /\ w.at = "stamped" /\ w.stamp = taskTime
    BY <1>1, <1>3, <2>1, <2>2 DEF Walks, Stamps
  <2>4. liteCache' \in Caches /\ liteCache'.at = taskTime /\ mixed' \in BOOLEAN
    <3>1. liteCache' \in Caches /\ liteCache'.at = taskTime
      <4>1. PICK c : c = liteCache'
        OBVIOUS
      <4>2. PICK late, ready : late = taskTime /\ ready = TRUE
        OBVIOUS
      <4>3. c = [liteCache EXCEPT !.at = late, !.ready = ready] /\ late \in Int /\ ready \in BOOLEAN
        BY <1>1, <2>2, <4>1, <4>2
      <4>4. c \in Caches /\ c.at = late
        BY <1>1, <4>3 DEF Caches
      <4> QED BY <4>1, <4>2, <4>4
    <3>2. mixed' \in BOOLEAN
      <4>1. CASE \E u \in Viewers : Stamping(u)
        <5>1. mixed' = TRUE
          BY <2>2, <4>1, Zenon
        <5> QED BY <5>1
      <4>2. CASE ~\E u \in Viewers : Stamping(u)
        <5>1. mixed' = FALSE
          BY <2>2, <4>2, Zenon
        <5> QED BY <5>1
      <4> QED BY <4>1, <4>2
    <3> QED BY <3>1, <3>2
  <2>5. looking' \in [Viewers -> Looks] /\ WalksAreTrue' /\ LiteIsRecent'
    BY <2>2, <2>3, OneLooks DEF Looks
  <2>6. CacheIsInOrder'
    <3>1. \A u \in Viewers : looking'[u] = IF u = v THEN w ELSE looking[u]
      BY <1>1, <2>2
    <3>2. ASSUME NEW u \in Viewers, looking'[u].at = "warm"
          PROVE  looking'[u].when - liteCache'.at < LiteTtl
      <4>1. looking'[u] = looking[u] /\ looking[u] \in Checks /\ looking[u].when - liteCache.at < LiteTtl
        BY <1>2, <1>3, <2>3, <3>1, <3>2 DEF CacheIsInOrder
      <4>2. looking[u].when \in Int /\ liteCache.at \in Int /\ liteCache.at <= taskTime /\ LiteTtl \in Int
        BY <1>1, <1>2, <4>1, TaskAssumption DEF Checks, Caches, CacheIsInOrder
      <4> QED BY <1>1, <2>4, <4>1, <4>2
    <3>3. ASSUME ~mixed'
          PROVE  \A u \in Viewers : Stamping(u)' <=> u = v
      BY <2>2, <2>3, <3>1, <3>3 DEF Stamping
    <3> QED BY <1>1, <2>2, <2>3, <2>4, <3>1, <3>2, <3>3 DEF CacheIsInOrder
  <2> QED BY <1>1, <2>2, <2>4, <2>5, <2>6 DEF TaskInvariant, TaskTypes
<1>12. ASSUME NEW v \in Viewers, StoreRows(v)
       PROVE  TaskInvariant'
  <2>1. PICK w : w = OwnRows(looking[v], looking[v].stamp)
    OBVIOUS
  <2>2. /\ looking' = [looking EXCEPT ![v] = w] /\ UNCHANGED <<tree, mixed, taskTime>>
        /\ liteCache' = [liteCache EXCEPT !.moments = looking[v].rows, !.root = looking[v].root, !.asOf = looking[v].stamp]
        /\ looking[v].at = "stamped"
    BY <1>12, <2>1 DEF StoreRows, Stamping
  <2>3. looking[v] \in Stamps
    BY <1>3, <2>2
  <2>4. w \in Looks /\ w.at = "shown" /\ w.when - w.asOf < LiteTtl
    <3>1. \A n \in Int : n - n < LiteTtl
      BY TaskAssumption
    <3> QED BY <2>1, <2>3, <3>1 DEF Stamps, Pages, Looks, OwnRows
  <2>5. liteCache' \in Caches /\ liteCache'.at = liteCache.at /\ liteCache'.asOf = looking[v].stamp
    BY <1>1, <2>2, <2>3 DEF Caches, Stamps
  <2>6. looking' \in [Viewers -> Looks] /\ WalksAreTrue' /\ LiteIsRecent'
    BY <2>2, <2>4, OneLooks
  <2>7. CacheIsInOrder'
    <3>1. \A u \in Viewers : looking'[u] = IF u = v THEN w ELSE looking[u]
      BY <1>1, <2>2
    <3>2. \A u \in Viewers : Stamping(u)' => Stamping(u) /\ looking'[u] = looking[u]
      BY <2>4, <3>1 DEF Stamping
    <3>3. ~mixed => liteCache'.asOf = liteCache'.at
      BY <1>2, <2>2, <2>5 DEF CacheIsInOrder, Stamping
    <3> QED BY <1>2, <2>2, <2>4, <2>5, <3>1, <3>2, <3>3 DEF CacheIsInOrder
  <2> QED BY <1>1, <2>2, <2>5, <2>6, <2>7 DEF TaskInvariant, TaskTypes
<1>13. CASE UNCHANGED taskVars
  BY <1>2, <1>13 DEF taskVars, TaskInvariant, TaskTypes, WalksAreTrue, CacheIsInOrder, Stamping, LiteIsRecent
<1> QED BY <1>4, <1>5, <1>6, <1>7, <1>8, <1>9, <1>10, <1>11, <1>12, <1>13 DEF TasksNext

LEMMA TasksAreRight ==
  ASSUME TaskInvariant
  PROVE  TasksTypeOK /\ SteadyTasksAreShown /\ LiteIsRecent
<1>1. TasksTypeOK
  BY DEF TaskInvariant, TaskTypes, TasksTypeOK, Looks, Caches, Walks, Checks, Stamps, Pages, Idle, Rows
<1>2. ASSUME NEW v \in Viewers, looking[v].at = "walk", looking[v].next > Len(States), NEW k \in Tasks \ looking[v].moved
      PROVE  LET r == looking[v].root IN
             IF tree[r][k] = Gone THEN ~\E x \in looking[v].rows : x[2] = k
             ELSE OnceIn(looking[v].rows, k) /\ <<tree[r][k], k>> \in looking[v].rows
  <2> DEFINE rows == looking[v].rows
             at == tree[looking[v].root][k]
  <2>1. looking[v] \in Walks
    BY <1>2 DEF TaskInvariant, TaskTypes, Looks, Checks, Stamps, Pages, Idle
  <2>2. rows \subseteq Rows /\ looking[v].next = 5 /\ at \in Kinds \cup {Gone}
    BY <1>2, <2>1, StatesAre DEF Walks, TaskInvariant, TaskTypes
  <2>3. /\ \A x \in rows : x[2] = k => x[1] = at
        /\ \A i \in 1..4 : at = States[i] => <<at, k>> \in rows
    BY <1>2, <2>2 DEF TaskInvariant, WalksAreTrue
  <2>4. ASSUME NEW x \in rows PROVE x = <<x[1], x[2]>> /\ x[1] \in Kinds
    BY <2>2 DEF Rows
  <2> HIDE DEF rows, at
  <2>5. CASE at = Gone
    BY <2>3, <2>4, <2>5, StatesAre DEF rows, at
  <2>6. CASE at # Gone
    <3>1. <<at, k>> \in rows
      BY <2>2, <2>3, <2>6, StatesAre
    <3>2. {x \in rows : x[2] = k} = {<<at, k>>}
      BY <2>3, <2>4, <3>1
    <3>3. OnceIn(rows, k)
      BY <3>2, FS_Singleton DEF OnceIn
    <3> QED BY <2>6, <3>1, <3>3 DEF rows, at
  <2> QED BY <2>5, <2>6
<1>3. SteadyTasksAreShown
  BY <1>2 DEF SteadyTasksAreShown
<1> QED BY <1>1, <1>3 DEF TaskInvariant

-----------------------------------------------------------------------------
(* Logs: counting pages, and what a sequence that is cut into them is.       *)

(* The parts of a sequence between one cut and the next.                     *)
Pieces(s, n, cut) == [i \in 1..n |-> SubSeq(s, cut[i] + 1, cut[i + 1])]

(* They make the whole of it, whatever the cuts.                             *)
LEMMA PiecesMakeTheWhole ==
  ASSUME NEW S, NEW s \in Seq(S), NEW n \in Nat \ {0}, NEW cut \in [1..n + 1 -> 0..Len(s)],
         cut[1] = 0, cut[n + 1] = Len(s), \A i \in 1..n : cut[i] <= cut[i + 1]
  PROVE  FlattenSeq(Pieces(s, n, cut)) = s
<1>0. PICK pieces : pieces = Pieces(s, n, cut)
  OBVIOUS
<1>1. Len(pieces) = n /\ DOMAIN pieces = 1..n /\ \A i \in 1..n : pieces[i] = SubSeq(s, cut[i] + 1, cut[i + 1])
  <2>1. pieces = [i \in 1..n |-> SubSeq(s, cut[i] + 1, cut[i + 1])]
    BY <1>0 DEF Pieces
  <2>2. Len(pieces) = n /\ DOMAIN pieces = 1..n
    BY <2>1
  <2>3. \A i \in 1..n : pieces[i] = SubSeq(s, cut[i] + 1, cut[i + 1])
    BY ONLY <2>1, Zenon
  <2> QED BY <2>2, <2>3
<1> DEFINE grows(g) == g = [i \in 1..n |-> IF i = 1 THEN pieces[i] ELSE g[i - 1] \o pieces[i]]
           f == [i \in 1..n |-> SubSeq(s, 1, cut[i + 1])]
           g == CHOOSE g : grows(g)
<1>2. grows(f)
  <2> SUFFICES ASSUME NEW i \in 1..n
               PROVE  f[i] = IF i = 1 THEN pieces[i] ELSE f[i - 1] \o pieces[i]
    OBVIOUS
  <2>1. CASE i = 1
    <3>1. pieces[i] = SubSeq(s, cut[i] + 1, cut[i + 1])
      BY <1>1
    <3>2. cut[i] = 0
      BY <2>1
    <3>3. pieces[i] = SubSeq(s, 1, cut[i + 1])
      BY <3>1, <3>2
    <3> QED BY <2>1, <3>3
  <2>2. CASE i # 1
    <3>1. i - 1 \in 1..n /\ (i - 1) + 1 = i
      BY <2>2
    <3>2. f[i - 1] = SubSeq(s, 1, cut[i]) /\ f[i] = SubSeq(s, 1, cut[i + 1])
      BY <3>1
    <3>3. cut[i] \in 0..Len(s) /\ cut[i + 1] \in cut[i]..Len(s)
      <4>1. i \in 1..n + 1 /\ i + 1 \in 1..n + 1
        OBVIOUS
      <4>2. cut[i] \in 0..Len(s) /\ cut[i + 1] \in 0..Len(s) /\ cut[i] <= cut[i + 1]
        BY <4>1
      <4> QED BY <4>2
    <3>4. SubSeq(s, 1, cut[i]) \o SubSeq(s, cut[i] + 1, cut[i + 1]) = SubSeq(s, 1, cut[i + 1])
      <4>1. PICK k, m : k = cut[i] /\ m = cut[i + 1]
        OBVIOUS
      <4>2. k \in 0..Len(s) /\ m \in k..Len(s) /\ Len(s) \in Nat
        BY <3>3, <4>1
      <4>3. 1 \in 1..Len(s) + 1 /\ k \in (1 - 1)..Len(s)
        BY <4>2
      <4>4. SubSeq(s, 1, k) \o SubSeq(s, k + 1, m) = SubSeq(s, 1, m)
        BY ONLY <4>2, <4>3, s \in Seq(S), ConcatAdjacentSubSeq
      <4> QED BY <4>1, <4>4
    <3>5. pieces[i] = SubSeq(s, cut[i] + 1, cut[i + 1])
      BY <1>1
    <3> QED BY <2>2, <3>2, <3>4, <3>5
  <2> QED BY <2>1, <2>2
<1>3. grows(g)
  BY <1>2
<1>4. FlattenSeq(pieces) = g[n]
  BY <1>1 DEF FlattenSeq
<1>5. \A i \in 1..n : g[i] = IF i = 1 THEN pieces[i] ELSE g[i - 1] \o pieces[i]
  BY <1>3
<1>6. \A i \in 1..n : f[i] = IF i = 1 THEN pieces[i] ELSE f[i - 1] \o pieces[i]
  BY <1>2
<1> DEFINE bad == {i \in 1..n : g[i] # f[i]}
<1> HIDE DEF f, g
<1>7. bad = {}
  <2> SUFFICES ASSUME bad # {} PROVE FALSE
    OBVIOUS
  <2>1. PICK i \in bad : \A j \in bad : i <= j
    BY ONLY n \in Nat \ {0}, bad # {}, BoundsAreReached DEF bad
  <2>2. CASE i = 1
    BY <1>5, <1>6, <2>2
  <2>3. CASE i # 1
    <3>1. i \in 1..n /\ \A j \in bad : i <= j
      BY <2>1 DEF bad
    <3>2. i - 1 \in 1..n /\ ~(i <= i - 1)
      BY <2>3, <3>1
    <3>3. i - 1 \notin bad
      BY <3>1, <3>2
    <3> QED BY <1>5, <1>6, <2>1, <2>3, <3>1, <3>2, <3>3 DEF bad
  <2> QED BY <2>2, <2>3
<1>8. g[n] = f[n]
  <2>1. n \in 1..n
    OBVIOUS
  <2> QED BY <1>7, <2>1 DEF bad
<1>9. f[n] = SubSeq(s, 1, Len(s))
  BY DEF f
<1>10. SubSeq(s, 1, Len(s)) = s
  BY SubSeqFull
<1> QED BY <1>0, <1>4, <1>8, <1>9, <1>10

(* The lesser and the greater of two numbers.                                *)
LEMMA LeastOfTwo ==
  ASSUME NEW a \in Int, NEW b \in Int
  PROVE  Min({a, b}) = (IF a <= b THEN a ELSE b) /\ Max({a, b}) = (IF a <= b THEN b ELSE a)
<1>1. Min({a, b}) \in {a, b} /\ \A y \in {a, b} : Min({a, b}) <= y
  <2>1. \E x \in {a, b} : \A y \in {a, b} : x <= y
    OBVIOUS
  <2> QED BY <2>1 DEF Min
<1>2. Max({a, b}) \in {a, b} /\ \A y \in {a, b} : Max({a, b}) >= y
  <2>1. \E x \in {a, b} : \A y \in {a, b} : x >= y
    OBVIOUS
  <2> QED BY <2>1 DEF Max
<1> QED BY <1>1, <1>2

(* The page count: the pages hold all rows, and the last is not empty.       *)
LEMMA CeilIsLeast ==
  ASSUME NEW a \in Nat, NEW b \in Nat \ {0}
  PROVE  Ceil(a, b) \in Nat /\ a <= Ceil(a, b) * b /\ (a > 0 => Ceil(a, b) > 0 /\ (Ceil(a, b) - 1) * b < a)
<1> DEFINE q == (-a) \div b
<1>1. q \in Int /\ q * b <= -a /\ -a < (q + 1) * b
  OBVIOUS
<1> HIDE DEF q
<1>2. Ceil(a, b) = -q
  BY DEF Ceil, q
<1>3. (-q) * b = -(q * b) /\ (-q - 1) * b = -((q + 1) * b)
  BY <1>1
<1>4. a <= (-q) * b /\ (-q - 1) * b < a
  BY <1>1, <1>3
<1>5. -q \in Nat
  <2> SUFFICES ASSUME q > 0 PROVE FALSE
    BY <1>1
  <2>1. q * b > 0
    BY <1>1
  <2> QED BY <1>1, <2>1
<1>6. a > 0 => -q > 0
  <2> SUFFICES ASSUME a > 0, q = 0 PROVE FALSE
    BY <1>1, <1>5
  <2> QED BY <1>1
<1> QED BY <1>2, <1>4, <1>5, <1>6

-----------------------------------------------------------------------------
(* Log tables: the pages of a log, and the window a view shows of it.        *)

PageCount(total, per) == Max({1, Ceil(total, per)})

Views == [at : {"counted"}, per : {AllRows} \cup 1..PerMax, page : Nat, pages : Nat, offset : Int,
          newest : BOOLEAN, total : Nat, first : Int, last : Int, grew : BOOLEAN]

(* A view between its two queries has the window of the rows it counted.     *)
CountedIsRight ==
  LET q == query IN
  q.at = "counted" =>
    /\ q \in Views /\ (~q.grew => q.total = rowsNow)
    /\ q.pages = (IF q.per = AllRows THEN 1 ELSE PageCount(q.total, q.per)) /\ q.page \in 1..q.pages
    /\ q.offset = (IF q.per = AllRows THEN 0 ELSE (q.page - 1) * q.per)
    /\ <<q.first, q.last>> = RowWindow(q.total, q.per, q.page)

LogInvariant == rowsNow \in Nat /\ CountedIsRight /\ LineFitsTheRows /\ TailIsWhole

(* The pages there are hold all rows, and no page before the last does.      *)
LEMMA PagesCover ==
  ASSUME NEW total \in Nat, NEW per \in 1..PerMax
  PROVE  /\ PageCount(total, per) \in Nat \ {0}
         /\ total <= PageCount(total, per) * per
         /\ (PageCount(total, per) - 1) * per <= total
         /\ total > 0 => (PageCount(total, per) - 1) * per < total
<1>1. per \in Nat \ {0}
  BY TableAssumption
<1> DEFINE c == Ceil(total, per)
<1>2. c \in Nat /\ total <= c * per /\ (total > 0 => c > 0 /\ (c - 1) * per < total)
  BY <1>1, CeilIsLeast
<1> HIDE DEF c
<1>3. PageCount(total, per) = IF 1 <= c THEN c ELSE 1
  <2>1. 1 \in Int /\ c \in Int
    BY <1>2
  <2>2. Max({1, c}) = IF 1 <= c THEN c ELSE 1
    BY ONLY <2>1, LeastOfTwo
  <2> QED BY <2>2 DEF PageCount, c
<1>4. CASE c = 0
  <2>1. total = 0
    BY <1>1, <1>2, <1>4
  <2> QED BY <1>1, <1>3, <1>4, <2>1
<1>5. CASE c # 0
  <2>1. PageCount(total, per) = c /\ c \in Nat \ {0}
    BY <1>2, <1>3, <1>5
  <2>2. total = 0 => (c - 1) * per <= total
    <3> SUFFICES ASSUME total = 0 PROVE (c - 1) * per <= 0
      OBVIOUS
    <3>1. (-0) \div per = 0
      BY <1>1
    <3> QED BY <1>5, <3>1 DEF c, Ceil
  <2> QED BY <1>1, <1>2, <2>1, <2>2
<1> QED BY <1>4, <1>5

(* Whatever a query string holds, the page size and page number are usable.  *)
LEMMA ParsesAreRight ==
  ASSUME NEW raw \in RawPers, NEW n \in RawPages
  PROVE  ParsePer(raw) \in {AllRows} \cup 1..PerMax /\ ParsePage(n) \in Nat \ {0}
<1>1. raw \in Int /\ n \in Int /\ PerMax \in Nat \ {0} /\ 1 \in Int
  BY TableAssumption
<1>2. Min({PerMax, raw}) = (IF PerMax <= raw THEN PerMax ELSE raw)
  BY <1>1, LeastOfTwo
<1>3. Max({1, Min({PerMax, raw})}) = (IF 1 <= Min({PerMax, raw}) THEN Min({PerMax, raw}) ELSE 1)
  <2>1. Min({PerMax, raw}) \in Int
    BY <1>1, <1>2
  <2> QED BY ONLY <1>1, <2>1, LeastOfTwo
<1>4. Max({1, n}) = (IF 1 <= n THEN n ELSE 1)
  BY <1>1, LeastOfTwo
<1>5. CASE raw = AllRows
  BY <1>1, <1>4, <1>5, TableAssumption DEF ParsePer, ParsePage
<1>6. CASE raw = Junk
  BY <1>1, <1>4, <1>6, TableAssumption DEF ParsePer, ParsePage
<1>7. CASE raw # AllRows /\ raw # Junk
  BY <1>1, <1>2, <1>3, <1>4, <1>7 DEF ParsePer, ParsePage
<1> QED BY <1>5, <1>6, <1>7

(* A page number is clamped to the pages there are, and one of those stays.  *)
LEMMA PaginatesRight ==
  ASSUME NEW total \in Nat, NEW per \in 1..PerMax, NEW n \in Nat \ {0}
  PROVE  /\ Paginate(total, per, n).pages = PageCount(total, per)
         /\ Paginate(total, per, n).page \in 1..PageCount(total, per)
         /\ n \in 1..PageCount(total, per) => Paginate(total, per, n).page = n
         /\ Paginate(total, per, n).offset = (Paginate(total, per, n).page - 1) * per
<1>1. per # AllRows /\ PageCount(total, per) \in Nat \ {0}
  BY PagesCover, TableAssumption
<1> DEFINE pages == PageCount(total, per)
           p == Max({1, Min({n, pages})})
<1>2. Paginate(total, per, n) = [page |-> p, pages |-> pages, offset |-> (p - 1) * per]
  BY <1>1 DEF Paginate, PageCount
<1> HIDE DEF pages
<1>3. pages \in Nat \ {0}
  BY <1>1 DEF pages
<1>4. Min({n, pages}) = IF n <= pages THEN n ELSE pages
  BY <1>3, LeastOfTwo
<1>5. p = IF 1 <= Min({n, pages}) THEN Min({n, pages}) ELSE 1
  BY <1>3, <1>4, LeastOfTwo
<1>6. p \in 1..pages /\ (n \in 1..pages => p = n)
  BY <1>3, <1>4, <1>5
<1> HIDE DEF p
<1> QED BY <1>2, <1>6 DEF pages

(* The rows in the order of a query.                                         *)
LEMMA OrderedRows ==
  ASSUME rowsNow \in Nat, NEW newest
  PROVE  /\ Ordered(newest) \in Seq(Int) /\ Len(Ordered(newest)) = rowsNow
         /\ \A i \in 1..rowsNow : Ordered(newest)[i] = IF newest THEN rowsNow + 1 - i ELSE i
<1>1. \A i \in 1..rowsNow : (IF newest THEN rowsNow + 1 - i ELSE i) \in Int
  OBVIOUS
<1> QED BY <1>1 DEF Ordered

LEMMA TurnedIsOrdered ==
  ASSUME rowsNow \in Nat, NEW newest
  PROVE  Turned([i \in 1..rowsNow |-> i], newest) = Ordered(newest)
<1> DEFINE up == [i \in 1..rowsNow |-> i]
<1>1. Len(up) = rowsNow /\ up \in Seq(Int)
  OBVIOUS
<1>2. CASE newest
  <2>1. Reverse(up) = [i \in 1..rowsNow |-> up[(rowsNow - i) + 1]]
    BY <1>1 DEF Reverse
  <2>2. \A i \in 1..rowsNow : up[(rowsNow - i) + 1] = rowsNow + 1 - i
    OBVIOUS
  <2>3. Reverse(up) = [i \in 1..rowsNow |-> rowsNow + 1 - i]
    BY <2>1, <2>2
  <2> QED BY <1>2, <2>3 DEF Turned, Ordered
<1>3. CASE ~newest
  BY <1>3 DEF Turned, Ordered
<1> QED BY <1>2, <1>3

LEMMA LogStarts == LogInit => LogInvariant
<1> SUFFICES ASSUME LogInit PROVE LogInvariant
  OBVIOUS
<1>1. query.at = "idle" /\ rowsNow \in Nat
  BY TableAssumption DEF LogInit, NoQuery
<1> QED BY <1>1 DEF LogInvariant, CountedIsRight, LineFitsTheRows, TailIsWhole

(* What the second query fetches is what the line says.                      *)
LEMMA FetchedFits ==
  ASSUME LogInvariant, FetchRows
  PROVE  LogInvariant'
<1> DEFINE q == query
           s == Ordered(q.newest)
<1>1. /\ q.at = "counted" /\ rowsNow' = rowsNow /\ rowsNow \in Nat /\ CountedIsRight
      /\ query' = [at |-> "page", q |-> q, rows |-> IF q.per = AllRows THEN s ELSE Slice(s, q.offset, q.per)]
  BY DEF FetchRows, LogInvariant
<1>2. query'.at = "page" /\ query'.q = q /\ query'.rows = IF q.per = AllRows THEN s ELSE Slice(s, q.offset, q.per)
  BY <1>1
<1>3. CountedIsRight' /\ TailIsWhole'
  BY <1>2 DEF CountedIsRight, TailIsWhole
<1>4. ASSUME ~q.grew
      PROVE  /\ query'.rows = IF q.total = 0 THEN <<>>
                              ELSE SubSeq(Turned([i \in 1..q.total |-> i], q.newest), q.first, q.last)
             /\ q.total > 0 => query'.rows # <<>>
  <2>1. /\ q.per \in {AllRows} \cup 1..PerMax /\ q.total = rowsNow
        /\ q.pages = (IF q.per = AllRows THEN 1 ELSE PageCount(q.total, q.per)) /\ q.page \in 1..q.pages
        /\ q.offset = (IF q.per = AllRows THEN 0 ELSE (q.page - 1) * q.per)
        /\ <<q.first, q.last>> = RowWindow(q.total, q.per, q.page)
    BY <1>1, <1>4 DEF CountedIsRight, Views
  <2>2. s \in Seq(Int) /\ Len(s) = rowsNow
    BY <1>1, OrderedRows
  <2>3. Turned([i \in 1..q.total |-> i], q.newest) = s
    BY <1>1, <2>1, TurnedIsOrdered
  <2> HIDE DEF q, s
  <2>4. CASE q.per = AllRows
    <3>1. q.total = 0 => s = <<>>
      BY <2>1, <2>2
    <3>2. q.total > 0 => q.first = 1 /\ q.last = rowsNow /\ s # <<>>
      BY <2>1, <2>2, <2>4 DEF RowWindow
    <3>3. SubSeq(s, 1, rowsNow) = s
      BY <2>2, SubSeqFull
    <3>4. query'.rows = s
      BY <1>2, <2>4
    <3>5. CASE q.total = 0
      BY <3>1, <3>4, <3>5
    <3>6. CASE q.total # 0
      <4>1. q.total > 0
        BY <1>1, <2>1, <3>6
      <4> QED BY <2>3, <3>2, <3>3, <3>4, <3>6, <4>1
    <3> QED BY <3>5, <3>6
  <2>5. CASE q.per # AllRows
    <3>10. PICK per, page, off : per = q.per /\ page = q.page /\ off = q.offset
      OBVIOUS
    <3>11. per \in 1..PerMax /\ page \in 1..PageCount(q.total, per) /\ off = (page - 1) * per
      BY <2>1, <2>5, <3>10
    <3>1. /\ per \in 1..PerMax /\ page \in Int /\ off \in Int /\ per = q.per /\ page = q.page /\ off = q.offset
          /\ off = (page - 1) * per
      BY <3>10, <3>11
    <3>2. off \in Nat /\ (rowsNow > 0 => off < rowsNow) /\ per > 0
      <4>1. page \in 1..PageCount(rowsNow, per) /\ PageCount(rowsNow, per) \in Nat \ {0}
        BY <1>1, <2>1, <2>5, <3>1, PagesCover
      <4>2. per \in Nat \ {0}
        BY <3>1, TableAssumption
      <4>3. (page - 1) * per <= (PageCount(rowsNow, per) - 1) * per /\ (page - 1) * per >= 0
        BY <4>1, <4>2
      <4>4. rowsNow > 0 => (PageCount(rowsNow, per) - 1) * per < rowsNow
        BY <1>1, <3>1, PagesCover
      <4> QED BY <1>1, <3>1, <4>1, <4>2, <4>3, <4>4
    <3>12. PICK m : m = Min({off + per, rowsNow})
      OBVIOUS
    <3>3. m = IF off + per <= rowsNow THEN off + per ELSE rowsNow
      <4>1. off + per \in Int /\ rowsNow \in Int
        BY <1>1, <3>1
      <4> QED BY ONLY <3>12, <4>1, LeastOfTwo
    <3>4. query'.rows = SubSeq(s, off + 1, m)
      BY <1>2, <2>2, <2>5, <3>1, <3>12 DEF Slice
    <3>5. CASE rowsNow = 0
      <4>1. m = 0
        BY <3>1, <3>2, <3>3, <3>5
      <4>2. SubSeq(s, off + 1, 0) = <<>>
        BY <3>2, SubSeqEmpty
      <4>3. query'.rows = <<>> /\ q.total = 0
        BY <2>1, <3>4, <3>5, <4>1, <4>2
      <4> QED BY <4>3
    <3>6. CASE rowsNow # 0
      <4>1. page * per = off + per /\ page * per \in Int
        BY <3>1
      <4>2. q.first = 1 + off /\ q.last = Min({rowsNow, page * per})
        BY <2>1, <2>5, <3>1, <3>6 DEF RowWindow
      <4>3. {rowsNow, page * per} = {off + per, rowsNow}
        BY <4>1
      <4>4. query'.rows = SubSeq(s, q.first, q.last)
        <5>1. q.last = m
          BY <3>12, <4>2, <4>3, Zenon
        <5>2. q.first = off + 1
          BY <3>1, <4>2
        <5> QED BY <3>4, <5>1, <5>2
      <4>5. query'.rows # <<>>
        <5>1. PICK r : r = SubSeq(s, off + 1, m)
          OBVIOUS
        <5>2. off + 1 \in 1..rowsNow /\ m \in off + 1..rowsNow
          BY <1>1, <3>1, <3>2, <3>3, <3>6
        <5>3. Len(r) > 0
          BY <2>2, <5>1, <5>2
        <5>4. r # <<>>
          BY <5>3
        <5> QED BY <3>4, <5>1, <5>4
      <4> QED BY <2>1, <2>3, <3>6, <4>4, <4>5
    <3> QED BY <3>5, <3>6
  <2> QED BY <2>4, <2>5
<1>5. LineFitsTheRows'
  BY <1>2, <1>4 DEF LineFitsTheRows
<1> QED BY <1>1, <1>3, <1>5 DEF LogInvariant

LEMMA CountedFits ==
  ASSUME LogInvariant, NEW rawPer \in RawPers, NEW rawPage \in RawPages, NEW newest \in BOOLEAN,
         CountRows(rawPer, rawPage, newest)
  PROVE  LogInvariant'
<1> DEFINE per == ParsePer(rawPer)
           n == ParsePage(rawPage)
           pg == Paginate(rowsNow, per, n)
           w == RowWindow(rowsNow, per, pg.page)
<1>1. /\ rowsNow' = rowsNow /\ rowsNow \in Nat
      /\ query' = [at |-> "counted", per |-> per, page |-> pg.page, pages |-> pg.pages, offset |-> pg.offset,
                   newest |-> newest, total |-> rowsNow, first |-> w[1], last |-> w[2], grew |-> FALSE]
  BY DEF CountRows, LogInvariant
<1>2. per \in {AllRows} \cup 1..PerMax /\ n \in Nat \ {0}
  BY ParsesAreRight
<1>3. w = <<w[1], w[2]>>
  BY DEF RowWindow
<1>4. /\ pg.pages = (IF per = AllRows THEN 1 ELSE PageCount(rowsNow, per)) /\ pg.page \in 1..pg.pages
      /\ pg.offset = (IF per = AllRows THEN 0 ELSE (pg.page - 1) * per)
  <2>1. CASE per = AllRows
    BY <2>1 DEF Paginate
  <2>2. CASE per # AllRows
    <3>1. per \in 1..PerMax
      BY <1>2, <2>2
    <3> HIDE DEF per, n
    <3> QED BY <1>1, <1>2, <2>2, <3>1, PaginatesRight
  <2> QED BY <2>1, <2>2
<1> HIDE DEF per, n, pg
<1>7. w[1] \in Int /\ w[2] \in Int /\ pg.page \in Nat /\ pg.pages \in Nat /\ pg.offset \in Int
  <2>1. per \in Int /\ pg.pages \in Nat /\ pg.page \in Nat
    BY <1>1, <1>2, <1>4, PagesCover, TableAssumption
  <2>2. pg.page * per \in Int /\ (pg.page - 1) * per \in Int
    BY <2>1
  <2>3. Min({rowsNow, pg.page * per}) \in Int
    BY <1>1, <2>2, LeastOfTwo
  <2>4. pg.offset \in Int
    BY <1>4, <2>2
  <2>5. 1 + (pg.page - 1) * per \in Int
    BY <2>2
  <2> QED BY <1>1, <2>1, <2>3, <2>4, <2>5 DEF RowWindow
<1> HIDE DEF w
<1>5. /\ query'.at = "counted" /\ query'.per = per /\ query'.page = pg.page /\ query'.pages = pg.pages
      /\ query'.offset = pg.offset /\ query'.newest = newest /\ query'.total = rowsNow
      /\ query'.first = w[1] /\ query'.last = w[2]
  BY <1>1
<1>6. CountedIsRight'
  <2>1. query' \in Views
    BY <1>1, <1>2, <1>7 DEF Views
  <2> QED BY <1>1, <1>3, <1>4, <1>5, <2>1 DEF CountedIsRight, w
<1>8. LineFitsTheRows' /\ TailIsWhole'
  BY <1>5 DEF LineFitsTheRows, TailIsWhole
<1> QED BY <1>1, <1>6, <1>8 DEF LogInvariant

(* The transcript keeps the newest or the oldest rows, oldest first.         *)
LEMMA TailFits ==
  ASSUME LogInvariant, NEW limit \in Limits, NEW newest \in BOOLEAN, ShowMessages(limit, newest)
  PROVE  LogInvariant'
<1>1. /\ rowsNow' = rowsNow /\ rowsNow \in Nat /\ limit \in Nat \ {0}
      /\ query' = [at |-> "tail", limit |-> limit, newest |-> newest, kept |-> Kept(limit, newest), total |-> rowsNow]
  BY TableAssumption DEF ShowMessages, LogInvariant
<1>2. PICK m : m = Min({0 + (limit + 1), rowsNow})
  OBVIOUS
<1>3. m \in Nat /\ m = (IF limit + 1 <= rowsNow THEN limit + 1 ELSE rowsNow)
  <2>1. 0 + (limit + 1) \in Int /\ rowsNow \in Int
    BY <1>1
  <2>2. m = IF 0 + (limit + 1) <= rowsNow THEN 0 + (limit + 1) ELSE rowsNow
    BY ONLY <1>2, <2>1, LeastOfTwo
  <2> QED BY <1>1, <2>2
<1>4. PICK n : n = Min({limit, rowsNow})
  OBVIOUS
<1>5. n \in Nat /\ n = (IF limit <= rowsNow THEN limit ELSE rowsNow)
  <2>1. limit \in Int /\ rowsNow \in Int
    BY <1>1
  <2>2. n = IF limit <= rowsNow THEN limit ELSE rowsNow
    BY ONLY <1>4, <2>1, LeastOfTwo
  <2> QED BY <1>1, <2>2
<1>6. PICK from : from = IF newest THEN rowsNow - n ELSE 0
  OBVIOUS
<1>7. PICK cut : cut = SubSeq(Ordered(newest), 1, m)
  OBVIOUS
<1>8. cut = Slice(Ordered(newest), 0, limit + 1)
  <2>1. Len(Ordered(newest)) = rowsNow
    BY <1>1, OrderedRows
  <2>2. Slice(Ordered(newest), 0, limit + 1) = SubSeq(Ordered(newest), 0 + 1, Min({0 + (limit + 1), rowsNow}))
    BY <2>1 DEF Slice
  <2>3. Slice(Ordered(newest), 0, limit + 1) = SubSeq(Ordered(newest), 0 + 1, m)
    BY <1>2, <2>2
  <2> QED BY <1>7, <2>3
<1>9. cut \in Seq(Int) /\ Len(cut) = m /\ \A i \in 1..m : cut[i] = IF newest THEN rowsNow + 1 - i ELSE i
  <2>1. /\ Ordered(newest) \in Seq(Int) /\ Len(Ordered(newest)) = rowsNow
        /\ \A i \in 1..rowsNow : Ordered(newest)[i] = IF newest THEN rowsNow + 1 - i ELSE i
    BY <1>1, OrderedRows
  <2>2. \A i \in 1..m : i \in 1..rowsNow /\ Ordered(newest)[i] \in Int
    BY <1>1, <1>3, <2>1
  <2>3. PICK s : s = Ordered(newest)
    OBVIOUS
  <2> QED BY <1>1, <1>3, <1>7, <2>1, <2>2, <2>3
<1>10. PICK got : got = IF newest THEN Reverse(cut) ELSE cut
  OBVIOUS
<1>11. got \in Seq(Int) /\ Len(got) = m /\ \A i \in 1..m : got[i] = IF newest THEN rowsNow - m + i ELSE i
  <2>1. CASE newest
    <3>1. got = [i \in 1..m |-> cut[(m - i) + 1]]
      BY <1>9, <1>10, <2>1 DEF Reverse
    <3>2. \A i \in 1..m : (m - i) + 1 \in 1..m /\ rowsNow + 1 - ((m - i) + 1) = rowsNow - m + i
      BY <1>1, <1>3
    <3>3. \A i \in 1..m : got[i] = rowsNow - m + i
      BY <1>9, <2>1, <3>1, <3>2
    <3>4. \A i \in 1..m : rowsNow - m + i \in Int
      BY <1>1, <1>3
    <3>5. got = [i \in 1..m |-> rowsNow - m + i]
      BY <3>1, <3>3
    <3> QED BY <1>3, <2>1, <3>4, <3>5
  <2>2. CASE ~newest
    BY <1>9, <1>10, <2>2
  <2> QED BY <2>1, <2>2
<1>12. PICK k : k = Kept(limit, newest)
  OBVIOUS
<1>13. /\ k.rows = IF Len(got) > limit /\ newest THEN Tail(got) ELSE Slice(got, 0, limit)
       /\ k.truncated = (Len(got) > limit)
  <2>1. got = IF newest THEN Reverse(Slice(Ordered(TRUE), 0, limit + 1)) ELSE Slice(Ordered(FALSE), 0, limit + 1)
    <3>1. CASE newest
      <4>1. newest = TRUE
        BY <3>1
      <4> QED BY <1>8, <1>10, <4>1
    <3>2. CASE ~newest
      <4>1. newest = FALSE
        BY <3>2
      <4> QED BY <1>8, <1>10, <4>1
    <3> QED BY <3>1, <3>2
  <2> QED BY <1>12, <2>1 DEF Kept
<1>14. k.truncated <=> n < rowsNow
  <2>1. Len(got) > limit <=> n < rowsNow
    BY <1>1, <1>3, <1>5, <1>11
  <2> QED BY <1>13, <2>1, Zenon
<1>15. k.rows = [i \in 1..n |-> from + i]
  <2>1. from \in Nat /\ \A i \in 1..n : from + i \in Int
    BY <1>1, <1>5, <1>6
  <2>2. CASE m > limit /\ newest
    <3>1. k.rows = Tail(got) /\ n = limit /\ m = limit + 1 /\ from = rowsNow - n
      BY <1>1, <1>3, <1>5, <1>6, <1>11, <1>13, <2>2
    <3>2. Tail(got) = [i \in 1..m - 1 |-> got[i + 1]]
      <4>1. got # <<>>
        BY <1>1, <1>11, <3>1
      <4>2. Tail(got) \in Seq(Int) /\ Len(Tail(got)) = m - 1 /\ \A i \in 1..Len(Tail(got)) : Tail(got)[i] = got[i + 1]
        BY <1>11, <4>1, HeadTailProperties
      <4>3. PICK r : r = Tail(got)
        OBVIOUS
      <4>4. r \in Seq(Int) /\ Len(r) = m - 1 /\ m - 1 \in Nat /\ \A i \in 1..m - 1 : r[i] = got[i + 1]
        BY <1>1, <1>3, <3>1, <4>2, <4>3
      <4>5. r = [i \in 1..m - 1 |-> got[i + 1]]
        BY ONLY <4>4
      <4> QED BY <4>3, <4>5
    <3>3. m - 1 = n /\ \A i \in 1..n : i + 1 \in 1..m /\ rowsNow - m + (i + 1) = from + i
      BY <1>1, <1>3, <1>5, <3>1
    <3>4. \A i \in 1..n : got[i + 1] = from + i
      BY <1>11, <2>2, <3>3
    <3> QED BY <3>1, <3>2, <3>3, <3>4
  <2>3. CASE ~(m > limit /\ newest)
    <3>1. k.rows = Slice(got, 0, limit)
      BY <1>11, <1>13, <2>3
    <3>2. PICK l : l = Min({0 + limit, m})
      OBVIOUS
    <3>3. l = n
      <4>1. 0 + limit \in Int /\ m \in Int
        BY <1>1, <1>3
      <4>2. l = IF 0 + limit <= m THEN 0 + limit ELSE m
        BY ONLY <3>2, <4>1, LeastOfTwo
      <4> QED BY <1>1, <1>3, <1>5, <4>2
    <3>4. k.rows = SubSeq(got, 1, n)
      <4>1. k.rows = SubSeq(got, 0 + 1, l)
        BY <1>11, <3>1, <3>2 DEF Slice
      <4> QED BY <3>3, <4>1
    <3>5. n \in 0..m /\ \A i \in 1..n : i \in 1..m
      BY <1>1, <1>3, <1>5
    <3>6. SubSeq(got, 1, n) = [i \in 1..n |-> got[i]]
      <4>1. \A i \in 1..n : got[i] \in Int
        BY <1>11, <3>5
      <4>2. SubSeq(got, 1, n) \in Seq(Int) /\ Len(SubSeq(got, 1, n)) = n /\ \A i \in 1..n : SubSeq(got, 1, n)[i] = got[i]
        BY <1>5, <1>11, <3>5, <4>1
      <4> QED BY <1>5, <4>2
    <3>7. \A i \in 1..n : got[i] = from + i
      <4>1. newest => m = rowsNow /\ from = 0
        BY <1>1, <1>3, <1>5, <1>6, <2>3
      <4>2. ~newest => from = 0
        BY <1>6
      <4> QED BY <1>1, <1>5, <1>11, <3>5, <4>1, <4>2
    <3> QED BY <3>4, <3>6, <3>7
  <2> QED BY <2>2, <2>3
<1>16. query'.at = "tail" /\ query'.limit = limit /\ query'.newest = newest /\ query'.kept = k /\ query'.total = rowsNow
  BY <1>1, <1>12
<1>17. TailIsWhole'
  BY <1>4, <1>6, <1>14, <1>15, <1>16 DEF TailIsWhole
<1>18. CountedIsRight' /\ LineFitsTheRows'
  BY <1>16 DEF CountedIsRight, LineFitsTheRows
<1> QED BY <1>1, <1>17, <1>18 DEF LogInvariant

LEMMA LogStays == LogInvariant /\ [LogNext]_logVars => LogInvariant'
<1> SUFFICES ASSUME LogInvariant, [LogNext]_logVars PROVE LogInvariant'
  OBVIOUS
<1>1. ASSUME AddRow PROVE LogInvariant'
  <2>1. rowsNow \in Nat /\ rowsNow' = rowsNow + 1 /\ CountedIsRight
    BY <1>1 DEF AddRow, LogInvariant
  <2>2. CASE query.at = "counted"
    <3>1. query' = [query EXCEPT !.grew = TRUE]
      BY <1>1, <2>2 DEF AddRow
    <3>2. query \in Views
      BY <2>1, <2>2 DEF CountedIsRight
    <3>3. query' \in Views /\ query'.grew
      BY <3>1, <3>2 DEF Views
    <3>4. /\ query'.at = "counted" /\ query'.per = query.per /\ query'.page = query.page /\ query'.pages = query.pages
          /\ query'.offset = query.offset /\ query'.total = query.total /\ query'.first = query.first
          /\ query'.last = query.last
      BY <2>2, <3>1, <3>2 DEF Views
    <3>5. CountedIsRight'
      BY <2>1, <2>2, <3>3, <3>4 DEF CountedIsRight
    <3> QED BY <2>1, <3>4, <3>5 DEF LogInvariant, LineFitsTheRows, TailIsWhole
  <2>3. CASE query.at # "counted"
    <3>1. query'.at = "idle"
      BY <1>1, <2>3 DEF AddRow, NoQuery
    <3> QED BY <2>1, <3>1 DEF LogInvariant, CountedIsRight, LineFitsTheRows, TailIsWhole
  <2> QED BY <2>2, <2>3
<1>2. CASE UNCHANGED logVars
  BY <1>2 DEF logVars, LogInvariant, CountedIsRight, LineFitsTheRows, TailIsWhole
<1> QED BY <1>1, <1>2, FetchedFits, CountedFits, TailFits DEF LogNext

LEMMA LogIsRight ==
  ASSUME LogInvariant
  PROVE  PagesMakeTheWholeLog /\ LineFitsTheRows /\ TailIsWhole
<1> DEFINE q == query
           s == Ordered(q.newest)
           slice(p) == IF q.per = AllRows THEN s ELSE Slice(s, Paginate(rowsNow, q.per, p).offset, q.per)
<1>1. ASSUME q.at = "counted", ~q.grew
      PROVE  (q.per = AllRows \/ q.per \in 1..PerMax) /\ FlattenSeq([p \in 1..q.pages |-> slice(p)]) = s
  <2>1. /\ q.per \in {AllRows} \cup 1..PerMax /\ rowsNow \in Nat
        /\ q.pages = (IF q.per = AllRows THEN 1 ELSE PageCount(rowsNow, q.per))
    BY <1>1 DEF LogInvariant, CountedIsRight, Views
  <2>2. s \in Seq(Int) /\ Len(s) = rowsNow
    BY <2>1, OrderedRows
  <2>3. PICK per : per = q.per
    OBVIOUS
  <2> HIDE DEF s
  <2>4. CASE per = AllRows
    <3>1. PICK cut : cut = [i \in 1..1 + 1 |-> IF i = 1 THEN 0 ELSE rowsNow]
      OBVIOUS
    <3>2. cut \in [1..1 + 1 -> 0..Len(s)] /\ cut[1] = 0 /\ cut[1 + 1] = Len(s) /\ \A i \in 1..1 : cut[i] <= cut[i + 1]
      BY <2>1, <2>2, <3>1
    <3>3. PICK pieces : pieces = [i \in 1..1 |-> SubSeq(s, cut[i] + 1, cut[i + 1])]
      OBVIOUS
    <3>4. FlattenSeq(pieces) = s
      <4>1. FlattenSeq(Pieces(s, 1, cut)) = s
        BY ONLY <2>2, <3>2, 1 \in Nat \ {0}, PiecesMakeTheWhole
      <4> QED BY <3>3, <4>1 DEF Pieces
    <3>5. [p \in 1..q.pages |-> slice(p)] = [p \in 1..1 |-> s]
      BY <2>1, <2>3, <2>4
    <3>6. \A i \in 1..1 : SubSeq(s, cut[i] + 1, cut[i + 1]) = s
      <4>1. SubSeq(s, 1, Len(s)) = s
        BY <2>2, SubSeqFull
      <4>2. cut[1] + 1 = 1 /\ cut[1 + 1] = Len(s)
        BY <3>2
      <4>3. \A i \in 1..1 : i = 1
        OBVIOUS
      <4> QED BY <4>1, <4>2, <4>3
    <3>7. pieces = [p \in 1..1 |-> s]
      BY <3>3, <3>6
    <3> QED BY <2>3, <2>4, <3>4, <3>5, <3>7
  <2>5. CASE per # AllRows
    <3>1. per \in 1..PerMax /\ per \in Nat \ {0}
      BY <2>1, <2>3, <2>5, TableAssumption
    <3>2. PICK n : n = PageCount(rowsNow, per)
      OBVIOUS
    <3>3. n \in Nat \ {0} /\ rowsNow <= n * per /\ (n - 1) * per <= rowsNow /\ q.pages = n
      BY <2>1, <2>3, <2>5, <3>1, <3>2, PagesCover
    <3>4. PICK cut : cut = [i \in 1..n + 1 |-> IF (i - 1) * per <= rowsNow THEN (i - 1) * per ELSE rowsNow]
      OBVIOUS
    <3>5. \A i \in 1..n + 1 : (i - 1) * per \in Nat
      BY <3>1, <3>3
    <3>6. cut \in [1..n + 1 -> 0..Len(s)]
      BY <2>1, <2>2, <3>4, <3>5
    <3>7. cut[1] = 0 /\ cut[n + 1] = Len(s)
      <4>1. (1 - 1) * per = 0 /\ ((n + 1) - 1) * per = n * per /\ 1 \in 1..n + 1 /\ n + 1 \in 1..n + 1
        BY <3>1, <3>3
      <4>2. n * per <= rowsNow => n * per = rowsNow
        BY <2>1, <3>1, <3>3
      <4> QED BY <2>1, <2>2, <3>4, <4>1, <4>2
    <3>8. ASSUME NEW i \in 1..n
          PROVE  /\ cut[i] = (i - 1) * per
                 /\ cut[i + 1] = IF (i - 1) * per + per <= rowsNow THEN (i - 1) * per + per ELSE rowsNow
                 /\ cut[i] <= cut[i + 1]
      <4>1. (i - 1) * per \in Nat /\ (i - 1) * per <= (n - 1) * per /\ ((i + 1) - 1) * per = (i - 1) * per + per
        BY <3>1, <3>3
      <4>2. (i - 1) * per <= rowsNow
        <5>1. (n - 1) * per \in Int
          BY <3>1, <3>3
        <5> QED BY <2>1, <3>3, <4>1, <5>1
      <4>3. i \in 1..n + 1 /\ i + 1 \in 1..n + 1
        BY <3>3
      <4>4. cut[i] = (i - 1) * per /\ cut[i + 1] = IF (i - 1) * per + per <= rowsNow THEN (i - 1) * per + per ELSE rowsNow
        BY <3>4, <4>1, <4>2, <4>3
      <4> QED BY <2>1, <3>1, <4>1, <4>2, <4>4
    <3>9. PICK pieces : pieces = [i \in 1..n |-> SubSeq(s, cut[i] + 1, cut[i + 1])]
      OBVIOUS
    <3>10. FlattenSeq(pieces) = s
      <4>1. FlattenSeq(Pieces(s, n, cut)) = s
        BY ONLY <2>2, <3>3, <3>6, <3>7, <3>8, PiecesMakeTheWhole
      <4> QED BY <3>9, <4>1 DEF Pieces
    <3>11. ASSUME NEW p \in 1..n
           PROVE  slice(p) = SubSeq(s, cut[p] + 1, cut[p + 1])
      <4>1. PICK off : off = (p - 1) * per
        OBVIOUS
      <4>2. Paginate(rowsNow, per, p).offset = off
        <5>1. p \in Nat \ {0} /\ p \in 1..PageCount(rowsNow, per)
          BY <3>2, <3>3
        <5> QED BY ONLY <2>1, <3>1, <4>1, <5>1, PaginatesRight
      <4>3. PICK m : m = Min({off + per, rowsNow})
        OBVIOUS
      <4>4. m = IF off + per <= rowsNow THEN off + per ELSE rowsNow
        <5>1. off + per \in Int /\ rowsNow \in Int
          BY <2>1, <3>1, <3>3, <4>1
        <5> QED BY ONLY <4>3, <5>1, LeastOfTwo
      <4>5. m = cut[p + 1] /\ off = cut[p]
        BY <3>8, <4>1, <4>4
      <4>6. slice(p) = SubSeq(s, off + 1, m)
        BY <2>2, <2>3, <2>5, <4>2, <4>3 DEF Slice
      <4> QED BY <4>5, <4>6
    <3> HIDE DEF slice
    <3>12. pieces = [p \in 1..q.pages |-> slice(p)]
      BY <3>3, <3>9, <3>11
    <3> QED BY <2>3, <3>1, <3>10, <3>12
  <2> QED BY <2>4, <2>5
<1>2. PagesMakeTheWholeLog
  BY <1>1 DEF PagesMakeTheWholeLog
<1> QED BY <1>2 DEF LogInvariant

-----------------------------------------------------------------------------
(* The Cron page: ops that go from one directory to the other.               *)

SpooledOps == [id : OpIds, action : {"create", "run", "remove"}, job : Jobs, blind : BOOLEAN, raced : BOOLEAN]
DoneOps == [id : OpIds, fell : BOOLEAN, blind : BOOLEAN, raced : BOOLEAN]
DoneIds == {done[i].id : i \in DOMAIN done}

CronTypes ==
  /\ hostJobs \subseteq Jobs /\ snapshot \subseteq Jobs
  /\ spool \subseteq SpooledOps /\ done \in Seq(DoneOps)
  /\ DoneIds \cap Ids(spool) = {}
  /\ \A o, p \in spool : o.id = p.id => o = p

(* A spooled op was checked against a snapshot, or is raced, or has its job. *)
ChecksStand ==
  \A o \in spool : o.action = "create" \/ o.blind \/ o.raced \/ o.job \in hostJobs

(* What was there when the page was asked for is listed, or done by now.     *)
PagesAreFair ==
  opsPage.at = "half" => opsPage.before \subseteq opsPage.pending \cup DoneIds

CronInvariant == CronTypes /\ ChecksStand /\ PagesAreFair /\ FailuresHaveACause /\ OpsAreShown

LEMMA CronStarts == CronInit => CronInvariant
<1> SUFFICES ASSUME CronInit PROVE CronInvariant
  OBVIOUS
<1>1. done = <<>> /\ spool = {} /\ DOMAIN done = {} /\ hostJobs \subseteq Jobs /\ snapshot \subseteq Jobs
  BY DEF CronInit
<1>2. CronTypes
  BY <1>1 DEF CronTypes, DoneIds
<1>3. ChecksStand /\ FailuresHaveACause
  BY <1>1 DEF ChecksStand, FailuresHaveACause
<1>4. PagesAreFair /\ OpsAreShown
  BY DEF CronInit, PagesAreFair, OpsAreShown
<1> QED BY <1>2, <1>3, <1>4 DEF CronInvariant

(* Marking the ops of a job leaves them what they are otherwise.             *)
LEMMA RacedOps ==
  ASSUME NEW ops, ops \subseteq SpooledOps, \A o, p \in ops : o.id = p.id => o = p, NEW j
  PROVE  /\ Raced(ops, j) \subseteq SpooledOps /\ Ids(Raced(ops, j)) = Ids(ops)
         /\ \A o, p \in Raced(ops, j) : o.id = p.id => o = p
         /\ \A o \in Raced(ops, j) : o.job = j => o.raced
         /\ \A o \in Raced(ops, j) : o.job # j => o \in ops
<1>1. ASSUME NEW o \in Raced(ops, j)
      PROVE  /\ o \in SpooledOps /\ (o.job = j => o.raced) /\ (o.job # j => o \in ops)
             /\ \E p \in ops : p.id = o.id /\ o = IF p.job = j THEN [p EXCEPT !.raced = TRUE] ELSE p
  <2>1. PICK p \in ops : o = IF p.job = j THEN [p EXCEPT !.raced = TRUE] ELSE p
    BY DEF Raced
  <2>2. p \in SpooledOps
    OBVIOUS
  <2>3. CASE p.job = j
    BY <2>1, <2>2, <2>3 DEF SpooledOps
  <2>4. CASE p.job # j
    BY <2>1, <2>2, <2>4
  <2> QED BY <2>3, <2>4
<1>2. ASSUME NEW p \in ops
      PROVE  \E o \in Raced(ops, j) : o.id = p.id
  <2>1. (IF p.job = j THEN [p EXCEPT !.raced = TRUE] ELSE p) \in Raced(ops, j)
    BY DEF Raced
  <2>2. (IF p.job = j THEN [p EXCEPT !.raced = TRUE] ELSE p).id = p.id
    BY DEF SpooledOps
  <2> QED BY <2>1, <2>2
<1>3. Ids(Raced(ops, j)) = Ids(ops)
  BY <1>1, <1>2 DEF Ids
<1>4. ASSUME NEW o \in Raced(ops, j), NEW p \in Raced(ops, j), o.id = p.id
      PROVE  o = p
  <2>1. PICK q \in ops : q.id = o.id /\ o = IF q.job = j THEN [q EXCEPT !.raced = TRUE] ELSE q
    BY <1>1
  <2>2. PICK r \in ops : r.id = p.id /\ p = IF r.job = j THEN [r EXCEPT !.raced = TRUE] ELSE r
    BY <1>1
  <2>3. q = r
    BY <1>4, <2>1, <2>2
  <2> QED BY <2>1, <2>2, <2>3
<1> QED BY <1>1, <1>3, <1>4

LEMMA CronStays == CronInvariant /\ [CronNext]_cronVars => CronInvariant'
<1> SUFFICES ASSUME CronInvariant, [CronNext]_cronVars PROVE CronInvariant'
  OBVIOUS
<1>1. /\ hostJobs \subseteq Jobs /\ snapshot \subseteq Jobs
      /\ spool \subseteq SpooledOps /\ done \in Seq(DoneOps)
      /\ DoneIds \cap Ids(spool) = {}
      /\ \A o, p \in spool : o.id = p.id => o = p
  BY DEF CronInvariant, CronTypes
<1>2. ChecksStand /\ PagesAreFair /\ FailuresHaveACause /\ OpsAreShown
  BY DEF CronInvariant
<1>3. ASSUME NEW id \in OpIds, NEW a \in {"create", "run", "remove"}, NEW j \in Jobs, Submit(id, a, j)
      PROVE  CronInvariant'
  <2> DEFINE o == [id |-> id, action |-> a, job |-> j, blind |-> snapshot = {},
                   raced |-> (j \in snapshot) # (j \in hostJobs)]
  <2>1. /\ id \notin Used /\ Valid(a, j) /\ spool' = spool \cup {o}
        /\ UNCHANGED <<hostJobs, snapshot, done, opsPage>>
    BY <1>3 DEF Submit
  <2>2. o \in SpooledOps /\ o.id = id /\ o.action = a /\ o.job = j
    BY DEF SpooledOps
  <2>3. o.blind = (snapshot = {}) /\ o.raced = ((j \in snapshot) # (j \in hostJobs))
    OBVIOUS
  <2> HIDE DEF o
  <2>4. id \notin Ids(spool) /\ id \notin DoneIds
    BY <2>1 DEF Used, Ids, DoneIds
  <2>5. DoneIds' = DoneIds /\ Ids(spool') = Ids(spool) \cup {id}
    BY <2>1, <2>2 DEF DoneIds, Ids
  <2>6. CronTypes'
    <3>1. \A p \in spool : p.id # id
      BY <2>4 DEF Ids
    <3>2. \A p, q \in spool' : p.id = q.id => p = q
      BY <1>1, <2>1, <2>2, <3>1
    <3>3. DoneIds' \cap Ids(spool') = {}
      BY <1>1, <2>4, <2>5
    <3> QED BY <1>1, <2>1, <2>2, <3>2, <3>3 DEF CronTypes
  <2>7. ChecksStand'
    <3>1. a = "create" \/ o.blind \/ o.raced \/ j \in hostJobs
      <4>1. a = "create" \/ snapshot = {} \/ j \in snapshot
        BY <2>1 DEF Valid
      <4>2. ASSUME j \in snapshot, j \notin hostJobs
            PROVE  o.raced
        BY <2>3, <4>2
      <4>3. snapshot = {} => o.blind
        BY <2>3
      <4> QED BY <4>1, <4>2, <4>3
    <3> QED BY <1>2, <2>1, <2>2, <3>1 DEF ChecksStand
  <2>8. PagesAreFair' /\ FailuresHaveACause' /\ OpsAreShown'
    BY <1>2, <2>1, <2>5 DEF PagesAreFair, FailuresHaveACause, OpsAreShown
  <2> QED BY <2>6, <2>7, <2>8 DEF CronInvariant
<1>4. ASSUME NEW o \in spool, Execute(o)
      PROVE  CronInvariant'
  <2> DEFINE rest == spool \ {o}
             d == [id |-> o.id, fell |-> o.action # "create" /\ o.job \notin hostJobs,
                   blind |-> o.blind, raced |-> o.raced]
  <2>1. /\ spool' = IF o.action = "run" THEN rest ELSE Raced(rest, o.job)
        /\ hostJobs' = CASE o.action = "create" -> hostJobs \cup {o.job}
                         [] o.action = "remove" -> hostJobs \ {o.job}
                         [] OTHER -> hostJobs
        /\ done' = Append(done, d) /\ snapshot' = hostJobs' /\ UNCHANGED opsPage
    BY <1>4 DEF Execute
  <2>2. o \in SpooledOps /\ o.id \in OpIds /\ o.job \in Jobs /\ o.blind \in BOOLEAN /\ o.raced \in BOOLEAN
    BY <1>1 DEF SpooledOps
  <2>3. d \in DoneOps /\ d.id = o.id /\ d.blind = o.blind /\ d.raced = o.raced
    BY <2>2 DEF DoneOps
  <2>4. d.fell => o.action # "create" /\ o.job \notin hostJobs
    OBVIOUS
  <2> HIDE DEF d
  <2>5. /\ done' \in Seq(DoneOps) /\ DOMAIN done' = 1..(Len(done) + 1) /\ DOMAIN done = 1..Len(done) /\ Len(done) \in Nat
        /\ \A i \in 1..Len(done) : done'[i] = done[i]
        /\ done'[Len(done) + 1] = d
    BY <1>1, <2>1, <2>3
  <2>6. DoneIds' = DoneIds \cup {o.id}
    BY <2>3, <2>5 DEF DoneIds
  <2>7. rest \subseteq SpooledOps /\ (\A p, q \in rest : p.id = q.id => p = q) /\ o.id \notin Ids(rest) /\ Ids(rest) \subseteq Ids(spool)
    BY <1>1 DEF Ids
  <2> HIDE DEF rest
  <2>8. /\ spool' \subseteq SpooledOps /\ Ids(spool') = Ids(rest) /\ \A p, q \in spool' : p.id = q.id => p = q
    <3>1. CASE o.action = "run"
      BY <2>1, <2>7, <3>1
    <3>2. CASE o.action # "run"
      BY <2>1, <2>7, <3>2, RacedOps
    <3> QED BY <3>1, <3>2
  <2>9. hostJobs' \subseteq Jobs /\ (\A j : j # o.job => (j \in hostJobs' <=> j \in hostJobs))
        /\ (o.action = "run" => hostJobs' = hostJobs)
    <3>1. CASE o.action = "create"
      BY <1>1, <2>1, <2>2, <3>1
    <3>2. CASE o.action = "remove"
      BY <1>1, <2>1, <2>2, <3>2
    <3>3. CASE o.action = "run"
      BY <1>1, <2>1, <2>2, <3>3
    <3> QED BY <2>2, <3>1, <3>2, <3>3 DEF SpooledOps
  <2>10. CronTypes'
    <3>1. DoneIds' \cap Ids(spool') = {}
      BY <1>1, <2>6, <2>7, <2>8
    <3> QED BY <1>1, <2>1, <2>5, <2>8, <2>9, <3>1 DEF CronTypes
  <2>11. ChecksStand'
    <3>1. \A p \in rest : p.action = "create" \/ p.blind \/ p.raced \/ p.job \in hostJobs
      BY <1>2 DEF ChecksStand, rest
    <3>2. CASE o.action = "run"
      BY <2>1, <2>9, <3>1, <3>2 DEF ChecksStand
    <3>3. CASE o.action # "run"
      <4>1. \A p \in spool' : (p.job = o.job => p.raced) /\ (p.job # o.job => p \in rest)
        BY <2>1, <2>7, <3>3, RacedOps
      <4> QED BY <2>9, <3>1, <4>1 DEF ChecksStand
    <3> QED BY <3>2, <3>3
  <2>12. FailuresHaveACause'
    <3>1. d.fell => d.blind \/ d.raced
      BY <1>2, <2>3, <2>4 DEF ChecksStand
    <3> QED BY <1>2, <2>5, <3>1 DEF FailuresHaveACause
  <2>13. PagesAreFair' /\ OpsAreShown'
    BY <1>2, <2>1, <2>6 DEF PagesAreFair, OpsAreShown
  <2> QED BY <2>10, <2>11, <2>12, <2>13 DEF CronInvariant
<1>5. ASSUME NEW j \in Jobs, HostEdit(j)
      PROVE  CronInvariant'
  <2>1. /\ hostJobs' = (hostJobs \cup {j}) \ (hostJobs \cap {j}) /\ spool' = Raced(spool, j)
        /\ UNCHANGED <<snapshot, done, opsPage>>
    BY <1>5 DEF HostEdit
  <2>2. /\ spool' \subseteq SpooledOps /\ Ids(spool') = Ids(spool)
        /\ \A o, p \in spool' : o.id = p.id => o = p
        /\ \A o \in spool' : (o.job = j => o.raced) /\ (o.job # j => o \in spool)
    BY <1>1, <2>1, RacedOps
  <2>3. hostJobs' \subseteq Jobs /\ \A i : i # j => (i \in hostJobs' <=> i \in hostJobs)
    BY <1>1, <2>1
  <2>4. DoneIds' = DoneIds
    BY <2>1 DEF DoneIds
  <2>5. CronTypes'
    BY <1>1, <2>1, <2>2, <2>3, <2>4 DEF CronTypes
  <2>6. ChecksStand'
    BY <1>2, <2>2, <2>3 DEF ChecksStand
  <2>7. PagesAreFair' /\ FailuresHaveACause' /\ OpsAreShown'
    BY <1>2, <2>1, <2>4 DEF PagesAreFair, FailuresHaveACause, OpsAreShown
  <2> QED BY <2>5, <2>6, <2>7 DEF CronInvariant
<1>6. ASSUME Collect
      PROVE  CronInvariant'
  <2>1. snapshot' = hostJobs /\ UNCHANGED <<hostJobs, spool, done, opsPage>>
    BY <1>6 DEF Collect
  <2>2. CronTypes' /\ ChecksStand'
    BY <1>1, <1>2, <2>1 DEF CronTypes, ChecksStand, DoneIds
  <2>3. PagesAreFair' /\ FailuresHaveACause' /\ OpsAreShown'
    BY <1>2, <2>1 DEF PagesAreFair, FailuresHaveACause, OpsAreShown, DoneIds
  <2> QED BY <2>2, <2>3 DEF CronInvariant
<1>7. ASSUME ListOps
      PROVE  CronInvariant'
  <2>1. /\ opsPage' = [at |-> "half", before |-> Used, pending |-> Ids(spool)]
        /\ UNCHANGED <<hostJobs, snapshot, spool, done>>
    BY <1>7 DEF ListOps
  <2>2. opsPage'.at = "half" /\ opsPage'.before = Used /\ opsPage'.pending = Ids(spool)
    BY <2>1
  <2>3. Used = Ids(spool) \cup DoneIds
    BY DEF Used, Ids, DoneIds
  <2>4. CronTypes' /\ ChecksStand' /\ FailuresHaveACause'
    BY <1>1, <1>2, <2>1 DEF CronTypes, ChecksStand, FailuresHaveACause, DoneIds
  <2>5. PagesAreFair' /\ OpsAreShown'
    BY <2>1, <2>2, <2>3 DEF PagesAreFair, OpsAreShown, DoneIds
  <2> QED BY <2>4, <2>5 DEF CronInvariant
<1>8. ASSUME ListDone
      PROVE  CronInvariant'
  <2>1. /\ opsPage.at = "half"
        /\ opsPage' = [at |-> "shown", before |-> opsPage.before, rows |-> opsPage.pending \cup ShownDone,
                       newest |-> Newest(DoneLimit), full |-> Len(done) > DoneLimit]
        /\ UNCHANGED <<hostJobs, snapshot, spool, done>>
    BY <1>8 DEF ListDone
  <2>2. CronTypes' /\ ChecksStand' /\ FailuresHaveACause' /\ PagesAreFair'
    BY <1>1, <1>2, <2>1 DEF CronTypes, ChecksStand, FailuresHaveACause, PagesAreFair, DoneIds
  <2>3. /\ opsPage'.before = opsPage.before /\ opsPage'.rows = opsPage.pending \cup ShownDone
        /\ opsPage'.full = (Len(done) > DoneLimit)
    BY <2>1
  <2>4. ASSUME ~(Len(done) > DoneLimit)
        PROVE  DoneIds \subseteq ShownDone
    <3>1. Used \ Ids(spool) = DoneIds
      BY <1>1 DEF Used, Ids, DoneIds
    <3>2. IsFiniteSet(DoneIds) /\ Cardinality(DoneIds) <= Len(done) /\ Len(done) \in Nat
      <4>1. Len(done) \in Nat /\ DOMAIN done = 1..Len(done)
        BY <1>1
      <4>2. IsFiniteSet(1..Len(done)) /\ Cardinality(1..Len(done)) = Len(done)
        BY <4>1, IntervalCardinality
      <4>3. PICK f : f = [i \in 1..Len(done) |-> done[i].id]
        OBVIOUS
      <4>4. f \in Surjection(1..Len(done), DoneIds)
        BY <4>1, <4>3 DEF Surjection, DoneIds
      <4>5. IsFiniteSet(DoneIds) /\ Cardinality(DoneIds) <= Cardinality(1..Len(done))
        BY ONLY <4>2, <4>4, FS_Surjection
      <4> QED BY <4>1, <4>2, <4>5
    <3>3. DoneIds \subseteq Int
      <4>1. \A i \in DOMAIN done : done[i] \in DoneOps
        BY <1>1
      <4> QED BY <4>1, CronAssumption DEF DoneIds, DoneOps
    <3>4. ASSUME NEW id \in DoneIds
          PROVE  Cardinality({x \in DoneIds : x > id}) < DoneLimit
      <4> DEFINE later == {x \in DoneIds : x > id}
      <4>1. later \in SUBSET (DoneIds \ {id})
        BY <3>3
      <4>2. IsFiniteSet(DoneIds \ {id}) /\ Cardinality(DoneIds \ {id}) = Cardinality(DoneIds) - 1
        BY <3>2, FS_RemoveElement
      <4> HIDE DEF later
      <4>3. IsFiniteSet(later) /\ Cardinality(later) <= Cardinality(DoneIds \ {id})
        BY <4>1, <4>2, FS_Subset
      <4>4. Cardinality(later) \in Nat /\ Cardinality(DoneIds) \in Nat
        BY <3>2, <4>3, FS_CardinalityType
      <4>5. Cardinality(later) < DoneLimit
        BY <2>4, <3>2, <4>2, <4>3, <4>4, CronAssumption
      <4> QED BY <4>5 DEF later
    <3> QED BY <3>1, <3>4 DEF ShownDone
  <2>5. OpsAreShown'
    BY <1>2, <2>1, <2>3, <2>4 DEF OpsAreShown, PagesAreFair
  <2> QED BY <2>2, <2>5 DEF CronInvariant
<1>9. CASE UNCHANGED cronVars
  BY <1>9 DEF cronVars, CronInvariant, CronTypes, ChecksStand, PagesAreFair, FailuresHaveACause, OpsAreShown, DoneIds
<1> QED BY <1>3, <1>4, <1>5, <1>6, <1>7, <1>8, <1>9 DEF CronNext

-----------------------------------------------------------------------------
(* The sources file.                                                         *)

Contents == SourceValues \cup {Torn, Opened}
Putting == [at : {"write", "rename"}, value : SourceValues, fd : Nat \ {0}]

FileTypes ==
  /\ file \in Seq(Contents)
  /\ temp \in 0..Len(file) /\ real \in 0..Len(file) /\ (temp = real => temp = NoFile)
  /\ put \in [Putters -> Putting \cup {Away}]
  /\ \A w \in Putters : put[w] # Away => put[w].fd <= Len(file)

(* As long as no two writers have met, there is one at most, and what it     *)
(* writes is the temporary file.                                             *)
AloneIsSafe ==
  ~met => /\ \A w, u \in Putters : put[w] # Away /\ put[u] # Away => w = u
          /\ \A w \in Putters : put[w] # Away =>
               /\ put[w].fd = temp
               /\ file[temp] = IF put[w].at = "write" THEN Opened ELSE put[w].value
          /\ real # NoFile => file[real] \in SourceValues

FileInvariant == FileTypes /\ AloneIsSafe

LEMMA FileStarts == FileInit => FileInvariant
<1> SUFFICES ASSUME FileInit PROVE FileInvariant
  OBVIOUS
<1>1. \A w \in Putters : put[w] = Away
  BY DEF FileInit
<1>2. FileTypes
  BY <1>1 DEF FileInit, FileTypes, NoFile
<1>3. AloneIsSafe
  BY <1>1 DEF FileInit, AloneIsSafe
<1> QED BY <1>2, <1>3 DEF FileInvariant

LEMMA FileStays == FileInvariant /\ [FileNext]_fileVars => FileInvariant'
<1> SUFFICES ASSUME FileInvariant, [FileNext]_fileVars PROVE FileInvariant'
  OBVIOUS
<1>1. /\ file \in Seq(Contents) /\ DOMAIN file = 1..Len(file) /\ Len(file) \in Nat
      /\ temp \in 0..Len(file) /\ real \in 0..Len(file) /\ (temp = real => temp = 0)
      /\ put \in [Putters -> Putting \cup {Away}]
      /\ \A w \in Putters : put[w] # Away => put[w].fd <= Len(file)
  BY DEF FileInvariant, FileTypes, NoFile
<1>2. AloneIsSafe
  BY DEF FileInvariant
<1>3. \A w \in Putters : put[w].at \in {"write", "rename"} => put[w] \in Putting /\ put[w] # Away
  BY <1>1 DEF Away
<1>4. \A p \in Putting : p # Away /\ p.at \in {"write", "rename"} /\ p.fd \in Nat \ {0} /\ p.value \in SourceValues
  BY DEF Putting, Away
<1>5. ASSUME NEW w \in Putters, NEW x \in SourceValues, OpenTemp(w, x)
      PROVE  FileInvariant'
  <2>1. PICK f : f = IF temp = NoFile THEN Len(file) + 1 ELSE temp
    OBVIOUS
  <2>2. PICK p : p = [at |-> "write", value |-> x, fd |-> f]
    OBVIOUS
  <2>3. /\ put[w] = Away
        /\ file' = IF temp = NoFile THEN Append(file, Opened) ELSE [file EXCEPT ![f] = Opened]
        /\ temp' = f /\ put' = [put EXCEPT ![w] = p]
        /\ met' = (met \/ \E u \in Putters : put[u] # Away)
        /\ real' = real
    BY <1>5, <2>1, <2>2 DEF OpenTemp
  <2>4. /\ file' \in Seq(Contents) /\ Len(file') \in Nat /\ Len(file) <= Len(file')
        /\ f \in 1..Len(file') /\ file'[f] = Opened /\ f # real
        /\ \A i \in 1..Len(file) : i # f => file'[i] = file[i]
    <3>1. Opened \in Contents
      BY DEF Contents
    <3>2. CASE temp = NoFile
      BY <1>1, <2>1, <2>3, <3>1, <3>2 DEF NoFile
    <3>3. CASE temp # NoFile
      BY <1>1, <2>1, <2>3, <3>1, <3>3 DEF NoFile
    <3> QED BY <3>2, <3>3
  <2>5. p \in Putting /\ p.at = "write" /\ p.fd = f /\ p # Away
    BY <2>2, <2>4 DEF Putting, Away
  <2>6. \A u \in Putters : put'[u] = IF u = w THEN p ELSE put[u]
    BY <1>1, <2>3
  <2>7. FileTypes'
    <3>1. put' \in [Putters -> Putting \cup {Away}]
      BY <1>1, <2>3, <2>5
    <3>2. ASSUME NEW u \in Putters, put'[u] # Away
          PROVE  put'[u].fd <= Len(file')
      <4>1. CASE u = w
        BY <2>4, <2>5, <2>6, <4>1
      <4>2. CASE u # w
        <5>1. put'[u] = put[u] /\ put[u].fd <= Len(file) /\ put[u] \in Putting
          BY <1>1, <2>6, <3>2, <4>2
        <5> QED BY <1>1, <1>4, <2>4, <5>1
      <4> QED BY <4>1, <4>2
    <3>3. temp' \in 0..Len(file') /\ real' \in 0..Len(file') /\ (temp' = real' => temp' = NoFile)
      BY <1>1, <2>3, <2>4
    <3> QED BY <2>4, <3>1, <3>2, <3>3 DEF FileTypes
  <2>8. AloneIsSafe'
    <3> SUFFICES ASSUME ~met' PROVE /\ \A u, v \in Putters : put'[u] # Away /\ put'[v] # Away => u = v
                                    /\ \A u \in Putters : put'[u] # Away =>
                                         /\ put'[u].fd = temp'
                                         /\ file'[temp'] = IF put'[u].at = "write" THEN Opened ELSE put'[u].value
                                    /\ real' # NoFile => file'[real'] \in SourceValues
      BY DEF AloneIsSafe
    <3>1. ~met /\ \A u \in Putters : put[u] = Away
      BY <2>3
    <3>2. \A u \in Putters : put'[u] # Away => u = w
      BY <2>6, <3>1
    <3>3. real # NoFile => file'[real] \in SourceValues
      BY <1>1, <1>2, <2>4, <3>1 DEF AloneIsSafe, NoFile
    <3> QED BY <2>3, <2>4, <2>5, <2>6, <3>2, <3>3
  <2> QED BY <2>7, <2>8 DEF FileInvariant
<1>6. ASSUME NEW w \in Putters, WriteText(w)
      PROVE  FileInvariant'
  <2>1. put[w] \in Putting /\ put[w].at = "write" /\ put[w] # Away
    BY <1>3, <1>6 DEF WriteText
  <2>2. PICK x \in IF file[put[w].fd] \in {Opened, put[w].value} THEN {put[w].value} ELSE {put[w].value, Torn} :
             file' = [file EXCEPT ![put[w].fd] = x]
    BY <1>6 DEF WriteText
  <2>3. PICK p : p = [put[w] EXCEPT !.at = "rename"]
    OBVIOUS
  <2>4. put' = [put EXCEPT ![w] = p] /\ UNCHANGED <<temp, real, met>>
    BY <1>6, <2>3 DEF WriteText
  <2>5. p \in Putting /\ p.at = "rename" /\ p.fd = put[w].fd /\ p.value = put[w].value /\ p # Away
    BY <2>1, <2>3 DEF Putting, Away
  <2>6. x \in Contents /\ put[w].fd \in 1..Len(file)
    BY <1>1, <1>4, <2>1, <2>2 DEF Contents
  <2>7. /\ file' \in Seq(Contents) /\ Len(file') = Len(file)
        /\ \A i \in 1..Len(file) : file'[i] = IF i = put[w].fd THEN x ELSE file[i]
    BY <1>1, <2>2, <2>6
  <2>8. \A u \in Putters : put'[u] = IF u = w THEN p ELSE put[u]
    BY <1>1, <2>4
  <2>9. FileTypes'
    <3>1. put' \in [Putters -> Putting \cup {Away}]
      BY <1>1, <2>4, <2>5
    <3>2. \A u \in Putters : put'[u] # Away => put'[u].fd <= Len(file')
      BY <1>1, <2>5, <2>6, <2>7, <2>8
    <3> QED BY <1>1, <2>4, <2>7, <3>1, <3>2 DEF FileTypes, NoFile
  <2>10. AloneIsSafe'
    <3> SUFFICES ASSUME ~met PROVE /\ \A u, v \in Putters : put'[u] # Away /\ put'[v] # Away => u = v
                                   /\ \A u \in Putters : put'[u] # Away =>
                                        /\ put'[u].fd = temp
                                        /\ file'[temp] = IF put'[u].at = "write" THEN Opened ELSE put'[u].value
                                   /\ real # NoFile => file'[real] \in SourceValues
      BY <2>4 DEF AloneIsSafe
    <3>1. put[w].fd = temp /\ file[temp] = Opened
      BY <1>2, <2>1 DEF AloneIsSafe
    <3>2. x = put[w].value
      BY <2>2, <3>1
    <3>3. \A u \in Putters : put'[u] # Away => u = w
      BY <1>2, <2>1, <2>8 DEF AloneIsSafe
    <3>4. real # NoFile => real # temp /\ file'[real] \in SourceValues
      BY <1>1, <1>2, <2>6, <2>7, <3>1 DEF AloneIsSafe, NoFile
    <3> QED BY <2>5, <2>6, <2>7, <2>8, <3>1, <3>2, <3>3, <3>4
  <2> QED BY <2>9, <2>10 DEF FileInvariant
<1>7. ASSUME NEW w \in Putters, RenameTemp(w)
      PROVE  FileInvariant'
  <2>1. /\ put[w].at = "rename" /\ put' = [put EXCEPT ![w] = Away] /\ UNCHANGED <<file, met>>
        /\ IF temp = NoFile THEN UNCHANGED <<temp, real>> ELSE real' = temp /\ temp' = NoFile
    BY <1>7 DEF RenameTemp
  <2>2. put[w] # Away /\ put[w] \in Putting
    BY <1>3, <2>1
  <2>3. \A u \in Putters : put'[u] = IF u = w THEN Away ELSE put[u]
    BY <1>1, <2>1
  <2>4. FileTypes'
    BY <1>1, <2>1, <2>3 DEF FileTypes, NoFile
  <2>5. AloneIsSafe'
    <3> SUFFICES ASSUME ~met PROVE /\ \A u \in Putters : put'[u] = Away
                                   /\ real' # NoFile => file[real'] \in SourceValues
      BY <2>1 DEF AloneIsSafe
    <3>1. \A u \in Putters : put'[u] = Away
      BY <1>2, <2>2, <2>3 DEF AloneIsSafe
    <3>2. file[temp] = put[w].value /\ put[w].value \in SourceValues
      BY <1>2, <1>4, <2>1, <2>2 DEF AloneIsSafe
    <3>3. real' # NoFile => file[real'] \in SourceValues
      BY <1>2, <2>1, <3>2 DEF AloneIsSafe
    <3> QED BY <3>1, <3>3
  <2> QED BY <2>4, <2>5 DEF FileInvariant
<1>8. ASSUME FileCrash
      PROVE  FileInvariant'
  <2>1. put' = [u \in Putters |-> Away] /\ UNCHANGED <<file, temp, real, met>>
    BY <1>8 DEF FileCrash
  <2>2. FileTypes'
    BY <1>1, <2>1 DEF FileTypes, NoFile
  <2>3. AloneIsSafe'
    BY <1>2, <2>1 DEF AloneIsSafe
  <2> QED BY <2>2, <2>3 DEF FileInvariant
<1>9. CASE UNCHANGED fileVars
  BY <1>9 DEF fileVars, FileInvariant, FileTypes, AloneIsSafe
<1> QED BY <1>5, <1>6, <1>7, <1>8, <1>9 DEF FileNext, PutStep

LEMMA FileIsRight ==
  ASSUME FileInvariant
  PROVE  FileTypeOK /\ SourcesAreWhole
<1>1. FileTypeOK
  BY DEF FileInvariant, FileTypes, FileTypeOK, Contents
<1>2. SourcesAreWhole
  BY FileAssumption DEF FileInvariant, AloneIsSafe, SourcesAreWhole, Sources
<1> QED BY <1>1, <1>2

LEMMA CronIsRight ==
  ASSUME CronInvariant
  PROVE  CronTypeOK /\ FailuresHaveACause /\ OpsAreShown
<1>1. \A i \in DOMAIN done : done[i] \in DoneOps /\ done[i].id \in DoneIds
  BY DEF CronInvariant, CronTypes, DoneIds
<1> QED BY <1>1 DEF CronInvariant, CronTypes, CronTypeOK, DoneOps

-----------------------------------------------------------------------------
(* Alerts: the quiet period of each key.                                     *)

Firings == [at : {"check", "mark", "record"}, key : AlertKeys, severity : Severities, when : 0..MaxAlertTime]
AlertRows == [key : AlertKeys, at : Nat, status : {"firing", "resolved"}, seen : BOOLEAN]

AlertTypes ==
  /\ lastFire \in [AlertKeys -> 0..MaxAlertTime]
  /\ live \in [AlertKeys -> {Quiet, "unseen", "seen"}]
  /\ alertRows \in Seq(AlertRows)
  /\ firing \in [Firers -> Firings \cup {Calm}]
  /\ now \in Cooldown..MaxAlertTime
  /\ rowsBefore \in Nat

Storing(f) == firing[f].at = "record"
Apart(a, b) == a + Cooldown <= b \/ b + Cooldown <= a

(* The alerts of a key that no two threads raised at once, stored ones and   *)
(* those on their way into the table, are a cooldown apart, and the last     *)
(* fire is the latest of them.                                               *)
CooldownsHold ==
  \A k \in AlertKeys \ twinFires :
    /\ \A i \in rowsBefore + 1 .. Len(alertRows) : alertRows[i].key = k =>
         /\ alertRows[i].at <= lastFire[k]
         /\ \A j \in rowsBefore + 1 .. Len(alertRows) :
              i # j /\ alertRows[j].key = k => Apart(alertRows[i].at, alertRows[j].at)
         /\ \A f \in Firers : Storing(f) /\ firing[f].key = k => Apart(alertRows[i].at, firing[f].when)
    /\ \A f \in Firers : Storing(f) /\ firing[f].key = k =>
         /\ firing[f].when <= lastFire[k]
         /\ \A g \in Firers : f # g /\ Storing(g) /\ firing[g].key = k => Apart(firing[f].when, firing[g].when)

AlertInvariant == AlertTypes /\ CooldownsHold /\ SilenceHasACause

LEMMA AlertsStart == AlertsInit => AlertInvariant
<1> SUFFICES ASSUME AlertsInit PROVE AlertInvariant
  OBVIOUS
<1>1. /\ \A f \in Firers : firing[f] = Calm /\ ~Storing(f)
      /\ alertRows = <<>> /\ Len(alertRows) = 0 /\ rowsBefore = 0 /\ now = Cooldown
      /\ \A k \in AlertKeys : lastFire[k] = 0
  BY DEF AlertsInit, Calm, Storing, Never, FirstTime
<1>2. AlertTypes
  BY <1>1, AlertAssumption DEF AlertsInit, AlertTypes, Never
<1>3. CooldownsHold
  BY <1>1 DEF CooldownsHold
<1>4. SilenceHasACause
  BY <1>1, AlertAssumption DEF SilenceHasACause, Cooled
<1> QED BY <1>2, <1>3, <1>4 DEF AlertInvariant

(* The row that an acknowledgement or a resolution changes is one of the     *)
(* table.                                                                    *)
LEMMA RowsAreFound ==
  ASSUME alertRows \in Seq(AlertRows), NEW k
  PROVE  RowFor(k) = 0 \/ RowFor(k) \in 1..Len(alertRows)
<1> DEFINE I == {i \in 1..Len(alertRows) : alertRows[i].key = k}
<1>1. RowFor(k) = IF I # {} THEN Min(I) ELSE 0
  BY DEF RowFor, SelectInSeq
<1>2. ASSUME I # {} PROVE Min(I) \in 1..Len(alertRows)
  <2>1. Len(alertRows) \in Nat /\ I \subseteq 1..Len(alertRows)
    OBVIOUS
  <2> HIDE DEF I
  <2>2. \E x \in I : \A y \in I : x <= y
    BY <1>2, <2>1, BoundsAreReached
  <2> QED BY <2>1, <2>2 DEF Min
<1> HIDE DEF I
<1> QED BY <1>1, <1>2

(* A step that raises no alert keeps the cooldowns.                          *)
LEMMA NothingRaised ==
  ASSUME AlertTypes, CooldownsHold, UNCHANGED <<lastFire, twinFires, rowsBefore>>,
         \A f \in Firers : Storing(f)' => Storing(f) /\ firing'[f] = firing[f],
         Len(alertRows') = Len(alertRows),
         \A i \in 1..Len(alertRows) : alertRows'[i].key = alertRows[i].key /\ alertRows'[i].at = alertRows[i].at
  PROVE  CooldownsHold'
<1>1. \A i \in rowsBefore + 1 .. Len(alertRows) : i \in 1..Len(alertRows)
  BY DEF AlertTypes
<1>2. SUFFICES ASSUME NEW k \in AlertKeys \ twinFires
               PROVE  /\ \A i \in rowsBefore + 1 .. Len(alertRows) : alertRows'[i].key = k =>
                           /\ alertRows'[i].at <= lastFire[k]
                           /\ \A j \in rowsBefore + 1 .. Len(alertRows) :
                                i # j /\ alertRows'[j].key = k => Apart(alertRows'[i].at, alertRows'[j].at)
                           /\ \A f \in Firers : Storing(f)' /\ firing'[f].key = k => Apart(alertRows'[i].at, firing'[f].when)
                      /\ \A f \in Firers : Storing(f)' /\ firing'[f].key = k =>
                           /\ firing'[f].when <= lastFire[k]
                           /\ \A g \in Firers : f # g /\ Storing(g)' /\ firing'[g].key = k
                                                => Apart(firing'[f].when, firing'[g].when)
  BY DEF CooldownsHold, Apart
<1>3. ASSUME NEW i \in rowsBefore + 1 .. Len(alertRows), alertRows'[i].key = k
      PROVE  /\ alertRows'[i].at <= lastFire[k]
             /\ \A j \in rowsBefore + 1 .. Len(alertRows) :
                  i # j /\ alertRows'[j].key = k => Apart(alertRows'[i].at, alertRows'[j].at)
             /\ \A f \in Firers : Storing(f)' /\ firing'[f].key = k => Apart(alertRows'[i].at, firing'[f].when)
  <2>1. alertRows[i].key = k /\ alertRows'[i].at = alertRows[i].at
    BY <1>1, <1>3
  <2>2. ASSUME NEW j \in rowsBefore + 1 .. Len(alertRows), i # j, alertRows'[j].key = k
        PROVE  Apart(alertRows'[i].at, alertRows'[j].at)
    <3>1. alertRows[j].key = k /\ alertRows'[j].at = alertRows[j].at
      BY <1>1, <2>2
    <3> QED BY <2>1, <2>2, <3>1 DEF CooldownsHold
  <2>3. ASSUME NEW f \in Firers, Storing(f)', firing'[f].key = k
        PROVE  Apart(alertRows'[i].at, firing'[f].when)
    BY <2>1, <2>3 DEF CooldownsHold
  <2> QED BY <2>1, <2>2, <2>3 DEF CooldownsHold
<1>4. ASSUME NEW f \in Firers, Storing(f)', firing'[f].key = k
      PROVE  /\ firing'[f].when <= lastFire[k]
             /\ \A g \in Firers : f # g /\ Storing(g)' /\ firing'[g].key = k
                                  => Apart(firing'[f].when, firing'[g].when)
  BY <1>4 DEF CooldownsHold
<1> QED BY <1>3, <1>4

(* A silence that had a cause has it still: no key starts to cool down.      *)
LEMMA SilenceStays ==
  ASSUME AlertTypes, SilenceHasACause, \A k \in AlertKeys : Cooled(k) => Cooled(k)',
         \A k \in AlertKeys : live[k] # Quiet \/ k \in hushed => live'[k] # Quiet \/ k \in hushed',
         \A f \in Firers : Storing(f) => Storing(f)' /\ firing'[f] = firing[f]
  PROVE  SilenceHasACause'
BY DEF SilenceHasACause, Storing

LEMMA AlertsStay == AlertInvariant /\ [AlertsNext]_alertVars => AlertInvariant'
<1> SUFFICES ASSUME AlertInvariant, [AlertsNext]_alertVars PROVE AlertInvariant'
  OBVIOUS
<1>1. /\ lastFire \in [AlertKeys -> 0..MaxAlertTime] /\ live \in [AlertKeys -> {Quiet, "unseen", "seen"}]
      /\ alertRows \in Seq(AlertRows) /\ Len(alertRows) \in Nat
      /\ firing \in [Firers -> Firings \cup {Calm}] /\ now \in Cooldown..MaxAlertTime /\ rowsBefore \in Nat
  BY DEF AlertInvariant, AlertTypes
<1>2. AlertTypes /\ CooldownsHold /\ SilenceHasACause
  BY DEF AlertInvariant
<1>3. \A f \in Firers : firing[f].at \in {"check", "mark", "record"} => firing[f] \in Firings
  BY <1>1 DEF Calm
<1>4. Calm.at = "idle" /\ Cooldown \in Nat /\ MaxAlertTime \in Nat /\ Cooldown <= MaxAlertTime
  BY AlertAssumption DEF Calm
<1>5. ASSUME NEW f \in Firers, NEW r \in Firings \cup {Calm}, r.at # "record", ~Storing(f),
             firing' = [firing EXCEPT ![f] = r],
             UNCHANGED <<lastFire, live, alertRows, now, twinFires, hushed, rowsBefore>>
      PROVE  AlertInvariant'
  <2>1. AlertTypes'
    BY <1>1, <1>5 DEF AlertTypes
  <2>2. \A g \in Firers : firing'[g] = IF g = f THEN r ELSE firing[g]
    BY <1>1, <1>5
  <2>3. CooldownsHold'
    BY <1>2, <1>5, <2>2, NothingRaised DEF Storing
  <2>4. SilenceHasACause'
    <3>1. \A k : Cooled(k) => Cooled(k)'
      BY <1>5 DEF Cooled
    <3> QED BY <1>2, <1>5, <2>2, <3>1, SilenceStays DEF Storing
  <2> QED BY <2>1, <2>3, <2>4 DEF AlertInvariant
<1>6. ASSUME NEW f \in Firers, NEW k \in AlertKeys, NEW s \in Severities, Fire(f, k, s)
      PROVE  AlertInvariant'
  <2>1. PICK r : r = [at |-> "check", key |-> k, severity |-> s, when |-> Never]
    OBVIOUS
  <2>2. r \in Firings /\ r.at = "check"
    BY <1>4, <2>1 DEF Firings, Never
  <2>3. ~Storing(f) /\ firing' = [firing EXCEPT ![f] = r]
    BY <1>4, <1>6, <2>1 DEF Fire, Storing
  <2> QED BY <1>5, <1>6, <2>2, <2>3 DEF Fire
<1>7. ASSUME NEW f \in Firers, Suppress(f)
      PROVE  AlertInvariant'
  BY <1>4, <1>5, <1>7 DEF Suppress, Storing
<1>8. ASSUME NEW f \in Firers, Pass(f)
      PROVE  AlertInvariant'
  <2>1. PICK r : r = [firing[f] EXCEPT !.at = "mark", !.when = now]
    OBVIOUS
  <2>2. r \in Firings /\ r.at = "mark" /\ firing' = [firing EXCEPT ![f] = r] /\ ~Storing(f)
    <3>1. firing[f] \in Firings /\ firing[f].at = "check"
      BY <1>3, <1>8 DEF Pass
    <3>2. r \in Firings /\ r.at = "mark"
      <4>1. now \in 0..MaxAlertTime
        BY <1>1, <1>4
      <4>2. PICK p \in Firings : p = firing[f]
        BY <3>1
      <4> QED BY <2>1, <4>1, <4>2 DEF Firings
    <3>3. firing' = [firing EXCEPT ![f] = r]
      BY <1>1, <1>8, <2>1, <3>1 DEF Pass
    <3> QED BY <3>1, <3>2, <3>3 DEF Storing
  <2> QED BY <1>5, <1>8, <2>2 DEF Pass
<1>9. ASSUME NEW f \in Firers, Mark(f)
      PROVE  AlertInvariant'
  <2> DEFINE k == firing[f].key
             when == firing[f].when
             r == [firing[f] EXCEPT !.at = "record"]
  <2>1. /\ firing[f].at = "mark" /\ firing[f] \in Firings
        /\ lastFire' = [lastFire EXCEPT ![k] = when]
        /\ twinFires' = IF when < lastFire[k] + Cooldown THEN twinFires \cup {k} ELSE twinFires
        /\ hushed' = hushed \ {k}
        /\ firing' = [firing EXCEPT ![f] = r]
        /\ UNCHANGED <<rule, live, alertRows, now, rowsBefore>>
    <3>1. firing[f].at = "mark" /\ firing[f] \in Firings
      BY <1>3, <1>9 DEF Mark
    <3> QED BY <1>1, <1>9, <3>1 DEF Mark
  <2>2. k \in AlertKeys /\ when \in 0..MaxAlertTime
    BY <2>1 DEF Firings
  <2>3. r \in Firings /\ r.at = "record" /\ r.key = k /\ r.when = when
    BY <2>1 DEF Firings
  <2>4. \A g \in Firers : firing'[g] = IF g = f THEN r ELSE firing[g]
    BY <1>1, <2>1
  <2> HIDE DEF k, when, r
  <2>5. \A l \in AlertKeys : lastFire'[l] = IF l = k THEN when ELSE lastFire[l]
    BY <1>1, <2>1
  <2>6. ~Storing(f) /\ Storing(f)' /\ \A g \in Firers : g # f => (Storing(g)' <=> Storing(g))
    BY <2>1, <2>3, <2>4 DEF Storing
  <2>7. AlertTypes'
    BY <1>1, <2>1, <2>2, <2>3 DEF AlertTypes
  <2>8. ASSUME NEW l \in AlertKeys \ twinFires', l # k
        PROVE  /\ \A i \in rowsBefore + 1 .. Len(alertRows) : alertRows[i].key = l =>
                    /\ alertRows[i].at <= lastFire'[l]
                    /\ \A j \in rowsBefore + 1 .. Len(alertRows) :
                         i # j /\ alertRows[j].key = l => Apart(alertRows[i].at, alertRows[j].at)
                    /\ \A g \in Firers : Storing(g)' /\ firing'[g].key = l => Apart(alertRows[i].at, firing'[g].when)
               /\ \A g \in Firers : Storing(g)' /\ firing'[g].key = l =>
                    /\ firing'[g].when <= lastFire'[l]
                    /\ \A h \in Firers : g # h /\ Storing(h)' /\ firing'[h].key = l => Apart(firing'[g].when, firing'[h].when)
    <3>1. l \in AlertKeys \ twinFires /\ lastFire'[l] = lastFire[l]
      BY <2>1, <2>5, <2>8
    <3>2. \A g \in Firers : Storing(g)' /\ firing'[g].key = l => Storing(g) /\ firing'[g] = firing[g] /\ firing[g].key = l
      BY <2>3, <2>4, <2>6, <2>8
    <3> QED BY <1>2, <3>1, <3>2 DEF CooldownsHold
  <2>9. ASSUME k \notin twinFires'
        PROVE  /\ \A i \in rowsBefore + 1 .. Len(alertRows) : alertRows[i].key = k =>
                    /\ alertRows[i].at <= lastFire'[k]
                    /\ \A j \in rowsBefore + 1 .. Len(alertRows) :
                         i # j /\ alertRows[j].key = k => Apart(alertRows[i].at, alertRows[j].at)
                    /\ \A g \in Firers : Storing(g)' /\ firing'[g].key = k => Apart(alertRows[i].at, firing'[g].when)
               /\ \A g \in Firers : Storing(g)' /\ firing'[g].key = k =>
                    /\ firing'[g].when <= lastFire'[k]
                    /\ \A h \in Firers : g # h /\ Storing(h)' /\ firing'[h].key = k => Apart(firing'[g].when, firing'[h].when)
    <3>1. k \in AlertKeys \ twinFires /\ ~(when < lastFire[k] + Cooldown)
      BY <2>1, <2>2, <2>9
    <3>2. lastFire[k] + Cooldown <= when /\ lastFire'[k] = when /\ lastFire[k] <= when /\ lastFire[k] \in Nat
      BY <1>1, <1>4, <2>2, <2>5, <3>1
    <3>3. ASSUME NEW i \in rowsBefore + 1 .. Len(alertRows), alertRows[i].key = k
          PROVE  /\ alertRows[i].at <= when /\ Apart(alertRows[i].at, when)
                 /\ \A j \in rowsBefore + 1 .. Len(alertRows) :
                      i # j /\ alertRows[j].key = k => Apart(alertRows[i].at, alertRows[j].at)
      <4>1. alertRows[i].at <= lastFire[k]
        BY <1>2, <3>1, <3>3 DEF CooldownsHold
      <4>2. alertRows[i].at \in Nat
        <5>1. i \in 1..Len(alertRows)
          BY <1>1
        <5>2. alertRows[i] \in AlertRows
          BY <1>1, <5>1
        <5> QED BY <5>2 DEF AlertRows
      <4>3. alertRows[i].at <= when /\ Apart(alertRows[i].at, when)
        BY <1>4, <2>2, <3>2, <4>1, <4>2 DEF Apart
      <4> QED BY <1>2, <3>1, <3>3, <4>3 DEF CooldownsHold
    <3>4. ASSUME NEW g \in Firers, g # f, Storing(g), firing[g].key = k
          PROVE  /\ firing[g].when <= when /\ Apart(firing[g].when, when) /\ Apart(when, firing[g].when)
      <4>1. firing[g].when <= lastFire[k]
        BY <1>2, <3>1, <3>4 DEF CooldownsHold
      <4>2. firing[g].when \in Nat
        <5>1. firing[g] \in Firings
          BY <1>3, <3>4 DEF Storing
        <5> QED BY <5>1 DEF Firings
      <4> QED BY <1>4, <2>2, <3>2, <4>1, <4>2 DEF Apart
    <3>5. ASSUME NEW i \in rowsBefore + 1 .. Len(alertRows), alertRows[i].key = k, NEW g \in Firers, Storing(g)', firing'[g].key = k
          PROVE  Apart(alertRows[i].at, firing'[g].when)
      <4>1. CASE g = f
        BY <2>3, <2>4, <3>3, <3>5, <4>1
      <4>2. CASE g # f
        BY <1>2, <2>4, <2>6, <3>1, <3>5, <4>2 DEF CooldownsHold
      <4> QED BY <4>1, <4>2
    <3>6. ASSUME NEW g \in Firers, Storing(g)', firing'[g].key = k
          PROVE  firing'[g].when <= when
      <4>1. CASE g = f
        BY <2>2, <2>3, <2>4, <4>1
      <4>2. CASE g # f
        BY <2>4, <2>6, <3>4, <3>6, <4>2
      <4> QED BY <4>1, <4>2
    <3>7. ASSUME NEW g \in Firers, Storing(g)', firing'[g].key = k, NEW h \in Firers, g # h, Storing(h)', firing'[h].key = k
          PROVE  Apart(firing'[g].when, firing'[h].when)
      <4>1. CASE g = f
        BY <2>3, <2>4, <2>6, <3>4, <3>7, <4>1
      <4>2. CASE h = f
        BY <2>3, <2>4, <2>6, <3>4, <3>7, <4>2
      <4>3. CASE g # f /\ h # f
        BY <1>2, <2>4, <2>6, <3>1, <3>7, <4>3 DEF CooldownsHold
      <4> QED BY <4>1, <4>2, <4>3
    <3> QED BY <3>2, <3>3, <3>5, <3>6, <3>7
  <2>10. CooldownsHold'
    <3>1. Len(alertRows') = Len(alertRows) /\ rowsBefore' = rowsBefore /\ alertRows' = alertRows
      BY <2>1
    <3> QED BY <2>8, <2>9, <3>1 DEF CooldownsHold, Apart
  <2>11. SilenceHasACause'
    <3> SUFFICES ASSUME NEW l \in AlertKeys, ~Cooled(l)'
                 PROVE  live'[l] # Quiet \/ (\E g \in Firers : firing'[g].at = "record" /\ firing'[g].key = l) \/ l \in hushed'
      BY DEF SilenceHasACause
    <3>1. CASE l = k
      BY <2>3, <2>4, <3>1
    <3>2. CASE l # k
      <4>1. ~Cooled(l)
        BY <2>1, <2>5, <3>2 DEF Cooled
      <4>2. live[l] # Quiet \/ (\E g \in Firers : firing[g].at = "record" /\ firing[g].key = l) \/ l \in hushed
        BY <1>2, <4>1 DEF SilenceHasACause
      <4>3. \A g \in Firers : firing[g].at = "record" => firing'[g] = firing[g]
        BY <2>4, <2>6 DEF Storing
      <4> QED BY <2>1, <3>2, <4>2, <4>3
    <3> QED BY <3>1, <3>2
  <2> QED BY <2>7, <2>10, <2>11 DEF AlertInvariant
<1>10. ASSUME NEW f \in Firers, NEW ok \in BOOLEAN, Record(f, ok)
       PROVE  AlertInvariant'
  <2> DEFINE k == firing[f].key
             when == firing[f].when
             row == [key |-> k, at |-> when, status |-> "firing", seen |-> FALSE]
  <2>1. /\ firing[f].at = "record" /\ live' = [live EXCEPT ![k] = "unseen"]
        /\ alertRows' = IF ok THEN Append(alertRows, row) ELSE alertRows
        /\ firing' = [firing EXCEPT ![f] = Calm]
        /\ UNCHANGED <<rule, lastFire, now, twinFires, hushed, rowsBefore>>
    BY <1>10 DEF Record
  <2>2. k \in AlertKeys /\ when \in 0..MaxAlertTime /\ Storing(f)
    BY <1>3, <2>1 DEF Firings, Storing
  <2>3. row \in AlertRows /\ row.key = k /\ row.at = when
    BY <2>2 DEF AlertRows
  <2>4. /\ \A g \in Firers : firing'[g] = IF g = f THEN Calm ELSE firing[g]
        /\ \A l \in AlertKeys : live'[l] = IF l = k THEN "unseen" ELSE live[l]
    BY <1>1, <2>1
  <2>5. \A g \in Firers : Storing(g)' => g # f /\ Storing(g) /\ firing'[g] = firing[g]
    BY <1>4, <2>4 DEF Storing
  <2> HIDE DEF k, when, row
  <2>6. AlertTypes'
    <3>1. alertRows' \in Seq(AlertRows)
      BY <1>1, <2>1, <2>3
    <3>2. firing' \in [Firers -> Firings \cup {Calm}] /\ live' \in [AlertKeys -> {Quiet, "unseen", "seen"}]
      BY <1>1, <2>1
    <3> QED BY <1>1, <2>1, <3>1, <3>2 DEF AlertTypes
  <2>7. CooldownsHold'
    <3>1. CASE ~ok
      BY <1>2, <2>1, <2>5, <3>1, NothingRaised
    <3>2. CASE ok
      <4>1. /\ Len(alertRows') = Len(alertRows) + 1 /\ alertRows'[Len(alertRows) + 1] = row
            /\ \A i \in 1..Len(alertRows) : alertRows'[i] = alertRows[i]
        BY <1>1, <2>1, <2>3, <3>2
      <4>2. \A i \in rowsBefore + 1 .. Len(alertRows') :
              \/ i \in rowsBefore + 1 .. Len(alertRows) /\ alertRows'[i] = alertRows[i]
              \/ i = Len(alertRows) + 1 /\ alertRows'[i] = row
        BY <1>1, <4>1
      <4> SUFFICES ASSUME NEW l \in AlertKeys \ twinFires'
                   PROVE  /\ \A i \in rowsBefore' + 1 .. Len(alertRows') : alertRows'[i].key = l =>
                               /\ alertRows'[i].at <= lastFire'[l]
                               /\ \A j \in rowsBefore' + 1 .. Len(alertRows') :
                                    i # j /\ alertRows'[j].key = l => Apart(alertRows'[i].at, alertRows'[j].at)
                               /\ \A g \in Firers : Storing(g)' /\ firing'[g].key = l => Apart(alertRows'[i].at, firing'[g].when)
                          /\ \A g \in Firers : Storing(g)' /\ firing'[g].key = l =>
                               /\ firing'[g].when <= lastFire'[l]
                               /\ \A h \in Firers : g # h /\ Storing(h)' /\ firing'[h].key = l
                                                    => Apart(firing'[g].when, firing'[h].when)
        BY DEF CooldownsHold, Apart
      <4>6. l \in AlertKeys \ twinFires
        BY <2>1
      <4>3. ASSUME NEW i \in rowsBefore + 1 .. Len(alertRows'), alertRows'[i].key = l
            PROVE  /\ alertRows'[i].at <= lastFire[l]
                   /\ \A g \in Firers : Storing(g)' /\ firing'[g].key = l => Apart(alertRows'[i].at, firing'[g].when)
        <5>1. CASE i \in rowsBefore + 1 .. Len(alertRows) /\ alertRows'[i] = alertRows[i]
          BY <1>2, <2>5, <4>3, <5>1, <4>6 DEF CooldownsHold
        <5>2. CASE alertRows'[i] = row
          <6>1. l = k /\ alertRows'[i].at = firing[f].when /\ firing[f].key = l
            BY <2>3, <4>3, <5>2 DEF k, when
          <6> QED BY <1>2, <2>2, <2>5, <6>1, <4>6 DEF CooldownsHold
        <5> QED BY <4>2, <5>1, <5>2
      <4>4. ASSUME NEW i \in rowsBefore + 1 .. Len(alertRows'), alertRows'[i].key = l,
                   NEW j \in rowsBefore + 1 .. Len(alertRows'), alertRows'[j].key = l, i # j
            PROVE  Apart(alertRows'[i].at, alertRows'[j].at)
        <5>1. CASE i \in rowsBefore + 1 .. Len(alertRows) /\ j \in rowsBefore + 1 .. Len(alertRows)
          <6>1. alertRows'[i] = alertRows[i] /\ alertRows'[j] = alertRows[j]
            BY <1>1, <4>1, <5>1
          <6> QED BY <1>2, <4>4, <5>1, <6>1, <4>6 DEF CooldownsHold
        <5>2. CASE i = Len(alertRows) + 1
          <6>1. l = k /\ alertRows'[i].at = firing[f].when /\ firing[f].key = l
            BY <2>3, <4>1, <4>4, <5>2 DEF k, when
          <6>2. j \in rowsBefore + 1 .. Len(alertRows) /\ alertRows'[j] = alertRows[j]
            BY <4>2, <4>4, <5>2
          <6>3. Apart(alertRows[j].at, firing[f].when)
            BY <1>2, <2>2, <4>4, <6>1, <6>2, <4>6 DEF CooldownsHold
          <6> QED BY <6>1, <6>2, <6>3 DEF Apart
        <5>3. CASE j = Len(alertRows) + 1
          <6>1. l = k /\ alertRows'[j].at = firing[f].when /\ firing[f].key = l
            BY <2>3, <4>1, <4>4, <5>3 DEF k, when
          <6>2. i \in rowsBefore + 1 .. Len(alertRows) /\ alertRows'[i] = alertRows[i]
            BY <4>2, <4>4, <5>3
          <6> QED BY <1>2, <2>2, <4>4, <6>1, <6>2, <4>6 DEF CooldownsHold
        <5> QED BY <4>2, <5>1, <5>2, <5>3
      <4>5. ASSUME NEW g \in Firers, Storing(g)', firing'[g].key = l
            PROVE  /\ firing'[g].when <= lastFire[l]
                   /\ \A h \in Firers : g # h /\ Storing(h)' /\ firing'[h].key = l
                                        => Apart(firing'[g].when, firing'[h].when)
        BY <1>2, <2>5, <4>5, <4>6 DEF CooldownsHold
      <4> QED BY <2>1, <4>3, <4>4, <4>5
    <3> QED BY <3>1, <3>2
  <2>8. SilenceHasACause'
    <3> SUFFICES ASSUME NEW l \in AlertKeys, ~Cooled(l)'
                 PROVE  live'[l] # Quiet \/ (\E g \in Firers : firing'[g].at = "record" /\ firing'[g].key = l) \/ l \in hushed'
      BY DEF SilenceHasACause
    <3>1. ~Cooled(l)
      BY <2>1 DEF Cooled
    <3>2. CASE l = k
      BY <2>4, <3>2 DEF Quiet
    <3>3. CASE l # k
      <4>1. live[l] # Quiet \/ (\E g \in Firers : firing[g].at = "record" /\ firing[g].key = l) \/ l \in hushed
        BY <1>2, <3>1 DEF SilenceHasACause
      <4>2. \A g \in Firers : firing[g].key = l => g # f
        BY <3>3 DEF k
      <4> QED BY <2>1, <2>4, <3>3, <4>1, <4>2
    <3> QED BY <3>2, <3>3
  <2> QED BY <2>6, <2>7, <2>8 DEF AlertInvariant
<1>11. ASSUME NEW k \in AlertKeys, Acknowledge(k) \/ Resolve(k)
       PROVE  AlertInvariant'
  <2>1. UNCHANGED <<lastFire, firing, now, twinFires, rowsBefore>>
    BY <1>11 DEF Acknowledge, Resolve, AlertOp
  <2>2. /\ alertRows' \in Seq(AlertRows) /\ Len(alertRows') = Len(alertRows)
        /\ \A i \in 1..Len(alertRows) : alertRows'[i].key = alertRows[i].key /\ alertRows'[i].at = alertRows[i].at
    <3>1. CASE RowFor(k) = 0
      BY <1>1, <1>11, <3>1 DEF Acknowledge, Resolve
    <3>2. CASE RowFor(k) # 0
      <4>1. PICK n : n = RowFor(k)
        OBVIOUS
      <4>2. n \in 1..Len(alertRows) /\ alertRows[n] \in AlertRows
        BY <1>1, <3>2, <4>1, RowsAreFound
      <4>3. PICK row \in AlertRows : /\ row.key = alertRows[n].key /\ row.at = alertRows[n].at
                                     /\ alertRows' = [alertRows EXCEPT ![n] = row]
        <5>1. CASE Acknowledge(k)
          <6>1. [alertRows[n] EXCEPT !.seen = TRUE] \in AlertRows
                /\ [alertRows[n] EXCEPT !.seen = TRUE].key = alertRows[n].key
                /\ [alertRows[n] EXCEPT !.seen = TRUE].at = alertRows[n].at
            BY <4>2 DEF AlertRows
          <6>2. alertRows' = [alertRows EXCEPT ![n] = [alertRows[n] EXCEPT !.seen = TRUE]]
            BY <1>1, <3>2, <4>1, <4>2, <5>1 DEF Acknowledge
          <6> QED BY <6>1, <6>2
        <5>2. CASE Resolve(k)
          <6>1. [alertRows[n] EXCEPT !.status = "resolved"] \in AlertRows
                /\ [alertRows[n] EXCEPT !.status = "resolved"].key = alertRows[n].key
                /\ [alertRows[n] EXCEPT !.status = "resolved"].at = alertRows[n].at
            BY <4>2 DEF AlertRows
          <6>2. alertRows' = [alertRows EXCEPT ![n] = [alertRows[n] EXCEPT !.status = "resolved"]]
            BY <1>1, <3>2, <4>1, <4>2, <5>2 DEF Resolve
          <6> QED BY <6>1, <6>2
        <5> QED BY <1>11, <5>1, <5>2
      <4>4. /\ alertRows' \in Seq(AlertRows) /\ Len(alertRows') = Len(alertRows)
            /\ \A i \in 1..Len(alertRows) : alertRows'[i] = IF i = n THEN row ELSE alertRows[i]
        BY <1>1, <4>2, <4>3
      <4> QED BY <4>3, <4>4
    <3> QED BY <3>1, <3>2
  <2>3. /\ live' \in [AlertKeys -> {Quiet, "unseen", "seen"}]
        /\ \A l \in AlertKeys : live[l] # Quiet \/ l \in hushed => live'[l] # Quiet \/ l \in hushed'
    <3>1. CASE Acknowledge(k)
      BY <1>1, <3>1 DEF Acknowledge, Quiet
    <3>2. CASE Resolve(k)
      BY <1>1, <3>2 DEF Resolve
    <3> QED BY <1>11, <3>1, <3>2
  <2>4. AlertTypes'
    BY <1>1, <2>1, <2>2, <2>3 DEF AlertTypes
  <2>5. CooldownsHold'
    BY <1>2, <2>1, <2>2, NothingRaised DEF Storing
  <2>6. SilenceHasACause'
    <3>1. \A l : Cooled(l) => Cooled(l)'
      BY <2>1 DEF Cooled
    <3> QED BY <1>2, <2>1, <2>3, <3>1, SilenceStays DEF Storing
  <2> QED BY <2>4, <2>5, <2>6 DEF AlertInvariant
<1>12. ASSUME NEW r, UpdateRule(r)
       PROVE  AlertInvariant'
  <2>1. UNCHANGED <<lastFire, live, alertRows, firing, now, twinFires, hushed, rowsBefore>>
    BY <1>12 DEF UpdateRule, AlertOp
  <2> QED BY <1>2, <2>1 DEF AlertInvariant, AlertTypes, CooldownsHold, Storing, Apart, SilenceHasACause, Cooled
<1>13. ASSUME AlertTick
       PROVE  AlertInvariant'
  <2>1. /\ now < MaxAlertTime /\ now' = now + 1
        /\ UNCHANGED <<lastFire, live, alertRows, firing, twinFires, hushed, rowsBefore>>
    BY <1>13 DEF AlertTick
  <2>2. AlertTypes'
    BY <1>1, <1>4, <2>1 DEF AlertTypes
  <2>3. CooldownsHold'
    BY <1>2, <2>1 DEF CooldownsHold, Storing, Apart
  <2>4. \A k \in AlertKeys : Cooled(k) => Cooled(k)'
    BY <1>1, <1>4, <2>1 DEF Cooled
  <2>5. SilenceHasACause'
    BY <1>2, <2>1, <2>4 DEF SilenceHasACause
  <2> QED BY <2>2, <2>3, <2>5 DEF AlertInvariant
<1>14. ASSUME AlertRestart
       PROVE  AlertInvariant'
  <2>1. /\ lastFire' = [k \in AlertKeys |-> Never] /\ live' = [k \in AlertKeys |-> Quiet]
        /\ firing' = [f \in Firers |-> Calm] /\ twinFires' = {} /\ hushed' = {} /\ rowsBefore' = Len(alertRows)
        /\ UNCHANGED <<alertRows, now>>
    BY <1>14 DEF AlertRestart
  <2>2. AlertTypes'
    BY <1>1, <1>4, <2>1 DEF AlertTypes, Never
  <2>3. CooldownsHold'
    BY <1>1, <1>4, <2>1 DEF CooldownsHold, Storing, Apart
  <2>4. SilenceHasACause'
    <3>1. \A k \in AlertKeys : Cooled(k)'
      BY <1>1, <1>4, <2>1 DEF Cooled, Never
    <3> QED BY <3>1 DEF SilenceHasACause
  <2> QED BY <2>2, <2>3, <2>4 DEF AlertInvariant
<1>15. CASE UNCHANGED alertVars
  BY <1>2, <1>15 DEF alertVars, AlertInvariant, AlertTypes, CooldownsHold, Storing, Apart, SilenceHasACause, Cooled
<1> QED BY <1>6, <1>7, <1>8, <1>9, <1>10, <1>11, <1>12, <1>13, <1>14, <1>15 DEF AlertsNext

LEMMA AlertsAreRight ==
  ASSUME AlertInvariant
  PROVE  AlertsTypeOK /\ QuietPeriodHolds /\ SilenceHasACause
<1>1. AlertsTypeOK
  <2>1. \A i \in DOMAIN alertRows : alertRows[i] \in AlertRows
    BY DEF AlertInvariant, AlertTypes
  <2> QED BY <2>1 DEF AlertInvariant, AlertTypes, AlertsTypeOK, AlertRows, Firings, Calm
<1>2. QuietPeriodHolds
  <2> SUFFICES ASSUME NEW i \in rowsBefore + 1 .. Len(alertRows), NEW j \in rowsBefore + 1 .. Len(alertRows),
                      i # j, alertRows[i].key = alertRows[j].key, alertRows[i].key \notin twinFires,
                      alertRows[i].at <= alertRows[j].at
               PROVE  alertRows[j].at >= alertRows[i].at + Cooldown
    BY DEF QuietPeriodHolds
  <2>1. i \in 1..Len(alertRows) /\ j \in 1..Len(alertRows)
    BY DEF AlertInvariant, AlertTypes
  <2>2. alertRows[i] \in AlertRows /\ alertRows[j] \in AlertRows
    BY <2>1 DEF AlertInvariant, AlertTypes
  <2>3. alertRows[i].key \in AlertKeys /\ alertRows[i].at \in Nat /\ alertRows[j].at \in Nat
    BY <2>2 DEF AlertRows
  <2>4. Apart(alertRows[i].at, alertRows[j].at)
    BY <2>3 DEF AlertInvariant, CooldownsHold
  <2> QED BY <2>3, <2>4, AlertAssumption DEF Apart
<1> QED BY <1>1, <1>2 DEF AlertInvariant

-----------------------------------------------------------------------------
(* What each provider of a chain is sent of a conversation.                  *)

(* What normalize_messages_for_cache leaves alone.                           *)
Proper(msg) ==
  /\ msg \in Message
  /\ msg.role # "assistant" => msg.calls = <<>> /\ msg.reasoning = NoReasoning
  /\ msg.role # "tool" => msg.answers = NoId

(* What sanitize_messages leaves alone too.                                  *)
Clean(h) == h \in Seq(Message) /\ (\A n \in DOMAIN h : Proper(h[n])) /\ Declared(h) = Referenced(h)

(* Conversations that differ in their reasoning only.                        *)
SameButReasoning(g, h) ==
  /\ DOMAIN g = DOMAIN h
  /\ \A n \in DOMAIN h : /\ g[n].role = h[n].role /\ g[n].text = h[n].text
                         /\ g[n].calls = h[n].calls /\ g[n].answers = h[n].answers

Spoken(h) == {n \in DOMAIN h : h[n].text}
CallsOf(msg) == {msg.calls[k] : k \in DOMAIN msg.calls}

(* Normalizing a message takes the fields its role may not carry, no others. *)
LEMMA NormalizedMessage ==
  ASSUME NEW msg \in Message
  PROVE  /\ Proper(NormalizeMessage(msg))
         /\ NormalizeMessage(msg).text = msg.text /\ NormalizeMessage(msg).role = msg.role
         /\ msg.role = "assistant" => /\ NormalizeMessage(msg).calls = msg.calls
                                      /\ NormalizeMessage(msg).reasoning = msg.reasoning
         /\ Proper(msg) => NormalizeMessage(msg) = msg
<1>1. NoReasoning \in Reasoning /\ <<>> \in Seq(CallIds)
  BY DEF Reasoning
<1>2. PICK r : r = NormalizeMessage(msg)
  OBVIOUS
<1>3. r = [role |-> msg.role, text |-> msg.text,
           calls |-> IF msg.role = "assistant" THEN msg.calls ELSE <<>>,
           answers |-> IF msg.role = "tool" THEN msg.answers ELSE NoId,
           reasoning |-> IF msg.role = "assistant" THEN msg.reasoning ELSE NoReasoning]
  BY <1>2 DEF NormalizeMessage, Message
<1>4. r \in Message
  BY <1>1, <1>3 DEF Message
<1>5. msg = [role |-> msg.role, text |-> msg.text, calls |-> msg.calls, answers |-> msg.answers,
             reasoning |-> msg.reasoning]
  BY DEF Message
<1>6. Proper(r) /\ r.text = msg.text /\ r.role = msg.role
      /\ (msg.role = "assistant" => r.calls = msg.calls /\ r.reasoning = msg.reasoning)
  BY <1>3, <1>4 DEF Proper
<1>7. Proper(msg) => r = msg
  BY <1>3, <1>5 DEF Proper
<1> QED BY <1>2, <1>6, <1>7

(* What a client sends, with the fields a role may carry.                    *)
LEMMA Normalized ==
  ASSUME NEW h \in Seq(Message)
  PROVE  /\ Normalize(h) \in Seq(Message) /\ DOMAIN Normalize(h) = DOMAIN h
         /\ \A n \in DOMAIN h :
              /\ Proper(Normalize(h)[n]) /\ Normalize(h)[n].text = h[n].text
              /\ (h[n].role = "assistant" => OfOneTurn(h[n])) => OfOneTurn(Normalize(h)[n])
         /\ (\A n \in DOMAIN h : Proper(h[n])) => Normalize(h) = h
<1>1. Len(h) \in Nat /\ DOMAIN h = 1..Len(h) /\ \A n \in 1..Len(h) : h[n] \in Message
  OBVIOUS
<1>2. /\ Normalize(h) = [n \in 1..Len(h) |-> NormalizeMessage(h[n])]
      /\ \A n \in DOMAIN h : Normalize(h)[n] = NormalizeMessage(h[n])
  BY <1>1 DEF Normalize
<1>3. \A n \in DOMAIN h : Proper(Normalize(h)[n]) /\ Normalize(h)[n].text = h[n].text
  BY <1>1, <1>2, NormalizedMessage
<1>4. Normalize(h) \in Seq(Message)
  <2>1. \A n \in 1..Len(h) : NormalizeMessage(h[n]) \in Message
    BY <1>1, NormalizedMessage DEF Proper
  <2> QED BY <1>1, <1>2, <2>1
<1>5. ASSUME NEW n \in DOMAIN h, h[n].role = "assistant" => OfOneTurn(h[n]) PROVE OfOneTurn(Normalize(h)[n])
  <2>1. PICK m \in Message : m = h[n]
    BY <1>1
  <2>2. PICK r : r = Normalize(h)[n]
    OBVIOUS
  <2>3. Proper(r) /\ r.role = m.role /\ (m.role = "assistant" => r.calls = m.calls /\ r.reasoning = m.reasoning)
    BY <1>2, <2>1, <2>2, NormalizedMessage
  <2>4. CASE m.role = "assistant"
    BY <1>5, <2>1, <2>2, <2>3, <2>4 DEF OfOneTurn
  <2>5. CASE m.role # "assistant"
    <3>1. r.calls = <<>>
      BY <2>3, <2>5 DEF Proper
    <3> QED BY <2>2, <3>1 DEF OfOneTurn
  <2> QED BY <2>4, <2>5
<1>6. (\A n \in DOMAIN h : Proper(h[n])) => Normalize(h) = h
  <2> SUFFICES ASSUME \A n \in DOMAIN h : Proper(h[n]) PROVE Normalize(h) = h
    OBVIOUS
  <2>1. \A n \in 1..Len(h) : NormalizeMessage(h[n]) = h[n]
    BY <1>1, NormalizedMessage
  <2>2. Normalize(h) = [n \in 1..Len(h) |-> h[n]]
    BY <1>2, <2>1
  <2> QED BY <1>1, <2>2
<1> QED BY <1>2, <1>3, <1>4, <1>5, <1>6, <1>1

-----------------------------------------------------------------------------
(* The ids of a conversation, read off from its messages.                    *)
LEMMA IdsOfTalks ==
  ASSUME NEW h, NEW c
  PROVE  /\ c \in Declared(h) <=> \E n \in DOMAIN h : IsCall(h[n]) /\ c \in CallsOf(h[n])
         /\ c \in Referenced(h) <=> c # NoId /\ \E n \in DOMAIN h : h[n].role = "tool" /\ h[n].answers = c
BY DEF Declared, Referenced, CallsOf

(* A message that is repaired keeps its text; it keeps the calls that stay   *)
(* and it answers what it answered, or else it is no answer any more.        *)
LEMMA Repaired ==
  ASSUME NEW m, Proper(m), NEW removed, removed \subseteq CallIds
  PROVE  LET r == Repair(m, removed) IN
         /\ r = Dropped \/ Proper(r)
         /\ r = Dropped => ~m.text /\ m.role = "assistant" /\ CallsOf(m) \subseteq removed
         /\ r # Dropped => /\ r.text = m.text /\ CallsOf(r) = CallsOf(m) \ removed
                           /\ r.role = "assistant" <=> m.role = "assistant"
                           /\ r.role = "tool" <=> m.role = "tool" /\ m.answers \notin removed
                           /\ r.role = "tool" => r.answers = m.answers
                           /\ r.reasoning = m.reasoning
         /\ removed = {} => r = m
<1>1. m \in Message /\ m.calls \in Seq(CallIds) /\ m.role \in {"system", "user", "assistant", "tool"}
  BY DEF Proper, Message
<1>2. m = [role |-> m.role, text |-> m.text, calls |-> m.calls, answers |-> m.answers, reasoning |-> m.reasoning]
  BY <1>1 DEF Message
<1>3. PICK r : r = Repair(m, removed)
  OBVIOUS
<1>4. m # Dropped
  BY <1>1 DEF Dropped
<1>5. CASE m.role = "tool" /\ m.answers \in removed
  <2>1. r = [role |-> "user", text |-> m.text, calls |-> m.calls, answers |-> NoId, reasoning |-> m.reasoning]
    BY <1>2, <1>3, <1>5 DEF Repair
  <2>2. m.calls = <<>> /\ m.reasoning = NoReasoning
    BY <1>5 DEF Proper
  <2>3. r \in Message /\ Proper(r)
    BY <1>1, <2>1, <2>2 DEF Proper, Message
  <2>4. r.role = "user" /\ r.text = m.text /\ CallsOf(r) = {} /\ CallsOf(m) = {} /\ r.reasoning = m.reasoning
    BY <2>1, <2>2 DEF CallsOf
  <2>5. r # Dropped
    BY <2>4 DEF Dropped
  <2> QED BY <1>3, <1>5, <2>3, <2>4, <2>5
<1>6. CASE ~(m.role = "tool" /\ m.answers \in removed) /\ ~IsCall(m)
  <2>1. r = m
    BY <1>3, <1>6 DEF Repair
  <2>2. CallsOf(m) = {}
    BY <1>6 DEF IsCall, Proper, CallsOf
  <2> QED BY <1>3, <1>4, <1>6, <2>1, <2>2
<1>7. CASE IsCall(m)
  <2> DEFINE P == {k \in DOMAIN m.calls : m.calls[k] \notin removed}
  <2>1. PICK kept : kept = Selected(m.calls, P)
    OBVIOUS
  <2>2. m.role = "assistant" /\ m.answers = NoId
    BY <1>7 DEF IsCall, Proper
  <2>3. r = IF kept # <<>> \/ m.text THEN [m EXCEPT !.calls = kept] ELSE Dropped
    BY <1>3, <1>7, <2>1, <2>2 DEF Repair
  <2>4. /\ kept \in Seq(CallIds)
        /\ \A n \in DOMAIN kept : \E i \in P : kept[n] = m.calls[i]
        /\ \A i \in P : \E n \in DOMAIN kept : kept[n] = m.calls[i]
    <3>1. P \subseteq DOMAIN m.calls
      OBVIOUS
    <3> HIDE DEF P
    <3>2. kept \in Seq(CallIds)
      BY <1>1, <2>1, <3>1, SelectedType
    <3>3. /\ \A n \in DOMAIN kept : \E i \in P : kept[n] = m.calls[i]
          /\ \A i \in P : \E n \in DOMAIN kept : kept[n] = m.calls[i]
      BY <1>1, <2>1, <3>1, SelectedElements
    <3> QED BY <3>2, <3>3
  <2>5. {kept[n] : n \in DOMAIN kept} = CallsOf(m) \ removed
    BY <2>4 DEF CallsOf
  <2>6. removed = {} => kept = m.calls
    <3> SUFFICES ASSUME removed = {} PROVE kept = m.calls
      OBVIOUS
    <3>1. P = DOMAIN m.calls
      OBVIOUS
    <3> QED BY <1>1, <2>1, <3>1, AllSelected
  <2>7. CASE kept # <<>> \/ m.text
    <3>1. r = [role |-> m.role, text |-> m.text, calls |-> kept, answers |-> m.answers, reasoning |-> m.reasoning]
      BY <1>2, <2>3, <2>7
    <3>2. r \in Message /\ Proper(r)
      BY <1>1, <2>2, <2>4, <3>1 DEF Proper, Message
    <3>3. r # Dropped
      BY <3>1, <2>2 DEF Dropped
    <3>4. r.text = m.text /\ r.role = m.role /\ r.answers = m.answers /\ r.reasoning = m.reasoning
          /\ r.calls = kept /\ CallsOf(r) = CallsOf(m) \ removed
      BY <2>5, <3>1 DEF CallsOf
    <3>5. removed = {} => r = m
      BY <1>2, <2>6, <3>1
    <3> QED BY <1>3, <2>2, <3>2, <3>3, <3>4, <3>5
  <2>8. CASE kept = <<>> /\ ~m.text
    <3>1. r = Dropped
      BY <2>3, <2>8
    <3>2. CallsOf(m) \subseteq removed
      BY <2>5, <2>8
    <3>3. removed # {}
      BY <1>7, <2>6, <2>8 DEF IsCall
    <3> QED BY <1>3, <2>2, <2>8, <3>1, <3>2, <3>3
  <2> QED BY <2>7, <2>8
<1> QED BY <1>5, <1>6, <1>7 DEF IsCall

(* One turn's calls and reasoning, by the set of the calls.                  *)
LEMMA TurnsByCalls ==
  ASSUME NEW msg
  PROVE  OfOneTurn(msg) <=> \A c, d \in CallsOf(msg) :
           TurnOf[d] = TurnOf[c] /\ msg.reasoning \in {NoReasoning, EmptyReasoning, TurnOf[c]}
BY DEF OfOneTurn, CallsOf

(* A conversation that is sanitized has a call for every answer and an       *)
(* answer for every call, those it had; it says as much as before.           *)
LEMMA Sanitized ==
  ASSUME NEW h \in Seq(Message), \A n \in DOMAIN h : Proper(h[n])
  PROVE  /\ Clean(Sanitize(h))
         /\ Declared(Sanitize(h)) = Declared(h) \cap Referenced(h)
         /\ Cardinality(Spoken(Sanitize(h))) = Cardinality(Spoken(h))
         /\ (\A n \in DOMAIN h : OfOneTurn(h[n])) => \A n \in DOMAIN Sanitize(h) : OfOneTurn(Sanitize(h)[n])
         /\ Clean(h) => Sanitize(h) = h
<1> DEFINE D == DOMAIN h
           R(n) == Repair(h[n], Removed(h))
           repaired == [n \in D |-> R(n)]
           P == {n \in D : repaired[n] # Dropped}
<1>1. Len(h) \in Nat /\ D = 1..Len(h) /\ \A n \in D : Proper(h[n])
  OBVIOUS
<1>2. /\ \A c : c \in Declared(h) => c \in CallIds
      /\ \A c : c \in Referenced(h) => c \in CallIds
  <2>1. ASSUME NEW c, c \in Declared(h) PROVE c \in CallIds
    <3>1. PICK n \in D : c \in CallsOf(h[n])
      BY <2>1, IdsOfTalks
    <3>2. h[n].calls \in Seq(CallIds)
      BY <1>1 DEF Proper, Message
    <3> QED BY <3>1, <3>2 DEF CallsOf
  <2>2. ASSUME NEW c, c \in Referenced(h) PROVE c \in CallIds
    <3>1. PICK n \in D : h[n].answers = c /\ c # NoId
      BY <2>2, IdsOfTalks
    <3>2. h[n].answers \in CallIds \cup {NoId}
      BY <1>1 DEF Proper, Message
    <3> QED BY <3>1, <3>2
  <2> QED BY <2>1, <2>2
<1>3. PICK removed : removed = Removed(h)
  OBVIOUS
<1>4. /\ removed \subseteq CallIds
      /\ \A c : c \in removed <=> (c \in Declared(h) /\ c \notin Referenced(h))
                                  \/ (c \in Referenced(h) /\ c \notin Declared(h))
  BY <1>2, <1>3 DEF Removed
<1>5. \A n \in D :
        /\ R(n) = Dropped \/ Proper(R(n))
        /\ R(n) = Dropped => ~h[n].text /\ h[n].role = "assistant" /\ CallsOf(h[n]) \subseteq removed
        /\ R(n) # Dropped => /\ R(n).text = h[n].text /\ CallsOf(R(n)) = CallsOf(h[n]) \ removed
                             /\ R(n).role = "assistant" <=> h[n].role = "assistant"
                             /\ R(n).role = "tool" <=> h[n].role = "tool" /\ h[n].answers \notin removed
                             /\ R(n).role = "tool" => R(n).answers = h[n].answers
                             /\ R(n).reasoning = h[n].reasoning
        /\ removed = {} => R(n) = h[n]
  BY <1>1, <1>3, <1>4, Repaired
<1>6. repaired \in Seq(Message \cup {Dropped}) /\ DOMAIN repaired = D /\ P \subseteq DOMAIN repaired
  <2>1. \A n \in D : R(n) \in Message \cup {Dropped}
    BY <1>5 DEF Proper
  <2> QED BY <1>1, <2>1
<1>7. PICK s : s = Sanitize(h)
  OBVIOUS
<1>8. s = Selected(repaired, P)
  BY <1>3, <1>7 DEF Sanitize
<1>9. /\ DOMAIN s = 1..Cardinality(P) /\ Len(s) = Cardinality(P) /\ Len(s) \in Nat
      /\ \A n \in DOMAIN s : Position(P, n) \in P /\ s[n] = R(Position(P, n))
      /\ s \in Seq(Message \cup {Dropped})
  <2>1. /\ Selected(repaired, P) \in Seq(Message \cup {Dropped})
        /\ Len(Selected(repaired, P)) = Cardinality(P)
        /\ \A n \in 1..Cardinality(P) : Position(P, n) \in P /\ Selected(repaired, P)[n] = repaired[Position(P, n)]
    BY <1>6, SelectedType
  <2>2. \A i \in P : repaired[i] = R(i)
    OBVIOUS
  <2> HIDE DEF R, P, repaired
  <2>3. Cardinality(P) = Len(s) /\ s \in Seq(Message \cup {Dropped})
        /\ \A n \in 1..Cardinality(P) : Position(P, n) \in P /\ s[n] = repaired[Position(P, n)]
    BY <1>8, <2>1
  <2>4. Len(s) \in Nat /\ DOMAIN s = 1..Len(s)
    BY <2>3
  <2> QED BY <2>2, <2>3, <2>4
<1>10. \A i \in P : \E n \in DOMAIN s : s[n] = R(i)
  <2>1. \A i \in P : \E n \in DOMAIN Selected(repaired, P) : Selected(repaired, P)[n] = repaired[i]
    BY <1>6, SelectedElements
  <2> QED BY <1>8, <2>1
<1>11. \A n \in DOMAIN s : \E i \in D : i = Position(P, n) /\ s[n] = R(i) /\ R(i) # Dropped /\ Proper(s[n])
  BY <1>5, <1>9
<1>12. \A i \in D : R(i) # Dropped => i \in P
  OBVIOUS
<1> HIDE DEF R, repaired, P
<1>13. s \in Seq(Message)
  <2>1. \A n \in 1..Len(s) : s[n] \in Message
    BY <1>9, <1>11 DEF Proper
  <2> QED BY <1>9, <2>1
<1>14. ASSUME NEW c PROVE c \in Declared(s) <=> c \in Declared(h) /\ c \in Referenced(h)
  <2>1. ASSUME c \in Declared(s) PROVE c \in Declared(h) /\ c \in Referenced(h)
    <3>1. PICK n \in DOMAIN s : IsCall(s[n]) /\ c \in CallsOf(s[n])
      BY <2>1, IdsOfTalks
    <3>2. PICK i \in D : s[n] = R(i) /\ R(i) # Dropped
      BY <1>11
    <3>3. c \in CallsOf(h[i]) /\ c \notin removed /\ h[i].role = "assistant"
      BY <1>5, <3>1, <3>2 DEF IsCall
    <3>4. IsCall(h[i])
      BY <3>3 DEF IsCall, CallsOf
    <3>5. c \in Declared(h)
      BY <3>3, <3>4, IdsOfTalks
    <3> QED BY <1>4, <3>3, <3>5
  <2>2. ASSUME c \in Declared(h), c \in Referenced(h) PROVE c \in Declared(s)
    <3>1. PICK i \in D : IsCall(h[i]) /\ c \in CallsOf(h[i])
      BY <2>2, IdsOfTalks
    <3>2. c \notin removed
      BY <1>4, <2>2
    <3>3. R(i) # Dropped /\ c \in CallsOf(R(i)) /\ R(i).role = "assistant"
      BY <1>5, <3>1, <3>2 DEF IsCall
    <3>4. PICK n \in DOMAIN s : s[n] = R(i)
      BY <1>10, <1>12, <3>3
    <3>5. IsCall(s[n]) /\ c \in CallsOf(s[n])
      BY <3>3, <3>4 DEF IsCall, CallsOf
    <3> QED BY <3>5, IdsOfTalks
  <2> QED BY <2>1, <2>2
<1>15. ASSUME NEW c PROVE c \in Referenced(s) <=> c \in Declared(h) /\ c \in Referenced(h)
  <2>1. ASSUME c \in Referenced(s) PROVE c \in Declared(h) /\ c \in Referenced(h)
    <3>1. PICK n \in DOMAIN s : s[n].role = "tool" /\ s[n].answers = c /\ c # NoId
      BY <2>1, IdsOfTalks
    <3>2. PICK i \in D : s[n] = R(i) /\ R(i) # Dropped
      BY <1>11
    <3>3. h[i].role = "tool" /\ h[i].answers = c /\ c \notin removed
      BY <1>5, <3>1, <3>2
    <3>4. c \in Referenced(h)
      BY <3>1, <3>3, IdsOfTalks
    <3> QED BY <1>4, <3>3, <3>4
  <2>2. ASSUME c \in Declared(h), c \in Referenced(h) PROVE c \in Referenced(s)
    <3>1. PICK i \in D : h[i].role = "tool" /\ h[i].answers = c /\ c # NoId
      BY <2>2, IdsOfTalks
    <3>2. c \notin removed
      BY <1>4, <2>2
    <3>3. R(i) # Dropped /\ R(i).role = "tool" /\ R(i).answers = c
      BY <1>5, <3>1, <3>2
    <3>4. PICK n \in DOMAIN s : s[n] = R(i)
      BY <1>10, <1>12, <3>3
    <3> QED BY <3>1, <3>3, <3>4, IdsOfTalks
  <2> QED BY <2>1, <2>2
<1>16. Clean(s) /\ Declared(s) = Declared(h) \cap Referenced(h)
  BY <1>11, <1>13, <1>14, <1>15 DEF Clean
<1>17. Cardinality(Spoken(s)) = Cardinality(Spoken(h))
  <2>1. Spoken(h) \subseteq P
    BY <1>5, <1>12 DEF Spoken
  <2>2. Spoken(s) = {n \in 1..Cardinality(P) : Position(P, n) \in Spoken(h)}
    BY <1>5, <1>9, <1>11 DEF Spoken
  <2> QED BY <1>6, <2>1, <2>2, SelectedCount
<1>18. ASSUME \A n \in DOMAIN h : OfOneTurn(h[n]), NEW n \in DOMAIN s PROVE OfOneTurn(s[n])
  <2>1. PICK i \in D : s[n] = R(i) /\ R(i) # Dropped
    BY <1>11
  <2>2. CallsOf(s[n]) \subseteq CallsOf(h[i]) /\ s[n].reasoning = h[i].reasoning
    BY <1>5, <2>1
  <2>3. OfOneTurn(h[i])
    BY <1>18
  <2> QED BY <2>2, <2>3, TurnsByCalls
<1>19. ASSUME Clean(h) PROVE s = h
  <2>1. removed = {}
    BY <1>4, <1>19 DEF Clean
  <2>2. \A n \in D : R(n) = h[n] /\ h[n].role # "gone"
    BY <1>1, <1>5, <2>1 DEF Proper, Message
  <2>3. \A n \in D : R(n) # Dropped
    BY <2>2 DEF Dropped
  <2>4. P = D
    BY <2>3 DEF P, repaired
  <2>5. repaired = h
    BY <1>1, <2>2 DEF repaired
  <2> QED BY <1>8, <2>4, <2>5, AllSelected
<1> QED BY <1>7, <1>16, <1>17, <1>18, <1>19

(* Conversations that differ in their reasoning only have the same ids, and  *)
(* say the same.                                                             *)
LEMMA SameTalksAgree ==
  ASSUME NEW g, NEW h, SameButReasoning(g, h)
  PROVE  /\ Declared(g) = Declared(h) /\ Referenced(g) = Referenced(h) /\ Spoken(g) = Spoken(h)
<1>1. DOMAIN g = DOMAIN h /\ \A n \in DOMAIN h : /\ g[n].role = h[n].role /\ g[n].text = h[n].text
                                                /\ g[n].calls = h[n].calls /\ g[n].answers = h[n].answers
  BY DEF SameButReasoning
<1>2. \A n \in DOMAIN h : (IsCall(g[n]) <=> IsCall(h[n])) /\ CallsOf(g[n]) = CallsOf(h[n])
  BY <1>1 DEF IsCall, CallsOf
<1>3. ASSUME NEW c PROVE (c \in Declared(g) <=> c \in Declared(h)) /\ (c \in Referenced(g) <=> c \in Referenced(h))
  BY <1>1, <1>2, IdsOfTalks
<1>4. Declared(g) = Declared(h) /\ Referenced(g) = Referenced(h)
  <2>1. \A c : c \in Declared(g) <=> c \in Declared(h)
    BY <1>3
  <2>2. \A c : c \in Referenced(g) <=> c \in Referenced(h)
    BY <1>3
  <2> QED BY <2>1, <2>2, Zenon DEF Declared, Referenced
<1>5. Spoken(g) = Spoken(h)
  BY <1>1 DEF Spoken
<1> QED BY <1>4, <1>5

(* A turn gets its own reasoning or the placeholder.                         *)
LEMMA ReasonedMessage ==
  ASSUME NEW msg, Proper(msg), OfOneTurn(msg), NEW found \in Found(msg)
  PROVE  LET r == WithReasoning(msg, found) IN
         /\ Proper(r) /\ OfOneTurn(r)
         /\ r.role = msg.role /\ r.text = msg.text /\ r.calls = msg.calls /\ r.answers = msg.answers
         /\ IsCall(r) => r.reasoning # NoReasoning
<1>1. msg \in Message /\ msg.calls \in Seq(CallIds)
  BY DEF Proper, Message
<1>2. PICK r : r = WithReasoning(msg, found)
  OBVIOUS
<1>3. CASE ~IsCall(msg) \/ msg.reasoning # NoReasoning
  <2>1. r = msg
    BY <1>2, <1>3 DEF WithReasoning
  <2> QED BY <1>2, <1>3, <2>1
<1>4. CASE IsCall(msg) /\ msg.reasoning = NoReasoning
  <2>1. PICK x : x = IF found = NoId THEN EmptyReasoning ELSE TurnOf[found]
    OBVIOUS
  <2>2. x = EmptyReasoning \/ \E c \in CallsOf(msg) : c \in CallIds /\ x = TurnOf[c]
    <3>1. found = NoId \/ found \in CallsOf(msg)
      BY DEF Found, CallsOf
    <3>2. found \in CallsOf(msg) => found \in CallIds
      BY <1>1 DEF CallsOf
    <3> QED BY <2>1, <3>1, <3>2
  <2>3. x \in Reasoning /\ x # NoReasoning
    <3>1. \A c \in CallIds : TurnOf[c] \in Turns
      BY StoreAssumption
    <3>2. NoReasoning \notin Turns /\ EmptyReasoning # NoReasoning
      BY HistoryAssumption
    <3> QED BY <2>2, <3>1, <3>2 DEF Reasoning
  <2>4. r = [role |-> msg.role, text |-> msg.text, calls |-> msg.calls, answers |-> msg.answers, reasoning |-> x]
    BY <1>1, <1>2, <1>4, <2>1 DEF WithReasoning, Message
  <2>5. Proper(r)
    BY <1>1, <1>4, <2>3, <2>4 DEF Proper, Message, IsCall
  <2>6. OfOneTurn(r)
    <3>1. CallsOf(r) = CallsOf(msg) /\ r.reasoning = x
      BY <2>4 DEF CallsOf
    <3>2. \A c, d \in CallsOf(msg) : TurnOf[d] = TurnOf[c]
      BY TurnsByCalls
    <3> QED BY <2>2, <3>1, <3>2, TurnsByCalls
  <2> QED BY <1>2, <2>3, <2>4, <2>5, <2>6
<1> QED BY <1>3, <1>4

(* What ensure_thinking_reasoning_content makes of a conversation.           *)
LEMMA Reasoned ==
  ASSUME NEW h, Clean(h), \A n \in DOMAIN h : OfOneTurn(h[n]), NEW model, NEW found \in Lookups(h)
  PROVE  LET g == EnsureReasoning(h, model, found) IN
         /\ Clean(g) /\ SameButReasoning(g, h)
         /\ \A n \in DOMAIN g : OfOneTurn(g[n])
         /\ model \in ThinkingModels => \A n \in DOMAIN g : IsCall(g[n]) => g[n].reasoning # NoReasoning
<1>1. h \in Seq(Message) /\ Len(h) \in Nat /\ DOMAIN h = 1..Len(h) /\ (\A n \in DOMAIN h : Proper(h[n]))
      /\ Declared(h) = Referenced(h)
  BY DEF Clean
<1>2. PICK g : g = EnsureReasoning(h, model, found)
  OBVIOUS
<1>3. CASE model \in ThinkingModels
  <2>1. g = [n \in 1..Len(h) |-> WithReasoning(h[n], found[n])]
    BY <1>1, <1>2, <1>3 DEF EnsureReasoning
  <2>2. \A n \in DOMAIN h :
          /\ Proper(g[n]) /\ OfOneTurn(g[n])
          /\ g[n].role = h[n].role /\ g[n].text = h[n].text /\ g[n].calls = h[n].calls /\ g[n].answers = h[n].answers
          /\ IsCall(g[n]) => g[n].reasoning # NoReasoning
    <3> SUFFICES ASSUME NEW n \in DOMAIN h
                 PROVE  LET r == WithReasoning(h[n], found[n]) IN
                        /\ Proper(r) /\ OfOneTurn(r)
                        /\ r.role = h[n].role /\ r.text = h[n].text /\ r.calls = h[n].calls /\ r.answers = h[n].answers
                        /\ IsCall(r) => r.reasoning # NoReasoning
      BY <1>1, <2>1
    <3>1. PICK msg : msg = h[n]
      OBVIOUS
    <3>2. Proper(msg) /\ OfOneTurn(msg)
      BY <1>1, <3>1
    <3>3. PICK c : c = found[n]
      OBVIOUS
    <3>4. c \in Found(msg)
      BY <3>1, <3>3 DEF Lookups
    <3> QED BY ONLY <3>1, <3>2, <3>3, <3>4, ReasonedMessage
  <2>3. DOMAIN g = DOMAIN h /\ SameButReasoning(g, h)
    BY <1>1, <2>1, <2>2 DEF SameButReasoning
  <2>4. g \in Seq(Message)
    <3>1. \A n \in 1..Len(h) : WithReasoning(h[n], found[n]) \in Message
      BY <1>1, <2>1, <2>2 DEF Proper
    <3> QED BY <1>1, <2>1, <3>1
  <2>5. Clean(g)
    BY <1>1, <2>2, <2>3, <2>4, SameTalksAgree DEF Clean
  <2> QED BY <1>2, <2>2, <2>3, <2>5
<1>4. CASE model \notin ThinkingModels
  <2>1. g = h
    BY <1>2, <1>4 DEF EnsureReasoning
  <2> QED BY <1>2, <1>4, <2>1 DEF SameButReasoning
<1> QED BY <1>3, <1>4

(* What goes out is the conversation, prepared.                              *)
TalkIsKept ==
  /\ asked \in Histories \cup {<<>>} /\ target \in AllModels
  /\ Clean(outgoing) /\ SameButReasoning(outgoing, Sanitize(Normalize(asked)))
  /\ \A n \in DOMAIN outgoing : OfOneTurn(outgoing[n])
  /\ target \in ThinkingModels =>
       \A n \in DOMAIN outgoing : IsCall(outgoing[n]) => outgoing[n].reasoning # NoReasoning

(* A conversation without messages lacks nothing.                            *)
LEMMA NothingIsClean == Clean(<<>>)
<1>1. Declared(<<>>) = {} /\ Referenced(<<>>) = {}
  BY DEF Declared, Referenced
<1> QED BY <1>1 DEF Clean

(* A client's conversation is prepared, whatever model it goes to.           *)
LEMMA FirstPreparation ==
  ASSUME NEW h \in Histories \cup {<<>>}, NEW model, NEW g \in PreparedRequests(h, model)
  PROVE  /\ Clean(g) /\ SameButReasoning(g, Sanitize(Normalize(h)))
         /\ \A n \in DOMAIN g : OfOneTurn(g[n])
         /\ model \in ThinkingModels => \A n \in DOMAIN g : IsCall(g[n]) => g[n].reasoning # NoReasoning
<1>1. h \in Seq(Message) /\ \A n \in DOMAIN h : h[n].role = "assistant" => OfOneTurn(h[n])
  <2>1. CASE h \in Histories
    BY <2>1, ClientsAssumption
  <2>2. CASE h = <<>>
    BY <2>2
  <2> QED BY <2>1, <2>2
<1>2. PICK m : m = Normalize(h)
  OBVIOUS
<1>3. m \in Seq(Message) /\ \A n \in DOMAIN m : Proper(m[n]) /\ OfOneTurn(m[n])
  BY <1>1, <1>2, Normalized
<1>4. PICK s : s = Sanitize(m)
  OBVIOUS
<1>5. Clean(s) /\ \A n \in DOMAIN s : OfOneTurn(s[n])
  BY <1>3, <1>4, Sanitized
<1>6. PICK found \in Lookups(s) : g = EnsureReasoning(s, model, found)
  BY <1>2, <1>4 DEF PreparedRequests
<1> QED BY ONLY <1>2, <1>4, <1>5, <1>6, Reasoned

(* Preparing a prepared conversation again changes its reasoning alone.      *)
LEMMA NextPreparation ==
  ASSUME NEW h, Clean(h), \A n \in DOMAIN h : OfOneTurn(h[n]), NEW model, NEW g \in PreparedRequests(h, model)
  PROVE  /\ Clean(g) /\ SameButReasoning(g, h)
         /\ \A n \in DOMAIN g : OfOneTurn(g[n])
         /\ model \in ThinkingModels => \A n \in DOMAIN g : IsCall(g[n]) => g[n].reasoning # NoReasoning
<1>1. h \in Seq(Message) /\ \A n \in DOMAIN h : Proper(h[n])
  BY DEF Clean
<1>2. Normalize(h) = h /\ Sanitize(h) = h
  BY <1>1, Normalized, Sanitized
<1>3. PICK found \in Lookups(h) : g = EnsureReasoning(h, model, found)
  BY <1>2 DEF PreparedRequests
<1> QED BY <1>3, Reasoned

(* No request.                                                               *)
LEMMA HistoryStarts == HistoryInit => TalkIsKept
<1> SUFFICES ASSUME HistoryInit PROVE TalkIsKept
  OBVIOUS
<1>1. asked = <<>> /\ outgoing = <<>> /\ target \in AllModels
  BY DEF HistoryInit, AllModels
<1>2. <<>> \in Seq(Message) /\ DOMAIN <<>> = {}
  OBVIOUS
<1>3. Normalize(<<>>) = <<>> /\ Sanitize(<<>>) = <<>>
  BY <1>2, NothingIsClean, Normalized, Sanitized
<1> QED BY <1>1, <1>2, <1>3, NothingIsClean DEF TalkIsKept, SameButReasoning

(* First and next models, and ends of requests.                              *)
LEMMA HistoryStays == TalkIsKept /\ [HistoryNext]_historyVars => TalkIsKept'
<1> SUFFICES ASSUME TalkIsKept, [HistoryNext]_historyVars PROVE TalkIsKept'
  OBVIOUS
<1>1. ASSUME NEW h \in Histories, NEW model \in AllModels, SendFirst(h, model) PROVE TalkIsKept'
  <2>1. asked' = h /\ outgoing' \in PreparedRequests(h, model) /\ target' = model
    BY <1>1 DEF SendFirst, Forward
  <2>2. PICK g : g = outgoing'
    OBVIOUS
  <2>3. /\ Clean(g) /\ SameButReasoning(g, Sanitize(Normalize(h)))
        /\ \A n \in DOMAIN g : OfOneTurn(g[n])
        /\ model \in ThinkingModels => \A n \in DOMAIN g : IsCall(g[n]) => g[n].reasoning # NoReasoning
    BY <2>1, <2>2, FirstPreparation
  <2> QED BY <2>1, <2>2, <2>3 DEF TalkIsKept
<1>2. ASSUME NEW model \in AllModels, SendNext(model) PROVE TalkIsKept'
  <2>1. asked' = asked /\ outgoing' \in PreparedRequests(outgoing, model) /\ target' = model
    BY <1>2 DEF SendNext, Forward
  <2>2. PICK h : h = outgoing
    OBVIOUS
  <2>3. PICK g : g = outgoing'
    OBVIOUS
  <2>4. PICK s : s = Sanitize(Normalize(asked))
    OBVIOUS
  <2>5. Clean(h) /\ SameButReasoning(h, s) /\ \A n \in DOMAIN h : OfOneTurn(h[n])
    BY <2>2, <2>4 DEF TalkIsKept
  <2>6. /\ Clean(g) /\ SameButReasoning(g, h)
        /\ \A n \in DOMAIN g : OfOneTurn(g[n])
        /\ model \in ThinkingModels => \A n \in DOMAIN g : IsCall(g[n]) => g[n].reasoning # NoReasoning
    BY <2>1, <2>2, <2>3, <2>5, NextPreparation
  <2>7. SameButReasoning(g, s)
    BY <2>5, <2>6 DEF SameButReasoning
  <2>8. asked \in Histories \cup {<<>>}
    BY DEF TalkIsKept
  <2>9. s = Sanitize(Normalize(asked'))
    BY <2>1, <2>4
  <2> QED BY <2>1, <2>3, <2>6, <2>7, <2>8, <2>9 DEF TalkIsKept
<1>3. CASE RequestOver
  <2>1. asked' = <<>> /\ outgoing' = <<>> /\ UNCHANGED target
    BY <1>3 DEF RequestOver
  <2>2. Normalize(<<>>) = <<>> /\ Sanitize(<<>>) = <<>>
    <3>1. <<>> \in Seq(Message) /\ DOMAIN <<>> = {}
      OBVIOUS
    <3> QED BY <3>1, NothingIsClean, Normalized, Sanitized
  <2> QED BY <2>1, <2>2, NothingIsClean DEF TalkIsKept, SameButReasoning
<1>4. CASE UNCHANGED historyVars
  BY <1>4 DEF historyVars, TalkIsKept
<1> QED BY <1>1, <1>2, <1>3, <1>4 DEF HistoryNext

(* The invariant gives what the run checks of a conversation.                *)
LEMMA HistoryIsRight == TalkIsKept => HistoryIsKept
<1> SUFFICES ASSUME TalkIsKept PROVE HistoryIsKept
  OBVIOUS
<1>1. TalkIsKept
  OBVIOUS
<1>2. PICK h : h = asked
  OBVIOUS
<1>3. PICK g : g = outgoing
  OBVIOUS
<1>4. PICK m : m = Normalize(h)
  OBVIOUS
<1>5. PICK s : s = Sanitize(m)
  OBVIOUS
<1>6. h \in Seq(Message)
  <2>1. h \in Histories \/ h = <<>>
    BY <1>1, <1>2 DEF TalkIsKept
  <2>2. <<>> \in Seq(Message)
    OBVIOUS
  <2> QED BY <2>1, <2>2, ClientsAssumption
<1>7. Clean(g) /\ SameButReasoning(g, s) /\ \A n \in DOMAIN g : OfOneTurn(g[n])
  BY <1>1, <1>2, <1>3, <1>4, <1>5 DEF TalkIsKept
<1>8. /\ m \in Seq(Message) /\ DOMAIN m = DOMAIN h
      /\ \A n \in DOMAIN h : Proper(m[n]) /\ m[n].text = h[n].text
  BY <1>4, <1>6, Normalized
<1>9. /\ Clean(s) /\ Declared(s) = Declared(m) \cap Referenced(m)
      /\ Cardinality(Spoken(s)) = Cardinality(Spoken(m))
  BY <1>5, <1>8, Sanitized
<1>10. Declared(g) = Declared(s) /\ Spoken(g) = Spoken(s)
  BY <1>7, SameTalksAgree
<1>11. HTypeOK
  BY <1>1, <1>2, <1>3, <1>6, <1>7 DEF HTypeOK, TalkIsKept, Clean
<1>12. CallsArePaired
  BY <1>3, <1>7 DEF CallsArePaired, Clean
<1>13. NothingSaidIsLost
  <2>1. Spoken(m) = Spoken(h)
    BY <1>8 DEF Spoken
  <2>2. Cardinality({n \in DOMAIN g : g[n].text}) = Cardinality({n \in DOMAIN h : h[n].text})
    BY <1>9, <1>10, <2>1 DEF Spoken
  <2> QED BY <1>2, <1>3, <1>4, <1>9, <1>10, <2>2 DEF NothingSaidIsLost
<1>14. FallOverSendsTheSame
  <2>1. DOMAIN g = DOMAIN s /\ g \in Seq(Message) /\ s \in Seq(Message)
    BY <1>7, <1>9 DEF Clean, SameButReasoning
  <2>2. ASSUME NEW n \in DOMAIN s
        PROVE  [g[n] EXCEPT !.reasoning = NoReasoning] = [s[n] EXCEPT !.reasoning = NoReasoning]
    <3>1. g[n] \in Message /\ s[n] \in Message
      BY <2>1
    <3>2. g[n].role = s[n].role /\ g[n].text = s[n].text /\ g[n].calls = s[n].calls /\ g[n].answers = s[n].answers
      BY <1>7 DEF SameButReasoning
    <3> QED BY <3>1, <3>2 DEF Message
  <2>3. [n \in DOMAIN g |-> [g[n] EXCEPT !.reasoning = NoReasoning]]
          = [n \in DOMAIN s |-> [s[n] EXCEPT !.reasoning = NoReasoning]]
    BY <2>1, <2>2
  <2> QED BY <1>2, <1>3, <1>4, <1>5, <2>3 DEF FallOverSendsTheSame
<1>15. ReasoningFitsTheTurn
  <2> SUFFICES ASSUME NEW n \in DOMAIN g, IsCall(g[n])
               PROVE  /\ target \in ThinkingModels => g[n].reasoning # NoReasoning
                      /\ g[n].reasoning \in {NoReasoning, EmptyReasoning, TurnOf[g[n].calls[1]]}
    BY <1>3 DEF ReasoningFitsTheTurn
  <2>1. g[n].calls \in Seq(CallIds) /\ g[n].calls # <<>>
    BY <1>7 DEF Clean, Proper, Message, IsCall
  <2>2. 1 \in DOMAIN g[n].calls
    BY <2>1
  <2> QED BY <1>1, <1>3, <1>7, <2>2 DEF OfOneTurn, TalkIsKept
<1> QED BY <1>11, <1>12, <1>13, <1>14, <1>15 DEF HistoryIsKept
-----------------------------------------------------------------------------
(* The reasoning of the turns captured last, between threads without a lock. *)

IdSets == SUBSET CallIds
Afterwards == {"measure", "absent"}
Texting == [at : {"text"}, left : IdSets, now : Nat]
Timing == [at : {"stamp"}, left : IdSets, now : Nat, id : CallIds]
Pruning == {[at |-> "prune"]}
Scanning == [at : {"scan"}, now : Nat]
Walking == [at : {"walk"}, now : Nat, keys : IdSets, seen : IdSets, doomed : IdSets]
Measuring == {[at |-> "measure"]}
Choosing == [at : {"choose"}, overflow : Nat]
Dropping == [at : {"forget"}, doomed : IdSets, next : Afterwards]
Unstamping == [at : {"unstamp"}, doomed : IdSets, next : Afterwards, id : CallIds]
Looking == [at : {"look"}, id : CallIds, since : Nat]
Keepings == {Absent} \cup Texting \cup Timing \cup Pruning \cup Scanning \cup Walking \cup Measuring
            \cup Choosing \cup Dropping \cup Unstamping \cup Looking

(* No time is later than the clock, and a time on record is that of the last *)
(* capture.                                                                  *)
StoreTypes ==
  /\ texts \subseteq CallIds /\ IsFiniteSet(texts)
  /\ DOMAIN captured \subseteq CallIds /\ IsFiniteSet(DOMAIN captured)
  /\ \A i \in DOMAIN captured : captured[i] \in 0..storeTime
  /\ DOMAIN stamps \subseteq DOMAIN captured /\ \A i \in DOMAIN stamps : stamps[i] = captured[i]
  /\ storeTime \in 0..MaxTime
  /\ keeping \in [Keepers -> Keepings]
  /\ \A k \in Keepers : keeping[k].at \in {"text", "stamp", "scan", "walk"} => keeping[k].now \in 0..storeTime
  /\ lone \in Keepers \cup {Nobody} /\ sure \subseteq DOMAIN captured

AsLate(f, i) == {j \in DOMAIN f \ {i} : f[j] >= f[i]}

(* What the store need not have any more.                                    *)
Spent(i) == Expired(storeTime, captured[i]) \/ Cardinality(AsLate(captured, i)) >= StoreMax

SureIsKept == \A i \in sure : Spent(i) \/ (i \in texts /\ i \in DOMAIN stamps)

(* Where a thread may be that has the store to itself: nothing was captured  *)
(* since it read the clock, what it wrote or took back of one dict only is   *)
(* the entry in hand, and what it is about to forget is spent.               *)
LonePhase(k) ==
  /\ keeping[k].at \notin {"stamp", "unstamp"} => InStep
  /\ keeping[k].at \in {"text", "stamp"} => \A i \in DOMAIN captured : captured[i] <= keeping[k].now
  /\ keeping[k].at = "stamp" => texts = DOMAIN stamps \cup {keeping[k].id}
  /\ keeping[k].at = "unstamp" => /\ keeping[k].id \in keeping[k].doomed
                                  /\ texts = DOMAIN stamps \ {keeping[k].id}
  /\ keeping[k].at = "walk" => keeping[k].keys = DOMAIN stamps
  /\ keeping[k].at \in {"walk", "forget", "unstamp"} =>
       \A i \in keeping[k].doomed : i \in DOMAIN captured /\ Spent(i)
  /\ keeping[k].at = "choose" => keeping[k].overflow = Cardinality(texts) - StoreMax
  /\ keeping[k].at \in {"forget", "unstamp"} /\ keeping[k].next = "absent" /\ sure # {} =>
       Cardinality(texts \ keeping[k].doomed) <= StoreMax

NobodyIn == (\A k \in Keepers : ~Inside(k)) /\ InStep /\ Cardinality(texts) <= StoreMax

ReasoningInvariant ==
  /\ StoreTypes /\ SureIsKept
  /\ \A k \in Keepers : lone = k => Inside(k) /\ Alone(k) /\ LonePhase(k)
  /\ sure # {} /\ lone = Nobody => NobodyIn

(* An empty store.                                                           *)
LEMMA ReasoningStarts == ReasoningInit => ReasoningInvariant
<1> SUFFICES ASSUME ReasoningInit PROVE ReasoningInvariant
  OBVIOUS
<1>1. /\ texts = {} /\ DOMAIN stamps = {} /\ DOMAIN captured = {} /\ storeTime = 0 /\ lone = Nobody /\ sure = {}
      /\ keeping = [k \in Keepers |-> Absent]
  BY DEF ReasoningInit
<1>2. StoreTypes
  BY <1>1, FS_EmptySet, StoreAssumption DEF StoreTypes, Keepings, Absent
<1> QED BY <1>1, <1>2, StoreAssumption DEF ReasoningInvariant, SureIsKept

(* The invariant gives what the run checks of the store.                     *)
LEMMA ReasoningIsRight == ReasoningInvariant => ReasoningIsKept
<1> SUFFICES ASSUME ReasoningInvariant PROVE ReasoningIsKept
  OBVIOUS
<1>1. StoreTypes /\ SureIsKept
  BY DEF ReasoningInvariant
<1>2. RTypeOK
  BY <1>1 DEF RTypeOK, StoreTypes
<1>3. StoreKeepsTheNewest
  <2> SUFFICES ASSUME NEW i \in sure, ~Expired(storeTime, captured[i]), Cardinality(AsLate(captured, i)) < StoreMax
               PROVE  i \in texts /\ i \in DOMAIN stamps /\ stamps[i] = captured[i]
    BY DEF StoreKeepsTheNewest, AsLate
  <2>1. i \in DOMAIN captured
    BY <1>1 DEF StoreTypes
  <2>2. IsFiniteSet(AsLate(captured, i))
    BY <1>1, FS_Subset DEF StoreTypes, AsLate
  <2>3. Cardinality(AsLate(captured, i)) \in Nat
    BY <2>2, FS_CardinalityType
  <2>4. ~Spent(i)
    BY <2>3, StoreAssumption DEF Spent
  <2> QED BY <1>1, <2>4 DEF SureIsKept, StoreTypes
<1>4. LoneCapturesKeepTheBound
  <2> SUFFICES ASSUME sure # {}, \A k \in Keepers : ~Inside(k) PROVE InStep /\ Cardinality(texts) <= StoreMax
    BY DEF LoneCapturesKeepTheBound
  <2>1. lone = Nobody
    BY <1>1 DEF ReasoningInvariant, StoreTypes
  <2> QED BY <2>1 DEF ReasoningInvariant, NobodyIn
<1> QED BY <1>2, <1>3, <1>4 DEF ReasoningIsKept

(* A thread at the store that does not have it to itself has spoilt every    *)
(* promise.                                                                  *)
LEMMA OverlapsPromiseNothing ==
  ASSUME ReasoningInvariant, NEW k \in Keepers, Inside(k), lone # k
  PROVE  lone = Nobody /\ sure = {}
<1>1. lone \in Keepers \cup {Nobody}
  BY DEF ReasoningInvariant, StoreTypes
<1>2. ASSUME NEW j \in Keepers, lone = j PROVE FALSE
  BY <1>2 DEF ReasoningInvariant, Alone
<1> QED BY <1>1, <1>2 DEF ReasoningInvariant, NobodyIn

(* Without a promise the types are all there is to keep.                     *)
LEMMA TypesAreEnough ==
  ASSUME StoreTypes', lone' = Nobody, sure' = {}
  PROVE  ReasoningInvariant'
<1>1. SureIsKept'
  BY DEF SureIsKept
<1>2. \A k \in Keepers : lone' # k
  BY StoreAssumption
<1> QED BY <1>1, <1>2 DEF ReasoningInvariant

(* A thread that has the store to itself goes on.                            *)
LEMMA LoneGoesOn ==
  ASSUME ReasoningInvariant, NEW k \in Keepers, lone = k, lone' = k, NEW state, Go(k, state),
         state.at \notin {"absent", "look"}, StoreTypes', SureIsKept', LonePhase(k)'
  PROVE  ReasoningInvariant'
<1>1. keeping' = [keeping EXCEPT ![k] = state] /\ keeping \in [Keepers -> Keepings]
  BY DEF Go, ReasoningInvariant, StoreTypes
<1>2. Inside(k)'
  BY <1>1 DEF Inside
<1>3. Alone(k)
  BY DEF ReasoningInvariant
<1>4. Alone(k)'
  BY <1>1, <1>3 DEF Alone, Inside
<1>5. \A j \in Keepers : lone' = j => j = k
  OBVIOUS
<1>6. lone' # Nobody
  BY StoreAssumption
<1> QED BY <1>2, <1>4, <1>5, <1>6 DEF ReasoningInvariant

(* It leaves a store whose dicts agree and that has its bound.               *)
LEMMA LoneLeaves ==
  ASSUME ReasoningInvariant, NEW k \in Keepers, Inside(k), Leave(k), StoreTypes', SureIsKept',
         sure' = sure, lone = k => InStep' /\ (sure # {} => Cardinality(texts') <= StoreMax)
  PROVE  ReasoningInvariant'
<1>1. keeping' = [keeping EXCEPT ![k] = Absent] /\ keeping \in [Keepers -> Keepings]
      /\ lone' = IF lone = k THEN Nobody ELSE lone
  BY DEF Leave, Go, ReasoningInvariant, StoreTypes
<1>2. CASE lone # k
  BY <1>1, <1>2, OverlapsPromiseNothing, TypesAreEnough
<1>3. CASE lone = k
  <2>1. Alone(k) /\ lone' = Nobody
    BY <1>1, <1>3 DEF ReasoningInvariant
  <2>2. \A j \in Keepers : ~Inside(j)'
    BY <1>1, <2>1 DEF Alone, Inside, Absent
  <2>3. \A j \in Keepers : lone' # j
    BY <2>1, StoreAssumption
  <2> QED BY <1>3, <2>2, <2>3 DEF ReasoningInvariant, NobodyIn
<1> QED BY <1>2, <1>3

TimedAt == {"text", "stamp", "scan", "walk"}

(* A step that leaves the dicts alone.                                       *)
LEMMA OnlyTheThreadMoves ==
  ASSUME StoreTypes, SureIsKept, NEW k \in Keepers, NEW state \in Keepings, Go(k, state),
         state.at \in TimedAt => state.now \in 0..storeTime,
         lone' \in Keepers \cup {Nobody}, sure' \subseteq sure,
         UNCHANGED <<texts, stamps, storeTime, captured>>
  PROVE  StoreTypes' /\ SureIsKept'
<1>1. keeping' = [keeping EXCEPT ![k] = state] /\ keeping \in [Keepers -> Keepings]
  BY DEF Go, StoreTypes
<1>2. keeping' \in [Keepers -> Keepings]
  BY <1>1
<1>3. \A j \in Keepers : keeping'[j].at \in TimedAt => keeping'[j].now \in 0..storeTime
  BY <1>1 DEF StoreTypes, TimedAt
<1>4. StoreTypes'
  BY <1>2, <1>3 DEF StoreTypes, TimedAt
<1>5. \A i : Spent(i)' = Spent(i)
  BY DEF Spent, AsLate
<1> QED BY <1>4, <1>5 DEF SureIsKept

LEMMA QuietStep ==
  ASSUME ReasoningInvariant, NEW k \in Keepers, Inside(k), NEW state \in Keepings, Stay(k, state),
         state.at \notin {"absent", "look"}, state.at \in TimedAt => state.now \in 0..storeTime,
         UNCHANGED <<texts, stamps, storeTime, captured, sure>>, lone = k => LonePhase(k)'
  PROVE  ReasoningInvariant'
<1>1. Go(k, state) /\ lone' = lone /\ StoreTypes /\ SureIsKept
  BY DEF Stay, ReasoningInvariant
<1>2. lone' \in Keepers \cup {Nobody}
  BY <1>1 DEF StoreTypes
<1>3. StoreTypes' /\ SureIsKept'
  BY <1>1, <1>2, OnlyTheThreadMoves
<1>4. CASE lone # k
  BY <1>1, <1>3, <1>4, OverlapsPromiseNothing, TypesAreEnough
<1>5. CASE lone = k
  BY <1>1, <1>3, <1>5, LoneGoesOn
<1> QED BY <1>4, <1>5

LEMMA QuietLeave ==
  ASSUME ReasoningInvariant, NEW k \in Keepers, Inside(k), Leave(k),
         UNCHANGED <<texts, stamps, storeTime, captured, sure>>,
         lone = k => InStep /\ (sure # {} => Cardinality(texts) <= StoreMax)
  PROVE  ReasoningInvariant'
<1>1. Go(k, Absent) /\ StoreTypes /\ SureIsKept /\ lone' \in Keepers \cup {Nobody}
  BY DEF Leave, ReasoningInvariant, StoreTypes
<1>2. Absent \in Keepings /\ Absent.at \notin TimedAt
  BY DEF Keepings, Absent, TimedAt
<1>3. StoreTypes' /\ SureIsKept'
  BY <1>1, <1>2, OnlyTheThreadMoves
<1>4. InStep' = InStep
  BY DEF InStep
<1> QED BY <1>3, <1>4, LoneLeaves

(* Nobody at the store, and what that promises.                              *)
LEMMA NobodyThere ==
  ASSUME ReasoningInvariant, NEW k \in Keepers, ~Inside(k), Alone(k)
  PROVE  lone = Nobody /\ (sure # {} => NobodyIn)
<1>1. \A j \in Keepers : ~Inside(j)
  BY DEF Alone
<1>2. lone = Nobody
  BY <1>1 DEF ReasoningInvariant, StoreTypes
<1> QED BY <1>2 DEF ReasoningInvariant

LEMMA Entering ==
  ASSUME ReasoningInvariant, NEW k \in Keepers, ~Inside(k), NEW state \in Keepings, Go(k, state), Enter(k),
         state.at \notin {"absent", "look"}, state.at \in TimedAt => state.now \in 0..storeTime,
         UNCHANGED <<texts, stamps, storeTime, captured>>, Alone(k) /\ InStep => LonePhase(k)'
  PROVE  ReasoningInvariant'
<1>1. /\ lone' = IF Alone(k) /\ InStep THEN k ELSE Nobody
      /\ sure' = IF Alone(k) THEN sure ELSE {}
      /\ StoreTypes /\ SureIsKept
  BY DEF Enter, ReasoningInvariant
<1>2. StoreTypes' /\ SureIsKept'
  BY <1>1, OnlyTheThreadMoves
<1>3. CASE Alone(k) /\ InStep
  <2>1. keeping' = [keeping EXCEPT ![k] = state] /\ keeping \in [Keepers -> Keepings]
    BY <1>1 DEF Go, StoreTypes
  <2>2. Inside(k)' /\ Alone(k)'
    BY <1>3, <2>1 DEF Alone, Inside
  <2>3. lone' = k /\ lone' # Nobody
    BY <1>1, <1>3, StoreAssumption
  <2> QED BY <1>2, <1>3, <2>2, <2>3 DEF ReasoningInvariant
<1>4. CASE ~(Alone(k) /\ InStep)
  <2>1. sure' = {} /\ lone' = Nobody
    BY <1>1, <1>4, NobodyThere DEF NobodyIn
  <2> QED BY <1>2, <2>1, TypesAreEnough
<1> QED BY <1>3, <1>4

(* A thread that only looks is nobody's concern.                             *)
LEMMA LookingIsHarmless ==
  ASSUME ReasoningInvariant, NEW k \in Keepers, ~Inside(k), NEW state \in Keepings, Stay(k, state),
         state.at \in {"absent", "look"}, UNCHANGED <<texts, stamps, storeTime, captured, sure>>
  PROVE  ReasoningInvariant'
<1>1. keeping' = [keeping EXCEPT ![k] = state] /\ lone' = lone /\ Go(k, state) /\ keeping \in [Keepers -> Keepings]
      /\ StoreTypes /\ SureIsKept
  BY DEF Stay, Go, ReasoningInvariant, StoreTypes
<1>2. StoreTypes' /\ SureIsKept'
  <2>1. state.at \notin TimedAt /\ lone' \in Keepers \cup {Nobody}
    BY <1>1 DEF TimedAt, StoreTypes
  <2> QED BY <1>1, <2>1, OnlyTheThreadMoves
<1>3. \A j \in Keepers : Inside(j)' = Inside(j)
  BY <1>1 DEF Inside
<1>4. ASSUME NEW j \in Keepers, lone' = j PROVE Inside(j)' /\ Alone(j)' /\ LonePhase(j)'
  <2>1. Inside(j) /\ Alone(j) /\ LonePhase(j)
    BY <1>1, <1>4 DEF ReasoningInvariant
  <2>2. j # k /\ keeping'[j] = keeping[j]
    BY <1>1, <2>1
  <2>3. \A i : Spent(i)' = Spent(i)
    BY DEF Spent, AsLate
  <2>4. LonePhase(j)'
    BY <2>1, <2>2, <2>3 DEF LonePhase, InStep
  <2> QED BY <1>3, <2>1, <2>4 DEF Alone
<1>5. NobodyIn' = NobodyIn
  BY <1>3 DEF NobodyIn, InStep
<1> QED BY <1>1, <1>2, <1>4, <1>5 DEF ReasoningInvariant

-----------------------------------------------------------------------------
(* The steps of a capture.                                                   *)
LEMMA StartingKeepsReasoning ==
  ASSUME ReasoningInvariant, NEW k \in Keepers, NEW turn \in Turns, StartCapture(k, turn)
  PROVE  ReasoningInvariant'
<1> DEFINE ids == {i \in CallIds : TurnOf[i] = turn}
           state == [at |-> "text", left |-> ids, now |-> storeTime]
<1>1. Go(k, state) /\ Enter(k) /\ keeping[k] = Absent /\ UNCHANGED <<texts, stamps, storeTime, captured>>
  BY DEF StartCapture
<1>2. storeTime \in Nat /\ storeTime \in 0..storeTime /\ keeping \in [Keepers -> Keepings]
  BY StoreAssumption DEF ReasoningInvariant, StoreTypes
<1>3. state \in Keepings
  BY <1>2 DEF Keepings, Texting, IdSets
<1>4. ~Inside(k) /\ keeping'[k] = state
  BY <1>1, <1>2 DEF Inside, Absent, Go
<1>5. InStep => LonePhase(k)'
  <2>1. \A i \in DOMAIN captured : captured[i] <= storeTime
    BY DEF ReasoningInvariant, StoreTypes
  <2> QED BY <1>1, <1>4, <2>1 DEF LonePhase, InStep
<1> QED BY <1>1, <1>2, <1>3, <1>4, <1>5, Entering

LEMMA TextKeepsReasoning ==
  ASSUME ReasoningInvariant, NEW k \in Keepers, PutText(k)
  PROVE  ReasoningInvariant'
<1>1. StoreTypes /\ SureIsKept /\ keeping[k] \in Keepings /\ keeping[k].at = "text" /\ Inside(k)
  BY DEF ReasoningInvariant, StoreTypes, PutText, Inside
<1>2. keeping[k].left \in IdSets /\ keeping[k].now \in 0..storeTime /\ keeping[k].now \in Nat
  <2>1. keeping[k].left \in IdSets /\ keeping[k].now \in Nat
    BY <1>1 DEF Keepings, Absent, Texting, Timing, Pruning, Scanning, Walking, Measuring, Choosing, Dropping,
                Unstamping, Looking
  <2> QED BY <1>1, <2>1 DEF StoreTypes
<1>3. PICK i \in keeping[k].left :
        /\ texts' = texts \cup {i}
        /\ Stay(k, [at |-> "stamp", left |-> keeping[k].left, now |-> keeping[k].now, id |-> i])
  BY DEF PutText
<1>4. UNCHANGED <<stamps, storeTime, captured, sure>>
  BY DEF PutText
<1> DEFINE state == [at |-> "stamp", left |-> keeping[k].left, now |-> keeping[k].now, id |-> i]
<1>5. i \in CallIds /\ state \in Keepings /\ Go(k, state) /\ lone' = lone
  BY <1>2, <1>3 DEF Keepings, Timing, IdSets, Stay
<1>6. keeping' = [keeping EXCEPT ![k] = state] /\ keeping'[k] = state
  BY <1>1, <1>5 DEF Go, StoreTypes
<1>7. StoreTypes'
  <2>1. texts' \subseteq CallIds /\ IsFiniteSet(texts')
    BY <1>1, <1>3, <1>5, FS_AddElement DEF StoreTypes
  <2>2. keeping' \in [Keepers -> Keepings]
    BY <1>1, <1>5, <1>6 DEF StoreTypes
  <2>3. \A j \in Keepers : keeping'[j].at \in TimedAt => keeping'[j].now \in 0..storeTime
    BY <1>1, <1>2, <1>6 DEF StoreTypes, TimedAt
  <2> QED BY <1>1, <1>4, <1>5, <2>1, <2>2, <2>3 DEF StoreTypes, TimedAt
<1>8. SureIsKept'
  BY <1>1, <1>3, <1>4 DEF SureIsKept, Spent, AsLate
<1>9. CASE lone # k
  BY <1>1, <1>4, <1>5, <1>7, <1>9, OverlapsPromiseNothing, TypesAreEnough
<1>10. CASE lone = k
  <2>1. texts = DOMAIN stamps
    BY <1>1, <1>10 DEF ReasoningInvariant, LonePhase, InStep
  <2>2. \A j \in DOMAIN captured : captured[j] <= keeping[k].now
    BY <1>1, <1>10 DEF ReasoningInvariant, LonePhase
  <2>4. LonePhase(k)'
    BY <1>3, <1>4, <1>6, <2>1, <2>2 DEF LonePhase
  <2>3. lone' = k
    BY <1>5, <1>10
  <2> QED BY <1>5, <1>7, <1>8, <1>10, <2>3, <2>4, LoneGoesOn
<1> QED BY <1>9, <1>10

(* A later time in the table makes no other call younger.                    *)
LEMMA LaterCaptures ==
  ASSUME StoreTypes, NEW i \in CallIds, NEW t \in 0..storeTime,
         captured' = With(captured, i, t), storeTime' = storeTime,
         i \in DOMAIN captured => captured[i] <= t, NEW x \in DOMAIN captured, x # i, Spent(x)
  PROVE  Spent(x)'
<1>1. /\ DOMAIN captured' = DOMAIN captured \cup {i} /\ captured'[i] = t
      /\ \A j \in DOMAIN captured \ {i} : captured'[j] = captured[j]
  BY DEF With
<1>2. captured'[x] = captured[x]
  BY <1>1
<1>3. IsFiniteSet(DOMAIN captured) /\ IsFiniteSet(DOMAIN captured')
  BY <1>1, FS_AddElement DEF StoreTypes
<1>4. AsLate(captured, x) \subseteq AsLate(captured', x)
  <2> SUFFICES ASSUME NEW j \in DOMAIN captured \ {x}, captured[j] >= captured[x]
               PROVE  j \in DOMAIN captured' \ {x} /\ captured'[j] >= captured'[x]
    BY DEF AsLate
  <2>1. captured[j] \in 0..storeTime /\ captured[x] \in 0..storeTime
    BY DEF StoreTypes
  <2>2. CASE j = i
    BY <1>1, <1>2, <2>1, <2>2
  <2>3. CASE j # i
    BY <1>1, <1>2, <2>3
  <2> QED BY <2>2, <2>3
<1>5. IsFiniteSet(AsLate(captured', x))
  BY <1>3, FS_Subset DEF AsLate
<1>6. /\ Cardinality(AsLate(captured, x)) <= Cardinality(AsLate(captured', x))
      /\ Cardinality(AsLate(captured, x)) \in Nat /\ Cardinality(AsLate(captured', x)) \in Nat
  BY <1>4, <1>5, FS_Subset, FS_CardinalityType
<1> QED BY <1>2, <1>6, StoreAssumption DEF Spent

LEMMA StampKeepsReasoning ==
  ASSUME ReasoningInvariant, NEW k \in Keepers, PutStamp(k)
  PROVE  ReasoningInvariant'
<1> DEFINE i == keeping[k].id
           t == keeping[k].now
           left == keeping[k].left \ {i}
           state == IF left = {} THEN [at |-> "prune"] ELSE [at |-> "text", left |-> left, now |-> t]
<1>1. StoreTypes /\ SureIsKept /\ keeping[k] \in Keepings /\ keeping[k].at = "stamp" /\ Inside(k)
  BY DEF ReasoningInvariant, StoreTypes, PutStamp, Inside
<1>2. keeping[k].left \in IdSets /\ t \in 0..storeTime /\ t \in Nat /\ i \in CallIds
  <2>1. keeping[k].left \in IdSets /\ keeping[k].now \in Nat /\ keeping[k].id \in CallIds
    BY <1>1 DEF Keepings, Absent, Texting, Timing, Pruning, Scanning, Walking, Measuring, Choosing, Dropping,
                Unstamping, Looking
  <2> QED BY <1>1, <2>1 DEF StoreTypes
<1>3. /\ stamps' = With(stamps, i, t) /\ captured' = With(captured, i, t)
      /\ sure' = IF lone = k THEN sure \cup {i} ELSE sure
      /\ Stay(k, state) /\ UNCHANGED <<texts, storeTime>>
  BY DEF PutStamp
<1>4. /\ DOMAIN captured' = DOMAIN captured \cup {i} /\ captured'[i] = t
      /\ \A j \in DOMAIN captured \ {i} : captured'[j] = captured[j]
      /\ DOMAIN stamps' = DOMAIN stamps \cup {i} /\ stamps'[i] = t
      /\ \A j \in DOMAIN stamps \ {i} : stamps'[j] = stamps[j]
  BY <1>3 DEF With
<1>5. state \in Keepings /\ Go(k, state) /\ lone' = lone /\ state.at \in {"prune", "text"}
  BY <1>2, <1>3 DEF Keepings, Texting, Pruning, IdSets, Stay
<1>6. keeping' = [keeping EXCEPT ![k] = state] /\ keeping'[k] = state
  BY <1>1, <1>5 DEF Go, StoreTypes
<1>7. state.at = "text" => state.now = t
  OBVIOUS
<1> HIDE DEF i, t, state
<1>8. StoreTypes'
  <2>1. DOMAIN captured' \subseteq CallIds /\ IsFiniteSet(DOMAIN captured')
    BY <1>1, <1>2, <1>4, FS_AddElement DEF StoreTypes
  <2>2. \A j \in DOMAIN captured' : captured'[j] \in 0..storeTime
    BY <1>1, <1>2, <1>4 DEF StoreTypes
  <2>3. DOMAIN stamps' \subseteq DOMAIN captured' /\ \A j \in DOMAIN stamps' : stamps'[j] = captured'[j]
    BY <1>1, <1>4 DEF StoreTypes
  <2>4. keeping' \in [Keepers -> Keepings]
    BY <1>1, <1>5, <1>6 DEF StoreTypes
  <2>5. \A j \in Keepers : keeping'[j].at \in TimedAt => keeping'[j].now \in 0..storeTime
    BY <1>1, <1>2, <1>5, <1>6, <1>7 DEF StoreTypes, TimedAt
  <2>6. sure' \subseteq DOMAIN captured'
    BY <1>1, <1>3, <1>4 DEF StoreTypes
  <2> QED BY <1>1, <1>3, <1>5, <2>1, <2>2, <2>3, <2>4, <2>5, <2>6 DEF StoreTypes, TimedAt
<1>9. CASE lone # k
  BY <1>1, <1>3, <1>5, <1>8, <1>9, OverlapsPromiseNothing, TypesAreEnough
<1>10. CASE lone = k
  <2>1. texts = DOMAIN stamps \cup {i} /\ \A j \in DOMAIN captured : captured[j] <= t
    BY <1>1, <1>10 DEF ReasoningInvariant, LonePhase, i, t
  <2>2. SureIsKept'
    <3> SUFFICES ASSUME NEW x \in sure' PROVE Spent(x)' \/ (x \in texts' /\ x \in DOMAIN stamps')
      BY DEF SureIsKept
    <3>1. CASE x = i
      BY <1>3, <1>4, <2>1, <3>1
    <3>2. CASE x # i
      <4>1. x \in sure /\ x \in DOMAIN captured
        BY <1>1, <1>3, <3>2 DEF StoreTypes
      <4>2. CASE Spent(x)
        <5>1. Spent(x)'
          BY <1>1, <1>2, <1>3, <2>1, <3>2, <4>1, <4>2, LaterCaptures
        <5> QED BY <5>1
      <4>3. CASE ~Spent(x)
        BY <1>1, <1>3, <1>4, <4>1, <4>3 DEF SureIsKept
      <4> QED BY <4>2, <4>3
    <3> QED BY <3>1, <3>2
  <2>3. LonePhase(k)'
    <3>1. InStep'
      BY <1>3, <1>4, <2>1 DEF InStep
    <3>2. \A j \in DOMAIN captured' : captured'[j] <= t
      BY <1>2, <1>4, <2>1
    <3> QED BY <1>5, <1>6, <1>7, <3>1, <3>2 DEF LonePhase
  <2>4. lone' = k
    BY <1>5, <1>10
  <2> QED BY <1>5, <1>8, <1>10, <2>2, <2>3, <2>4, LoneGoesOn
<1> QED BY <1>9, <1>10

-----------------------------------------------------------------------------
(* The steps of _prune: a clock, a walk, what to forget, forgetting it.      *)
LEMMA WalkingKeepsReasoning ==
  ASSUME ReasoningInvariant, NEW k \in Keepers,
         ReadClock(k) \/ StartScan(k) \/ ScanKey(k) \/ EndScan(k) \/ ScanFails(k)
  PROVE  ReasoningInvariant'
<1>1. StoreTypes /\ SureIsKept /\ keeping[k] \in Keepings /\ keeping \in [Keepers -> Keepings]
      /\ storeTime \in Nat /\ storeTime \in 0..storeTime /\ DOMAIN stamps \in IdSets
  BY StoreAssumption DEF ReasoningInvariant, StoreTypes, IdSets
<1>2. UNCHANGED <<texts, stamps, storeTime, captured, sure>> /\ Inside(k)
  BY DEF ReadClock, StartScan, ScanKey, EndScan, ScanFails, Inside
<1>3. \A i : Spent(i)' = Spent(i)
  BY <1>2 DEF Spent, AsLate
<1>4. InStep' = InStep
  BY <1>2 DEF InStep
<1>5. lone = k => LonePhase(k)
  BY DEF ReasoningInvariant
<1>6. CASE ReadClock(k)
  <2> DEFINE state == [at |-> "scan", now |-> storeTime]
  <2>1. Stay(k, state) /\ keeping[k].at = "prune"
    BY <1>6 DEF ReadClock
  <2>2. state \in Keepings /\ keeping'[k] = state
    BY <1>1, <2>1 DEF Keepings, Scanning, Stay, Go
  <2>3. lone = k => LonePhase(k)'
    BY <1>4, <1>5, <2>1, <2>2 DEF LonePhase
  <2> QED BY <1>1, <1>2, <2>1, <2>2, <2>3, QuietStep
<1>7. CASE StartScan(k)
  <2> DEFINE state == [at |-> "walk", now |-> keeping[k].now, keys |-> DOMAIN stamps, seen |-> {}, doomed |-> {}]
  <2>1. Stay(k, state) /\ keeping[k].at = "scan"
    BY <1>7 DEF StartScan
  <2>2. keeping[k].now \in Nat /\ keeping[k].now \in 0..storeTime
    BY <1>1, <2>1 DEF StoreTypes
  <2>3. state \in Keepings /\ keeping'[k] = state
    BY <1>1, <2>1, <2>2 DEF Keepings, Walking, IdSets, Stay, Go
  <2>4. lone = k => LonePhase(k)'
    BY <1>2, <1>4, <1>5, <2>1, <2>3 DEF LonePhase
  <2> QED BY <1>1, <1>2, <2>1, <2>2, <2>3, <2>4, QuietStep
<1>8. ASSUME keeping[k].at = "walk"
      PROVE  /\ keeping[k] = [at |-> "walk", now |-> keeping[k].now, keys |-> keeping[k].keys,
                              seen |-> keeping[k].seen, doomed |-> keeping[k].doomed]
             /\ keeping[k].now \in Nat /\ keeping[k].now \in 0..storeTime
             /\ keeping[k].keys \in IdSets /\ keeping[k].seen \in IdSets /\ keeping[k].doomed \in IdSets
             /\ keeping[k] \in Walking
  <2>1. keeping[k] \in Walking
    BY <1>1, <1>8 DEF Keepings, Absent, Texting, Timing, Pruning, Scanning, Walking, Measuring, Choosing, Dropping,
                      Unstamping, Looking
  <2> QED BY <1>1, <1>8, <2>1 DEF Walking, StoreTypes
<1>9. CASE ScanKey(k)
  <2> DEFINE grown(i) == IF Expired(keeping[k].now, stamps[i]) THEN keeping[k].doomed \cup {i} ELSE keeping[k].doomed
  <2>1. PICK i \in DOMAIN stamps \ keeping[k].seen :
          Stay(k, [at |-> "walk", now |-> keeping[k].now, keys |-> keeping[k].keys,
                   seen |-> keeping[k].seen \cup {i}, doomed |-> grown(i)])
    BY <1>9 DEF ScanKey
  <2> DEFINE doomed == grown(i)
             state == [at |-> "walk", now |-> keeping[k].now, keys |-> keeping[k].keys,
                       seen |-> keeping[k].seen \cup {i}, doomed |-> doomed]
  <2>2. keeping[k].at = "walk"
    BY <1>9 DEF ScanKey
  <2>3. Stay(k, state)
    BY <2>1
  <2>4. i \in CallIds /\ i \in DOMAIN captured /\ stamps[i] = captured[i] /\ captured[i] \in 0..storeTime
    BY <1>1 DEF StoreTypes
  <2>5. state \in Keepings /\ keeping'[k] = state
    BY <1>1, <1>8, <2>2, <2>3, <2>4 DEF Keepings, Walking, IdSets, Stay, Go
  <2>6. Expired(keeping[k].now, stamps[i]) => Spent(i)
    BY <1>1, <1>8, <2>2, <2>4, StoreAssumption DEF Spent, Expired
  <2>7. lone = k => \A x \in doomed : x \in DOMAIN captured /\ Spent(x)
    BY <1>5, <2>2, <2>4, <2>6 DEF LonePhase
  <2>8. lone = k => LonePhase(k)'
    <3> HIDE DEF doomed
    <3> QED BY <1>2, <1>3, <1>4, <1>5, <2>2, <2>5, <2>7 DEF LonePhase
  <2> HIDE DEF state
  <2>9. state.at = "walk" /\ state.now \in 0..storeTime
    BY <1>8, <2>2 DEF state
  <2> QED BY <1>2, <2>3, <2>5, <2>8, <2>9, QuietStep
<1>10. CASE EndScan(k)
  <2> DEFINE state == IF keeping[k].doomed = {} THEN [at |-> "measure"]
                      ELSE [at |-> "forget", doomed |-> keeping[k].doomed, next |-> "measure"]
  <2>1. Stay(k, state) /\ keeping[k].at = "walk"
    BY <1>10 DEF EndScan
  <2>2. state \in Keepings /\ keeping'[k] = state /\ state.at \in {"measure", "forget"}
    BY <1>1, <1>8, <2>1 DEF Keepings, Measuring, Dropping, IdSets, Afterwards, Stay, Go
  <2>3. state.at = "forget" => state.doomed = keeping[k].doomed /\ state.next = "measure"
    OBVIOUS
  <2> HIDE DEF state
  <2>4. lone = k => LonePhase(k)'
    BY <1>2, <1>3, <1>4, <1>5, <2>1, <2>2, <2>3 DEF LonePhase
  <2> QED BY <1>2, <2>1, <2>2, <2>4, QuietStep DEF TimedAt
<1>11. CASE ScanFails(k)
  <2>1. Leave(k) /\ keeping[k].at = "walk" /\ DOMAIN stamps # keeping[k].keys
    BY <1>11 DEF ScanFails
  <2>2. lone # k
    BY <1>5, <2>1 DEF LonePhase
  <2> QED BY <1>2, <2>1, <2>2, QuietLeave
<1> QED BY <1>6, <1>7, <1>9, <1>10, <1>11

LEMMA MeasuringKeepsReasoning ==
  ASSUME ReasoningInvariant, NEW k \in Keepers, Measure(k)
  PROVE  ReasoningInvariant'
<1> DEFINE overflow == Cardinality(texts) - StoreMax
           state == [at |-> "choose", overflow |-> overflow]
<1>1. /\ keeping[k].at = "measure" /\ Inside(k) /\ UNCHANGED <<texts, stamps, storeTime, captured, sure>>
      /\ IF overflow > 0 THEN Stay(k, state) ELSE Leave(k)
  BY DEF Measure, Inside
<1>2. Cardinality(texts) \in Nat /\ keeping \in [Keepers -> Keepings]
  BY FS_CardinalityType DEF ReasoningInvariant, StoreTypes
<1>3. lone = k => InStep
  BY <1>1 DEF ReasoningInvariant, LonePhase
<1>4. CASE overflow > 0
  <2>1. state \in Keepings /\ Stay(k, state)
    BY <1>1, <1>2, <1>4, StoreAssumption DEF Keepings, Choosing
  <2>2. keeping'[k] = state
    BY <1>2, <2>1 DEF Stay, Go
  <2>3. lone = k => LonePhase(k)'
    BY <1>1, <1>3, <2>2 DEF LonePhase, InStep
  <2> QED BY <1>1, <2>1, <2>3, QuietStep DEF TimedAt
<1>5. CASE ~(overflow > 0)
  <2>1. Leave(k) /\ Cardinality(texts) <= StoreMax
    BY <1>1, <1>2, <1>5, StoreAssumption
  <2> QED BY <1>1, <1>3, <2>1, QuietLeave
<1> QED BY <1>4, <1>5

(* The oldest make room: the others are at least max_entries, all as late.   *)
LEMMA ChoosingKeepsReasoning ==
  ASSUME ReasoningInvariant, NEW k \in Keepers, Choose(k)
  PROVE  ReasoningInvariant'
<1>1. /\ keeping[k].at = "choose" /\ Inside(k) /\ UNCHANGED <<texts, stamps, storeTime, captured, sure>>
  BY DEF Choose, Inside
<1>2. PICK S \in Oldest(stamps, keeping[k].overflow) :
        IF S = {} THEN Leave(k) ELSE Stay(k, [at |-> "forget", doomed |-> S, next |-> "absent"])
  BY DEF Choose
<1>3. StoreTypes /\ keeping[k] \in Keepings /\ keeping \in [Keepers -> Keepings]
  BY DEF ReasoningInvariant, StoreTypes
<1>4. /\ S \subseteq DOMAIN stamps /\ DOMAIN stamps \subseteq CallIds /\ IsFiniteSet(DOMAIN stamps)
      /\ \A i \in S, j \in DOMAIN stamps \ S : stamps[i] <= stamps[j]
  BY <1>3, FS_Subset DEF Oldest, StoreTypes
<1>5. ASSUME lone = k
      PROVE  /\ InStep /\ Cardinality(texts \ S) = StoreMax
             /\ \A i \in S : Spent(i)
  <2>1. InStep /\ keeping[k].overflow = Cardinality(texts) - StoreMax
    BY <1>1, <1>5 DEF ReasoningInvariant, LonePhase
  <2>2. Cardinality(texts) \in Nat /\ keeping[k].overflow \in Nat
    <3>1. keeping[k] \in Choosing
      BY <1>1, <1>3 DEF Keepings, Absent, Texting, Timing, Pruning, Scanning, Walking, Measuring, Choosing, Dropping,
                        Unstamping, Looking
    <3> QED BY <1>3, <3>1, FS_CardinalityType DEF StoreTypes, Choosing
  <2>3. texts = DOMAIN stamps
    BY <2>1 DEF InStep
  <2>4. Cardinality(S) = keeping[k].overflow
    BY <2>1, <2>2, <2>3, StoreAssumption DEF Oldest
  <2>5. Cardinality(texts \ S) = StoreMax
    <3>1. Cardinality(texts \ S) = Cardinality(texts) - Cardinality(texts \cap S) /\ texts \cap S = S
      BY <1>4, <2>3, FS_Difference
    <3>2. Cardinality(texts \ S) = Cardinality(texts) - Cardinality(S)
      BY <3>1
    <3>3. Cardinality(S) = Cardinality(texts) - StoreMax
      BY <2>1, <2>4
    <3> QED BY <2>2, <3>2, <3>3, StoreAssumption
  <2>6. ASSUME NEW i \in S PROVE Spent(i)
    <3>1. texts \ S \subseteq AsLate(captured, i)
      <4> SUFFICES ASSUME NEW j \in texts \ S PROVE j \in DOMAIN captured \ {i} /\ captured[j] >= captured[i]
        BY DEF AsLate
      <4>1. j \in DOMAIN stamps \ S /\ stamps[i] <= stamps[j] /\ j # i
        BY <1>4, <2>3
      <4>2. stamps[j] = captured[j] /\ stamps[i] = captured[i] /\ j \in DOMAIN captured /\ i \in DOMAIN captured
        BY <1>3, <1>4, <4>1 DEF StoreTypes
      <4>3. captured[j] \in 0..storeTime /\ captured[i] \in 0..storeTime
        BY <1>3, <4>2 DEF StoreTypes
      <4> QED BY <4>1, <4>2, <4>3
    <3>2. IsFiniteSet(AsLate(captured, i))
      BY <1>3, FS_Subset DEF StoreTypes, AsLate
    <3>3. Cardinality(texts \ S) <= Cardinality(AsLate(captured, i)) /\ Cardinality(AsLate(captured, i)) \in Nat
      BY <3>1, <3>2, FS_Subset, FS_CardinalityType
    <3> QED BY <2>5, <3>3, StoreAssumption DEF Spent
  <2> QED BY <2>1, <2>5, <2>6
<1>6. CASE S = {}
  <2>1. texts \ S = texts /\ Leave(k)
    BY <1>2, <1>6
  <2>2. lone = k => InStep /\ Cardinality(texts) <= StoreMax
    BY <1>5, <2>1, StoreAssumption
  <2> QED BY <1>1, <2>1, <2>2, QuietLeave
<1>7. CASE S # {}
  <2> DEFINE state == [at |-> "forget", doomed |-> S, next |-> "absent"]
  <2>1. Stay(k, state) /\ state \in Keepings
    BY <1>2, <1>4, <1>7 DEF Keepings, Dropping, IdSets, Afterwards
  <2>2. keeping'[k] = state
    BY <1>3, <2>1 DEF Stay, Go
  <2>3. \A i : Spent(i)' = Spent(i)
    BY <1>1 DEF Spent, AsLate
  <2>4. lone = k => LonePhase(k)'
    <3> SUFFICES ASSUME lone = k PROVE LonePhase(k)'
      OBVIOUS
    <3>1. \A i \in S : i \in DOMAIN captured'
      BY <1>1, <1>3, <1>4 DEF StoreTypes
    <3>2. InStep' /\ Cardinality(texts' \ S) <= StoreMax
      BY <1>1, <1>5, StoreAssumption DEF InStep
    <3> QED BY <1>5, <2>2, <2>3, <3>1, <3>2 DEF LonePhase
  <2> QED BY <1>1, <2>1, <2>4, QuietStep DEF TimedAt
<1> QED BY <1>6, <1>7

(* One entry goes from one dict and then from the other.                     *)
LEMMA UntextKeepsReasoning ==
  ASSUME ReasoningInvariant, NEW k \in Keepers, ForgetText(k)
  PROVE  ReasoningInvariant'
<1>1. StoreTypes /\ SureIsKept /\ keeping[k] \in Keepings /\ keeping[k].at = "forget" /\ Inside(k)
  BY DEF ReasoningInvariant, StoreTypes, ForgetText, Inside
<1>2. keeping[k].doomed \in IdSets /\ keeping[k].next \in Afterwards
  BY <1>1 DEF Keepings, Absent, Texting, Timing, Pruning, Scanning, Walking, Measuring, Choosing, Dropping,
              Unstamping, Looking
<1>3. PICK i \in keeping[k].doomed :
        /\ texts' = texts \ {i}
        /\ Stay(k, [at |-> "unstamp", doomed |-> keeping[k].doomed, next |-> keeping[k].next, id |-> i])
  BY DEF ForgetText
<1>4. UNCHANGED <<stamps, storeTime, captured, sure>>
  BY DEF ForgetText
<1> DEFINE state == [at |-> "unstamp", doomed |-> keeping[k].doomed, next |-> keeping[k].next, id |-> i]
<1>5. state \in Keepings /\ Go(k, state) /\ lone' = lone
  BY <1>2, <1>3 DEF Keepings, Unstamping, IdSets, Stay
<1>6. keeping' = [keeping EXCEPT ![k] = state] /\ keeping'[k] = state
  BY <1>1, <1>5 DEF Go, StoreTypes
<1>7. StoreTypes'
  <2>1. texts' \subseteq CallIds /\ IsFiniteSet(texts')
    BY <1>1, <1>3, FS_Subset DEF StoreTypes
  <2>2. keeping' \in [Keepers -> Keepings]
    BY <1>1, <1>5, <1>6 DEF StoreTypes
  <2>3. \A j \in Keepers : keeping'[j].at \in TimedAt => keeping'[j].now \in 0..storeTime
    BY <1>1, <1>6 DEF StoreTypes, TimedAt
  <2> QED BY <1>1, <1>4, <1>5, <2>1, <2>2, <2>3 DEF StoreTypes, TimedAt
<1>8. \A x : Spent(x)' = Spent(x)
  BY <1>4 DEF Spent, AsLate
<1>9. CASE lone # k
  BY <1>1, <1>4, <1>5, <1>7, <1>9, OverlapsPromiseNothing, TypesAreEnough
<1>10. CASE lone = k
  <2>1. LonePhase(k)
    BY <1>10 DEF ReasoningInvariant
  <2>2. texts = DOMAIN stamps /\ \A x \in keeping[k].doomed : x \in DOMAIN captured /\ Spent(x)
    BY <1>1, <2>1 DEF LonePhase, InStep
  <2>3. texts' \ keeping[k].doomed = texts \ keeping[k].doomed
    BY <1>3
  <2>4. LonePhase(k)'
    BY <1>1, <1>3, <1>4, <1>6, <1>8, <2>1, <2>2, <2>3 DEF LonePhase
  <2>5. SureIsKept'
    BY <1>1, <1>3, <1>4, <1>8, <2>2 DEF SureIsKept
  <2>6. lone' = k
    BY <1>5, <1>10
  <2> QED BY <1>5, <1>7, <1>10, <2>4, <2>5, <2>6, LoneGoesOn
<1> QED BY <1>9, <1>10

LEMMA UnstampKeepsReasoning ==
  ASSUME ReasoningInvariant, NEW k \in Keepers, ForgetStamp(k)
  PROVE  ReasoningInvariant'
<1> DEFINE i == keeping[k].id
           doomed == keeping[k].doomed \ {i}
           next == keeping[k].next
<1>1. StoreTypes /\ SureIsKept /\ keeping[k] \in Keepings /\ keeping[k].at = "unstamp" /\ Inside(k)
      /\ keeping \in [Keepers -> Keepings]
  BY DEF ReasoningInvariant, StoreTypes, ForgetStamp, Inside
<1>2. keeping[k].doomed \in IdSets /\ doomed \in IdSets /\ next \in Afterwards
  BY <1>1 DEF Keepings, Absent, Texting, Timing, Pruning, Scanning, Walking, Measuring, Choosing, Dropping,
              Unstamping, Looking, IdSets
<1>3. /\ stamps' = [j \in DOMAIN stamps \ {i} |-> stamps[j]]
      /\ UNCHANGED <<texts, storeTime, captured, sure>>
  BY DEF ForgetStamp
<1>4. \/ doomed # {} /\ Stay(k, [at |-> "forget", doomed |-> doomed, next |-> next])
      \/ doomed = {} /\ next = "measure" /\ Stay(k, [at |-> "measure"])
      \/ doomed = {} /\ next = "absent" /\ Leave(k)
  BY DEF ForgetStamp
<1> HIDE DEF i, doomed, next
<1>5. DOMAIN stamps' = DOMAIN stamps \ {i} /\ \A j \in DOMAIN stamps' : stamps'[j] = stamps[j]
  BY <1>3
<1>6. ASSUME NEW state \in Keepings, Go(k, state), state.at \notin TimedAt, lone' \in Keepers \cup {Nobody}
      PROVE  StoreTypes' /\ keeping'[k] = state
  <2>1. keeping' = [keeping EXCEPT ![k] = state]
    BY <1>6 DEF Go
  <2>2. keeping' \in [Keepers -> Keepings] /\ keeping'[k] = state
    BY <1>1, <2>1
  <2>3. \A j \in Keepers : keeping'[j].at \in TimedAt => keeping'[j].now \in 0..storeTime
    BY <1>1, <1>6, <2>1 DEF StoreTypes, TimedAt
  <2> QED BY <1>1, <1>3, <1>5, <1>6, <2>2, <2>3 DEF StoreTypes, TimedAt
<1>7. \A x : Spent(x)' = Spent(x)
  BY <1>3 DEF Spent, AsLate
<1>8. ASSUME lone = k
      PROVE  /\ InStep' /\ \A x \in keeping[k].doomed : x \in DOMAIN captured /\ Spent(x)
             /\ next = "absent" /\ sure # {} => Cardinality(texts \ doomed) <= StoreMax
             /\ i \in keeping[k].doomed
  <2>1. LonePhase(k)
    BY <1>8 DEF ReasoningInvariant
  <2>2. i \in keeping[k].doomed /\ texts = DOMAIN stamps \ {i}
        /\ \A x \in keeping[k].doomed : x \in DOMAIN captured /\ Spent(x)
    BY <1>1, <2>1 DEF LonePhase, i
  <2>3. texts \ doomed = texts \ keeping[k].doomed
    BY <2>2 DEF doomed
  <2>4. InStep'
    BY <1>3, <1>5, <2>2 DEF InStep
  <2> QED BY <1>1, <2>1, <2>2, <2>3, <2>4 DEF LonePhase, next
<1>9. SureIsKept'
  <2>1. CASE lone = k
    <3>1. Spent(i)
      BY <1>8, <2>1
    <3> QED BY <1>1, <1>3, <1>5, <1>7, <3>1 DEF SureIsKept
  <2>2. CASE lone # k
    BY <1>1, <1>3, <2>2, OverlapsPromiseNothing DEF SureIsKept
  <2> QED BY <2>1, <2>2
<1>10. ASSUME NEW state \in Keepings, Stay(k, state), state.at \in {"forget", "measure"}, lone = k => LonePhase(k)'
       PROVE  ReasoningInvariant'
  <2>1. Go(k, state) /\ lone' = lone /\ lone' \in Keepers \cup {Nobody} /\ state.at \notin TimedAt
    BY <1>1, <1>10 DEF Stay, StoreTypes, TimedAt
  <2>2. StoreTypes'
    BY <1>6, <2>1
  <2>3. CASE lone # k
    BY <1>1, <1>3, <2>1, <2>2, <2>3, OverlapsPromiseNothing, TypesAreEnough
  <2>4. CASE lone = k
    BY <1>9, <1>10, <2>1, <2>2, <2>4, LoneGoesOn
  <2> QED BY <2>3, <2>4
<1>11. CASE doomed # {} /\ Stay(k, [at |-> "forget", doomed |-> doomed, next |-> next])
  <2> DEFINE state == [at |-> "forget", doomed |-> doomed, next |-> next]
  <2>1. state \in Keepings /\ Stay(k, state)
    BY <1>2, <1>11 DEF Keepings, Dropping
  <2>2. keeping'[k] = state
    BY <1>1, <2>1 DEF Stay, Go
  <2>3. lone = k => LonePhase(k)'
    <3> SUFFICES ASSUME lone = k PROVE LonePhase(k)'
      OBVIOUS
    <3>1. \A x \in doomed : x \in DOMAIN captured' /\ Spent(x)'
      BY <1>3, <1>7, <1>8 DEF doomed
    <3>2. next = "absent" /\ sure' # {} => Cardinality(texts' \ doomed) <= StoreMax
      BY <1>3, <1>8
    <3>3. InStep'
      BY <1>8
    <3> QED BY <2>2, <3>1, <3>2, <3>3 DEF LonePhase
  <2> QED BY <1>10, <2>1, <2>3
<1>12. CASE doomed = {} /\ next = "measure" /\ Stay(k, [at |-> "measure"])
  <2> DEFINE state == [at |-> "measure"]
  <2>1. state \in Keepings /\ Stay(k, state)
    BY <1>12 DEF Keepings, Measuring
  <2>2. keeping'[k] = state
    BY <1>1, <2>1 DEF Stay, Go
  <2>3. lone = k => LonePhase(k)'
    BY <1>8, <2>2 DEF LonePhase
  <2> QED BY <1>10, <2>1, <2>3
<1>13. CASE doomed = {} /\ next = "absent" /\ Leave(k)
  <2>1. Go(k, Absent) /\ Absent \in Keepings /\ Absent.at \notin TimedAt /\ lone' \in Keepers \cup {Nobody}
    BY <1>1, <1>13 DEF Leave, StoreTypes, Keepings, Absent, TimedAt
  <2>2. StoreTypes'
    BY <1>6, <2>1
  <2>3. texts \ doomed = texts
    BY <1>13
  <2>4. lone = k => InStep' /\ (sure # {} => Cardinality(texts') <= StoreMax)
    BY <1>3, <1>8, <1>13, <2>3
  <2> QED BY <1>1, <1>3, <1>9, <1>13, <2>2, <2>4, LoneLeaves
<1> QED BY <1>4, <1>11, <1>12, <1>13

-----------------------------------------------------------------------------
(* Lookups and time.                                                         *)
LEMMA LookingKeepsReasoning ==
  ASSUME ReasoningInvariant, NEW k \in Keepers,
         (\E i \in CallIds : StartLookup(k, i)) \/ LookupIsOver(k)
  PROVE  ReasoningInvariant'
<1>1. UNCHANGED <<texts, stamps, storeTime, captured, sure>> /\ ~Inside(k)
  <2>1. ASSUME NEW i \in CallIds, StartLookup(k, i)
        PROVE  UNCHANGED <<texts, stamps, storeTime, captured, sure>> /\ keeping[k].at = "absent"
    BY <2>1 DEF StartLookup, Absent
  <2>2. ASSUME LookupIsOver(k)
        PROVE  UNCHANGED <<texts, stamps, storeTime, captured, sure>> /\ keeping[k].at = "look"
    BY <2>2 DEF LookupIsOver
  <2> QED BY <2>1, <2>2 DEF Inside
<1>2. ASSUME NEW i \in CallIds, StartLookup(k, i) PROVE ReasoningInvariant'
  <2> DEFINE state == [at |-> "look", id |-> i, since |-> stamps[i]]
  <2>1. Stay(k, state) /\ i \in DOMAIN stamps
    BY <1>2 DEF StartLookup
  <2>2. stamps[i] \in Nat
    BY <2>1, StoreAssumption DEF ReasoningInvariant, StoreTypes
  <2>3. state \in Keepings
    BY <2>2 DEF Keepings, Looking
  <2> QED BY <1>1, <2>1, <2>3, LookingIsHarmless
<1>3. CASE LookupIsOver(k)
  <2>1. Stay(k, Absent) /\ Absent \in Keepings /\ Absent.at \in {"absent", "look"}
    BY <1>3 DEF LookupIsOver, Keepings, Absent
  <2> QED BY <1>1, <2>1, LookingIsHarmless
<1> QED BY <1>2, <1>3

LEMMA ExpiryKeepsReasoning ==
  ASSUME ReasoningInvariant, NEW k \in Keepers, LookupForgets(k)
  PROVE  ReasoningInvariant'
<1>1. PICK i : i = keeping[k].id
  OBVIOUS
<1>2. PICK since : since = keeping[k].since
  OBVIOUS
<1> DEFINE current == i \in DOMAIN stamps /\ stamps[i] = since
           state == [at |-> "forget", doomed |-> {i}, next |-> "absent"]
<1>3. /\ keeping[k].at = "look" /\ Expired(storeTime, since) /\ Go(k, state)
      /\ (current /\ Enter(k)) \/ (~current /\ lone' = Nobody /\ sure' = {})
      /\ UNCHANGED <<texts, stamps, storeTime, captured>>
  BY <1>1, <1>2 DEF LookupForgets
<1>4. StoreTypes /\ SureIsKept /\ keeping[k] \in Keepings /\ keeping \in [Keepers -> Keepings]
  BY DEF ReasoningInvariant, StoreTypes
<1>5. i \in CallIds
  BY <1>1, <1>3, <1>4 DEF Keepings, Absent, Texting, Timing, Pruning, Scanning, Walking, Measuring, Choosing, Dropping,
                    Unstamping, Looking
<1>6. state \in Keepings /\ keeping'[k] = state /\ state.at \notin TimedAt /\ ~Inside(k)
  BY <1>3, <1>4, <1>5 DEF Keepings, Dropping, IdSets, Afterwards, Go, TimedAt, Inside
<1>7. CASE current /\ Enter(k)
  <2>1. i \in DOMAIN captured /\ captured[i] = since
    BY <1>4, <1>7 DEF StoreTypes
  <2>2. Spent(i)
    BY <1>3, <2>1 DEF Spent
  <2>3. Spent(i)'
    BY <1>3, <2>2 DEF Spent, AsLate
  <2>4. ASSUME Alone(k), InStep PROVE LonePhase(k)'
    <3>1. sure # {} => Cardinality(texts \ {i}) <= StoreMax
      <4> SUFFICES ASSUME sure # {} PROVE Cardinality(texts \ {i}) <= StoreMax
        OBVIOUS
      <4>1. Cardinality(texts) <= StoreMax
        BY <1>6, <2>4, NobodyThere DEF NobodyIn
      <4>2. /\ Cardinality(texts \ {i}) <= Cardinality(texts)
            /\ Cardinality(texts \ {i}) \in Nat /\ Cardinality(texts) \in Nat
        BY <1>4, FS_Subset, FS_CardinalityType DEF StoreTypes
      <4> QED BY <4>1, <4>2, StoreAssumption
    <3>2. InStep' /\ texts' = texts /\ captured' = captured /\ sure' \subseteq sure
      BY <1>3, <1>7, <2>4 DEF InStep, Enter
    <3> QED BY <1>6, <2>1, <2>3, <3>1, <3>2 DEF LonePhase
  <2> QED BY <1>3, <1>6, <1>7, <2>4, Entering
<1>8. CASE ~current /\ lone' = Nobody /\ sure' = {}
  <2>1. StoreTypes'
    BY <1>3, <1>4, <1>6, <1>8, OnlyTheThreadMoves
  <2> QED BY <1>8, <2>1, TypesAreEnough
<1> QED BY <1>3, <1>7, <1>8

LEMMA TimeKeepsReasoning ==
  ASSUME ReasoningInvariant, StoreTick
  PROVE  ReasoningInvariant'
<1>1. /\ storeTime' = storeTime + 1 /\ storeTime < MaxTime /\ storeTime \in Nat
      /\ UNCHANGED <<texts, stamps, keeping, captured, lone, sure>> /\ StoreTypes /\ SureIsKept
  BY StoreAssumption DEF StoreTick, ReasoningInvariant, StoreTypes
<1>2. ASSUME NEW i \in DOMAIN captured, Spent(i) PROVE Spent(i)'
  <2>1. captured[i] \in 0..storeTime
    BY <1>1 DEF StoreTypes
  <2>2. Expired(storeTime, captured[i]) => Expired(storeTime', captured[i])
    BY <1>1, <2>1, StoreAssumption DEF Expired
  <2>3. AsLate(captured, i)' = AsLate(captured, i)
    BY <1>1 DEF AsLate
  <2> QED BY <1>1, <1>2, <2>2, <2>3 DEF Spent
<1>3. StoreTypes'
  <2>1. storeTime' \in 0..MaxTime /\ \A t \in 0..storeTime : t \in 0..storeTime'
    BY <1>1, StoreAssumption
  <2> QED BY <1>1, <2>1 DEF StoreTypes
<1>4. SureIsKept'
  BY <1>1, <1>2 DEF SureIsKept, StoreTypes
<1>5. ASSUME NEW k \in Keepers, lone' = k PROVE Inside(k)' /\ Alone(k)' /\ LonePhase(k)'
  <2>1. Inside(k) /\ Alone(k) /\ LonePhase(k)
    BY <1>1, <1>5 DEF ReasoningInvariant
  <2>2. LonePhase(k)'
    BY <1>1, <1>2, <2>1 DEF LonePhase, InStep
  <2> QED BY <1>1, <2>1, <2>2 DEF Inside, Alone
<1>6. NobodyIn' = NobodyIn
  BY <1>1 DEF NobodyIn, Inside, InStep
<1> QED BY <1>1, <1>3, <1>4, <1>5, <1>6 DEF ReasoningInvariant

(* Captures, the walks, counts and pops of _prune, lookups and time.         *)
LEMMA ReasoningStays == ReasoningInvariant /\ [ReasoningNext]_storeVars => ReasoningInvariant'
<1> SUFFICES ASSUME ReasoningInvariant, [ReasoningNext]_storeVars PROVE ReasoningInvariant'
  OBVIOUS
<1>1. ASSUME NEW k \in Keepers, \E turn \in Turns : StartCapture(k, turn) PROVE ReasoningInvariant'
  BY <1>1, StartingKeepsReasoning
<1>2. ASSUME NEW k \in Keepers, PutText(k) \/ PutStamp(k) PROVE ReasoningInvariant'
  BY <1>2, TextKeepsReasoning, StampKeepsReasoning
<1>3. ASSUME NEW k \in Keepers, ReadClock(k) \/ StartScan(k) \/ ScanKey(k) \/ EndScan(k) \/ ScanFails(k)
      PROVE  ReasoningInvariant'
  BY <1>3, WalkingKeepsReasoning
<1>4. ASSUME NEW k \in Keepers, Measure(k) \/ Choose(k) PROVE ReasoningInvariant'
  BY <1>4, MeasuringKeepsReasoning, ChoosingKeepsReasoning
<1>5. ASSUME NEW k \in Keepers, ForgetText(k) \/ ForgetStamp(k) PROVE ReasoningInvariant'
  BY <1>5, UntextKeepsReasoning, UnstampKeepsReasoning
<1>6. ASSUME NEW k \in Keepers, (\E i \in CallIds : StartLookup(k, i)) \/ LookupIsOver(k) PROVE ReasoningInvariant'
  BY <1>6, LookingKeepsReasoning
<1>7. ASSUME NEW k \in Keepers, LookupForgets(k) PROVE ReasoningInvariant'
  BY <1>7, ExpiryKeepsReasoning
<1>8. CASE StoreTick
  BY <1>8, TimeKeepsReasoning
<1>9. CASE UNCHANGED storeVars
  <2>1. UNCHANGED <<texts, stamps, storeTime, keeping, captured, lone, sure>>
    BY <1>9 DEF storeVars
  <2>2. StoreTypes' = StoreTypes
    BY <2>1 DEF StoreTypes
  <2>3. \A i : Spent(i)' = Spent(i)
    BY <2>1 DEF Spent, AsLate
  <2>4. \A k : Inside(k)' = Inside(k) /\ Alone(k)' = Alone(k)
    BY <2>1 DEF Inside, Alone
  <2>5. \A k : LonePhase(k)' = LonePhase(k)
    BY <2>1, <2>3 DEF LonePhase, InStep
  <2>6. SureIsKept' = SureIsKept /\ NobodyIn' = NobodyIn
    BY <2>1, <2>3, <2>4 DEF SureIsKept, NobodyIn, InStep
  <2> QED BY <2>1, <2>2, <2>4, <2>5, <2>6 DEF ReasoningInvariant
<1> QED BY <1>1, <1>2, <1>3, <1>4, <1>5, <1>6, <1>7, <1>8, <1>9 DEF ReasoningNext
===============================================================================
