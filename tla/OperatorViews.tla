---------------------------- MODULE OperatorViews ----------------------------
(* Two views of the dashboard over what changes while they are made.         *)
(*                                                                           *)
(* Tasks: a task is a directory and its state is the directory it lies in.   *)
(* A request walks the tree of its profile one state directory after the     *)
(* other while agents move tasks about, or takes the rows of an earlier walk *)
(* from a cache that is one for the whole process and has no lock.           *)
(*                                                                           *)
(* Logs: the one table module behind every log: the page size and page       *)
(* number of a query string, the window they select, and the two queries a   *)
(* view makes with it - the rows are counted, then fetched - while other     *)
(* threads add rows.  The transcript view, which takes the newest messages,  *)
(* is the other way a log is cut.  Rows are their ids, oldest 1.             *)
EXTENDS Integers, FiniteSets, Sequences, SequencesExt, FiniteSetsExt

-----------------------------------------------------------------------------
(* Tasks *)

CONSTANTS
  Roots,                 \* the task trees that profiles resolve to
  Tasks,                 \* names of task directories
  Viewers,               \* handler threads
  LiteTtl,               \* _LITE_CACHE_TTL
  MaxMoves, MaxLooks, MaxTaskTime

ASSUME TaskAssumption == LiteTtl \in Nat \ {0}

States == <<"new", "in_progress", "completed", "cancelled">>
Gone == "gone"
Kinds == Range(States)
NoMoments == [at |-> -1, ready |-> FALSE, moments |-> {}, root |-> "none", asOf |-> -1]

VARIABLES
  tree,       \* where each task of each tree lies
  liteCache,  \* _LITE_CACHE; root and asOf (of the model): the walk that the moments are of
  mixed,      \* the last walk to stamp the cache did so between another one's stamp and rows
  looking,    \* what each viewer is doing
  taskTime,
  movesLeft, looksLeft

taskVars == <<tree, liteCache, mixed, looking, taskTime, movesLeft, looksLeft>>

Idle == [at |-> "idle"]

TasksInit ==
  /\ tree = [r \in Roots |-> [k \in Tasks |-> "new"]]
  /\ liteCache = NoMoments /\ mixed = FALSE
  /\ looking = [v \in Viewers |-> Idle]
  /\ taskTime = 0 /\ movesLeft = MaxMoves /\ looksLeft = MaxLooks

\* Mutant: a directory is listed for every task, the vanished ones too.
ListedAnyhow(r, s) == {<<tree[r][k], k>> : k \in Tasks}

Listed(r, s) == {<<s, k>> : k \in {j \in Tasks : tree[r][j] = s}}

-----------------------------------------------------------------------------
(* task_moments *)

Warm == liteCache.ready /\ taskTime - liteCache.at < LiteTtl

Free(v) == looking[v].at \in {"idle", "shown"} /\ looksLeft > 0 /\ looksLeft' = looksLeft - 1

\* Mutant: a cache of any age serves.
CheckForEver(v, r) ==
  /\ Free(v) /\ liteCache.ready
  /\ looking' = [looking EXCEPT ![v] = [at |-> "warm", root |-> r, when |-> taskTime]]
  /\ UNCHANGED <<tree, liteCache, mixed, taskTime, movesLeft>>

(* The stamp is compared with the clock ... *)
CheckCache(v, r) ==
  /\ Free(v) /\ Warm
  /\ looking' = [looking EXCEPT ![v] = [at |-> "warm", root |-> r, when |-> taskTime]]
  /\ UNCHANGED <<tree, liteCache, mixed, taskTime, movesLeft>>

Stamping(v) == looking[v].at = "stamped"

(* ... and what the cache then holds is shown, whichever tree it is of.      *)
TakeFromCache(v) ==
  /\ looking[v].at = "warm"
  /\ looking' = [looking EXCEPT ![v] =
       [at |-> "shown", root |-> looking[v].root, rows |-> liteCache.moments, when |-> looking[v].when,
        from |-> liteCache.root, asOf |-> liteCache.asOf,
        torn |-> mixed \/ \E u \in Viewers : Stamping(u)]]
  /\ UNCHANGED <<tree, liteCache, mixed, taskTime, movesLeft, looksLeft>>

(* A search, or the page with full rows, never looks at the cache. *)
BeginWalk(v, r, lite) ==
  /\ Free(v) /\ (lite => ~Warm)
  /\ looking' = [looking EXCEPT ![v] = [at |-> "walk", root |-> r, lite |-> lite, next |-> 1, rows |-> {}, moved |-> {}]]
  /\ UNCHANGED <<tree, liteCache, mixed, taskTime, movesLeft>>

\* Mutant: the directory after an empty one is skipped.
ListSkipping(v) ==
  LET w == looking[v] IN
  /\ w.at = "walk" /\ w.next <= Len(States)
  /\ looking' = [looking EXCEPT ![v].rows = @ \cup Listed(w.root, States[w.next]),
                                ![v].next = IF Listed(w.root, States[w.next]) = {} THEN @ + 2 ELSE @ + 1]
  /\ UNCHANGED <<tree, liteCache, mixed, taskTime, movesLeft, looksLeft>>

(* One state directory is listed. *)
ListState(v) ==
  LET w == looking[v] IN
  /\ w.at = "walk" /\ w.next <= Len(States)
  /\ looking' = [looking EXCEPT ![v].rows = @ \cup Listed(w.root, States[w.next]), ![v].next = @ + 1]
  /\ UNCHANGED <<tree, liteCache, mixed, taskTime, movesLeft, looksLeft>>

Walked(v) == looking[v].at = "walk" /\ looking[v].next > Len(States)
OwnRows(w, now) ==
  [at |-> "shown", root |-> w.root, rows |-> w.rows, when |-> now, from |-> w.root, asOf |-> now, torn |-> FALSE]

EndWalk(v) ==
  /\ Walked(v) /\ ~looking[v].lite
  /\ looking' = [looking EXCEPT ![v] = OwnRows(looking[v], taskTime)]
  /\ UNCHANGED <<tree, liteCache, mixed, taskTime, movesLeft, looksLeft>>

(* A lite walk is published in two assignments: the time ... *)
StampCache(v) ==
  /\ Walked(v) /\ looking[v].lite
  /\ liteCache' = [liteCache EXCEPT !.at = taskTime, !.ready = TRUE]
  /\ mixed' = \E u \in Viewers : Stamping(u)
  /\ looking' = [looking EXCEPT ![v] = [at |-> "stamped", root |-> looking[v].root, rows |-> looking[v].rows,
                                        stamp |-> taskTime]]
  /\ UNCHANGED <<tree, taskTime, movesLeft, looksLeft>>

(* ... and then the rows.                                                    *)
StoreRows(v) ==
  LET w == looking[v] IN
  /\ Stamping(v)
  /\ liteCache' = [liteCache EXCEPT !.moments = w.rows, !.root = w.root, !.asOf = w.stamp]
  /\ looking' = [looking EXCEPT ![v] = OwnRows(w, w.stamp)]
  /\ UNCHANGED <<tree, mixed, taskTime, movesLeft, looksLeft>>

-----------------------------------------------------------------------------
(* Agents move tasks between the state directories; external. *)

MoveTask(r, k, s) ==
  /\ movesLeft > 0 /\ movesLeft' = movesLeft - 1
  /\ tree[r][k] # s
  /\ tree' = [tree EXCEPT ![r][k] = s]
  /\ looking' = [v \in Viewers |-> IF looking[v].at = "walk" /\ looking[v].root = r
                                   THEN [looking[v] EXCEPT !.moved = @ \cup {k}] ELSE looking[v]]
  /\ UNCHANGED <<liteCache, mixed, taskTime, looksLeft>>

TaskTick == taskTime < MaxTaskTime /\ taskTime' = taskTime + 1
            /\ looking' = [v \in Viewers |-> IF looking[v].at = "shown" THEN Idle ELSE looking[v]]
            /\ UNCHANGED <<tree, liteCache, mixed, movesLeft, looksLeft>>

TasksNext ==
  \/ \E v \in Viewers :
       \/ ListState(v) \/ EndWalk(v) \/ StampCache(v) \/ StoreRows(v) \/ TakeFromCache(v)
       \/ \E r \in Roots : CheckCache(v, r) \/ \E lite \in BOOLEAN : BeginWalk(v, r, lite)
  \/ \E r \in Roots, k \in Tasks, s \in Kinds \cup {Gone} : MoveTask(r, k, s)
  \/ TaskTick

TasksSpec == TasksInit /\ [][TasksNext]_taskVars

-----------------------------------------------------------------------------
OnceIn(rows, k) == Cardinality({x \in rows : x[2] = k}) = 1

(* Well-formed walks and cache. *)
TasksTypeOK ==
  /\ tree \in [Roots -> [Tasks -> Kinds \cup {Gone}]]
  /\ liteCache.moments \subseteq Kinds \X Tasks
  /\ \A v \in Viewers : /\ looking[v].at \in {"idle", "warm", "walk", "stamped", "shown"}
                        /\ looking[v].at \notin {"idle", "warm"} => looking[v].rows \subseteq Kinds \X Tasks

(* A view that walked shows every task that was not moved meanwhile, once    *)
(* and in its state (task_moments walks without a lock; what moves during    *)
(* the walk may be missing or shown twice).                                  *)
SteadyTasksAreShown ==
  \A v \in Viewers :
    looking[v].at = "walk" /\ looking[v].next > Len(States) =>
      \A k \in Tasks \ looking[v].moved :
        LET r == looking[v].root IN
        IF tree[r][k] = Gone THEN ~\E x \in looking[v].rows : x[2] = k
        ELSE OnceIn(looking[v].rows, k) /\ <<tree[r][k], k>> \in looking[v].rows

(* The rows of a view are of a walk that was younger than the TTL when the   *)
(* view was asked for, unless they were taken between a stamp and its rows,  *)
(* or after two walks were published across each other and before the next   *)
(* one was (_LITE_CACHE, _LITE_CACHE_TTL).                                   *)
LiteIsRecent ==
  \A v \in Viewers : looking[v].at = "shown" /\ ~looking[v].torn => looking[v].when - looking[v].asOf < LiteTtl

(* "one request's profile must not leak into another's" (work_tasks): the    *)
(* rows shown are rows of the tree that was asked for.                       *)
RootsDoNotLeak ==
  \A v \in Viewers : looking[v].at = "shown" => looking[v].from = looking[v].root

-----------------------------------------------------------------------------
(* Logs *)

CONSTANTS
  RawPers, RawPages,     \* what a query string may hold; Junk is no number
  Junk, AllRows,         \* numbers that stand for garbage and for "all"
  PerMax, DefaultPer,
  Limits,                \* limits of the transcript view
  MaxRows

ASSUME TableAssumption ==
  /\ RawPers \cup RawPages \subseteq Int /\ Junk \in Int /\ AllRows \in Int
  /\ AllRows # Junk /\ AllRows \notin 1..PerMax
  /\ PerMax \in Nat \ {0} /\ DefaultPer \in 1..PerMax /\ Limits \subseteq Nat \ {0} /\ MaxRows \in Nat

VARIABLES
  rowsNow,    \* the number of rows of the log
  query       \* the view being made, or the last one

logVars == <<rowsNow, query>>

NoQuery == [at |-> "idle"]

LogInit == rowsNow \in 0..MaxRows /\ query = NoQuery

-----------------------------------------------------------------------------
ParsePer(raw) == CASE raw = AllRows -> AllRows [] raw = Junk -> DefaultPer [] OTHER -> Max({1, Min({PerMax, raw})})

ParsePage(raw) == IF raw = Junk THEN 1 ELSE Max({1, raw})

\* Mutant: a last page that is not full is not counted.
Floor(a, b) == a \div b

(* ceil(total / per), in the form of the code. *)
Ceil(a, b) == -((-a) \div b)

\* Mutant: the page number is not clamped to the pages there are.
PaginateFree(total, per, page) ==
  IF per = AllRows THEN [page |-> 1, pages |-> 1, offset |-> 0]
  ELSE [page |-> page, pages |-> Max({1, Ceil(total, per)}), offset |-> (page - 1) * per]

Paginate(total, per, page) ==
  IF per = AllRows THEN [page |-> 1, pages |-> 1, offset |-> 0]
  ELSE LET pages == Max({1, Ceil(total, per)})
           p == Max({1, Min({page, pages})})
       IN [page |-> p, pages |-> pages, offset |-> (p - 1) * per]

RowWindow(total, per, page) ==
  IF total = 0 THEN <<0, 0>>
  ELSE IF per = AllRows THEN <<1, total>>
  ELSE <<1 + (page - 1) * per, Min({total, page * per})>>

(* ORDER BY id DESC or ASC, LIMIT and OFFSET *)
Ordered(newest) == [i \in 1..rowsNow |-> IF newest THEN rowsNow + 1 - i ELSE i]
Slice(s, offset, n) == SubSeq(s, offset + 1, Min({offset + n, Len(s)}))

-----------------------------------------------------------------------------
AddRow == rowsNow < MaxRows /\ rowsNow' = rowsNow + 1
          /\ query' = IF query.at = "counted" THEN [query EXCEPT !.grew = TRUE] ELSE NoQuery

(* SELECT COUNT, and the table state made of it ... *)
CountRows(rawPer, rawPage, newest) ==
  LET per == ParsePer(rawPer)
      pg == Paginate(rowsNow, per, ParsePage(rawPage))
      w == RowWindow(rowsNow, per, pg.page) IN
  /\ query.at \in {"idle", "page", "tail"}
  /\ query' = [at |-> "counted", per |-> per, page |-> pg.page, pages |-> pg.pages, offset |-> pg.offset,
               newest |-> newest, total |-> rowsNow, first |-> w[1], last |-> w[2], grew |-> FALSE]
  /\ UNCHANGED rowsNow

(* ... then the rows themselves. *)
FetchRows ==
  /\ query.at = "counted"
  /\ query' = [at |-> "page", q |-> query,
               rows |-> IF query.per = AllRows THEN Ordered(query.newest)
                        ELSE Slice(Ordered(query.newest), query.offset, query.per)]
  /\ UNCHANGED rowsNow

\* Mutant: the row that was fetched too many is dropped at the wrong end.
KeptAtFront(limit, newest) ==
  LET got == IF newest THEN Reverse(Slice(Ordered(TRUE), 0, limit + 1)) ELSE Slice(Ordered(FALSE), 0, limit + 1)
  IN [rows |-> Slice(got, 0, limit), truncated |-> Len(got) > limit]

(* read_messages with limit + 1, of which messages_view drops one: the       *)
(* oldest when the newest were asked for.                                    *)
Kept(limit, newest) ==
  LET got == IF newest THEN Reverse(Slice(Ordered(TRUE), 0, limit + 1)) ELSE Slice(Ordered(FALSE), 0, limit + 1)
  IN [rows |-> IF Len(got) > limit /\ newest THEN Tail(got) ELSE Slice(got, 0, limit), truncated |-> Len(got) > limit]

ShowMessages(limit, newest) ==
  /\ query.at \in {"idle", "page", "tail"}
  /\ query' = [at |-> "tail", limit |-> limit, newest |-> newest, kept |-> Kept(limit, newest), total |-> rowsNow]
  /\ UNCHANGED rowsNow

LogNext ==
  \/ AddRow \/ FetchRows
  \/ \E a \in RawPers, b \in RawPages, n \in BOOLEAN : CountRows(a, b, n)
  \/ \E l \in Limits, n \in BOOLEAN : ShowMessages(l, n)

LogSpec == LogInit /\ [][LogNext]_logVars

-----------------------------------------------------------------------------
Turned(s, newest) == IF newest THEN Reverse(s) ELSE s

(* Paging through a log shows every row once and in order, whatever page     *)
(* size was asked for: the slices of the pages, one after the other, are the *)
(* whole log (tables.paginate).                                              *)
PagesMakeTheWholeLog ==
  query.at = "counted" /\ ~query.grew =>
    /\ query.per = AllRows \/ query.per \in 1..PerMax
    /\ LET s == Ordered(query.newest)
           slice(p) == LET g == Paginate(rowsNow, query.per, p)
                       IN IF query.per = AllRows THEN s ELSE Slice(s, g.offset, query.per)
       IN FlattenSeq([p \in 1..query.pages |-> slice(p)]) = s

(* The line "Showing first - last of total" is true of the rows below it,    *)
(* and a page past the end shows the last one, unless rows were added        *)
(* between the two queries of the view.                                      *)
LineFitsTheRows ==
  query.at = "page" /\ ~query.q.grew =>
    LET q == query.q IN
    /\ query.rows = IF q.total = 0 THEN <<>> ELSE SubSeq(Turned([i \in 1..q.total |-> i], q.newest), q.first, q.last)
    /\ q.total > 0 => query.rows # <<>>

(* The transcript is never cut silently, and what is cut is the far end: the *)
(* rows kept are the newest or the oldest ones without a gap, oldest first   *)
(* (messages_view).                                                          *)
TailIsWhole ==
  query.at = "tail" =>
    LET n == Min({query.limit, query.total})
        from == IF query.newest THEN query.total - n ELSE 0
    IN /\ query.kept.rows = [i \in 1..n |-> from + i]
       /\ query.kept.truncated <=> n < query.total
=============================================================================
