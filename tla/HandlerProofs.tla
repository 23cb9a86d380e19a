---------------------------- MODULE HandlerProofs ----------------------------
(***************************************************************************)
(* What the two parts of the request handler promise: Budgets for every    *)
(* set of budgets, clients and handler threads, every cost, amount and     *)
(* threshold, and ChatRequest for every set of threads, bodies and models, *)
(* every size of the cache, lifetime and number of requests.               *)
(*                                                                         *)
(* A write of budgets uses rows that were read earlier, so nothing about   *)
(* the columns is inductive without what the threads still hold.  RowsRead *)
(* says what the rows a thread is about to write back were like;           *)
(* ThresholdsCovered says that a threshold reached, in the table or in     *)
(* such a row, has been announced or is in the breaches some thread is     *)
(* about to announce.                                                      *)
(* DebtsFit says that both also leave room for all that other threads owe. *)
(*                                                                         *)
(* Of a chat request, Booked says what it has sent and booked by each      *)
(* place of the handler, and Keyed that what it looks up, has found or is  *)
(* about to store belongs to its key, as everything in the cache does.     *)
(***************************************************************************)
EXTENDS Budgets, ChatRequest, FiniteSetTheorems, TLAPS

-----------------------------------------------------------------------------
(* Budgets.                                                                  *)

\* What a thread read before it writes were rows below their caps.
RowsRead ==
  \A t \in Threads, b \in BudgetIds :
    pc[t] = "write" /\ b \in matched[t] /\ ~edited[b]
      => seen[t][b] < cap[t][b] /\ cap[t][b] = amount[b]

Covered(b, p) ==
  \/ <<b, p>> \in announced
  \/ \E t \in Threads : pc[t] = "alert" /\ <<b, p>> \in breaches[t]

ThresholdsCovered ==
  faults = 0 =>
    \A b \in BudgetIds, p \in Thresholds : ~edited[b] =>
      /\ spend[b] * 100 >= p * amount[b] => Covered(b, p)
      /\ \A t \in Threads :
           pc[t] = "write" /\ b \in matched[t] /\ seen[t][b] * 100 >= p * cap[t][b]
             => Covered(b, p)

IInv ==
  /\ TypeOK
  /\ ActiveHasRoom
  /\ OvershootBounded
  /\ RowsRead
  /\ ThresholdsCovered

-----------------------------------------------------------------------------
(* A threshold is never at zero: a new budget has reached none.             *)
LEMMA PositiveThreshold ==
  ASSUME NEW p \in Nat \ {0}, NEW a \in Nat \ {0}
  PROVE  p * a \in Nat /\ p * a > 0
OBVIOUS

(* The columns and locals of a fresh database satisfy the invariant.         *)
LEMMA InitInv == Init => IInv
<1> SUFFICES ASSUME Init PROVE IInv
  OBVIOUS
<1> USE BudgetAssumption
<1>1. TypeOK
  BY DEF Init, TypeOK, NoSpend, Status, Actions, PCs
<1>2. \A b \in BudgetIds : amount[b] \in Nat \ {0} /\ spend[b] = 0
  BY DEF Init, NoSpend
<1>3. ActiveHasRoom /\ OvershootBounded
  BY <1>2 DEF ActiveHasRoom, OvershootBounded
<1>4. RowsRead
  BY DEF Init, RowsRead
<1>5. ThresholdsCovered
  BY <1>2, PositiveThreshold DEF Init, ThresholdsCovered
<1> QED BY <1>1, <1>3, <1>4, <1>5 DEF IInv

(* Every step keeps the columns and the threads' locals well typed.          *)
LEMMA NextType == TypeOK /\ [Next]_vars => TypeOK'
<1> SUFFICES ASSUME TypeOK, [Next]_vars PROVE TypeOK'
  OBVIOUS
<1> USE BudgetAssumption DEF TypeOK, PCs
<1>1. ASSUME NEW t \in Threads, NEW c \in Clients, NEW a \in BOOLEAN, Arrive(t, c, a)
      PROVE  TypeOK'
  BY <1>1 DEF Arrive, Goto, columns, history
<1>2. ASSUME NEW t \in Threads, Pass(t) \/ PassUnchecked(t) PROVE TypeOK'
  <2>1. pc[t] \in DOMAIN Checking => Checking[pc[t]] \in PCs
    BY DEF Checking
  <2>2. pc' \in [Threads -> PCs]
    BY <1>2, <2>1 DEF Pass, PassUnchecked, Goto
  <2>3. faults' \in 0..MaxFaults
    BY <1>2 DEF Pass, PassUnchecked, Fault, history
  <2> QED BY <1>2, <2>2, <2>3 DEF Pass, PassUnchecked, columns, history
<1>3. ASSUME NEW t \in Threads, Refuse(t) \/ Abort(t) PROVE TypeOK'
  <2>1. Finish(t) /\ UNCHANGED <<columns, history>>
    BY <1>3 DEF Refuse, Abort
  <2> QED BY <2>1 DEF Finish, Goto, NoSpend, columns, history
<1>4. ASSUME NEW t \in Threads, NEW x \in Costs, Complete(t, x) PROVE TypeOK'
  BY <1>4 DEF Complete, Goto, columns
<1>5. ASSUME NEW t \in Threads, ReadBudgets(t) PROVE TypeOK'
  BY <1>5 DEF ReadBudgets, Goto, columns, history
<1>6. ASSUME NEW t \in Threads, WriteBudgets(t) PROVE TypeOK'
  <2>1. \A b \in BudgetIds : NewSpend(t, b) \in Nat
    BY DEF NewSpend
  <2>2. spend' \in [BudgetIds -> Nat] /\ total' \in [BudgetIds -> Nat]
    BY <1>6, <2>1 DEF WriteBudgets
  <2>3. status' \in [BudgetIds -> Status]
    BY <1>6 DEF WriteBudgets, Status
  <2>4. breaches' \in [Threads -> SUBSET (BudgetIds \X Thresholds)]
    BY <1>6 DEF WriteBudgets
  <2> QED BY <1>6, <2>2, <2>3, <2>4 DEF WriteBudgets, Goto, history
<1>7. ASSUME NEW t \in Threads, WriteFails(t) PROVE TypeOK'
  BY <1>7 DEF WriteFails, Fault, Finish, Goto, NoSpend, columns
<1>8. ASSUME NEW t \in Threads, FireAlerts(t) PROVE TypeOK'
  BY <1>8 DEF FireAlerts, Finish, Goto, NoSpend, columns
<1>9. ASSUME NEW b \in BudgetIds, NEW a \in Amounts, NEW act \in Actions, NEW st \in Status,
             UpdateBudget(b, a, act, st)
      PROVE  TypeOK'
  BY <1>9 DEF UpdateBudget, Edit, thread
<1>10. ASSUME NEW b \in BudgetIds, NEW a \in Amounts, NEW act \in Actions,
              CreateBudget(b, a, act)
       PROVE  TypeOK'
  BY <1>10 DEF CreateBudget, Edit, thread, Status
<1>11. ASSUME NEW b \in BudgetIds, DeleteBudget(b) PROVE TypeOK'
  BY <1>11 DEF DeleteBudget, Edit, thread
<1>12. CASE Crash
  BY <1>12 DEF Crash, Fault, NoSpend, columns
<1>13. CASE UNCHANGED vars
  BY <1>13 DEF vars, columns, thread, history
<1> HIDE DEF TypeOK
<1> QED BY <1>1, <1>2, <1>3, <1>4, <1>5, <1>6, <1>7, <1>8, <1>9, <1>10, <1>11,
           <1>12, <1>13 DEF Next, HandlerStep

-----------------------------------------------------------------------------
\* The budgets stay as they are, and no thread comes to hold rows to write back.
Forgotten ==
  /\ UNCHANGED <<amount, spend, status, edited>>
  /\ \A t \in Threads :
       \/ pc'[t] # "write"
       \/ pc'[t] = pc[t] /\ matched'[t] = matched[t] /\ seen'[t] = seen[t] /\ cap'[t] = cap[t]

(* The end of a handler thread leaves the other threads' rows alone.         *)
LEMMA FinishForgets ==
  ASSUME TypeOK, NEW t \in Threads, Finish(t), UNCHANGED <<amount, spend, status, edited>>
  PROVE  Forgotten
BY DEF TypeOK, Finish, Goto, Forgotten

(* No step lets a budget be used up while it is active or overshoot by a     *)
(* whole request, and every row about to be written back was read with room. *)
LEMMA NextRoom ==
  IInv /\ [Next]_vars => ActiveHasRoom' /\ OvershootBounded' /\ RowsRead'
<1> DEFINE Goal == ActiveHasRoom' /\ OvershootBounded' /\ RowsRead'
<1> SUFFICES ASSUME IInv, [Next]_vars PROVE Goal
  OBVIOUS
<1>1. TypeOK /\ ActiveHasRoom /\ OvershootBounded /\ RowsRead
  BY DEF IInv
<1>2. ASSUME Forgotten PROVE Goal
  BY <1>1, <1>2 DEF Forgotten, ActiveHasRoom, OvershootBounded, RowsRead
<1>3. ASSUME NEW t \in Threads, NEW c \in Clients, NEW a \in BOOLEAN, Arrive(t, c, a)
      PROVE  Goal
  <2>1. Forgotten
    BY <1>1, <1>3 DEF Arrive, Goto, columns, history, Forgotten, TypeOK
  <2> QED BY <1>2, <2>1
<1>4. ASSUME NEW t \in Threads, Pass(t) \/ PassUnchecked(t) PROVE Goal
  <2>1. pc[t] \in DOMAIN Checking => Checking[pc[t]] # "write"
    BY DEF Checking
  <2>2. Forgotten
    BY <1>1, <1>4, <2>1 DEF Pass, PassUnchecked, Goto, columns, history, Forgotten, TypeOK
  <2> QED BY <1>2, <2>2
<1>5. ASSUME NEW t \in Threads,
             Refuse(t) \/ Abort(t) \/ WriteFails(t) \/ FireAlerts(t)
      PROVE  Goal
  <2>1. Forgotten
    BY <1>1, <1>5, FinishForgets
       DEF Refuse, Abort, WriteFails, FireAlerts, columns, history
  <2> QED BY <1>2, <2>1
<1>6. ASSUME NEW t \in Threads, NEW x \in Costs, Complete(t, x) PROVE Goal
  <2>1. Forgotten
    BY <1>1, <1>6 DEF Complete, Goto, columns, Forgotten, TypeOK
  <2> QED BY <1>2, <2>1
<1>7. ASSUME NEW t \in Threads, ReadBudgets(t) PROVE Goal
  <2>1. \A b \in matched'[t] : ~edited[b] => spend[b] < amount[b]
    BY <1>1, <1>7 DEF ReadBudgets, ActiveHasRoom, TypeOK
  <2>2. RowsRead'
    BY <1>1, <1>7, <2>1 DEF ReadBudgets, Goto, RowsRead, TypeOK, columns, history
  <2> QED BY <1>1, <1>7, <2>2
          DEF ReadBudgets, columns, history, ActiveHasRoom, OvershootBounded
<1>8. ASSUME NEW t \in Threads, WriteBudgets(t) PROVE Goal
  <2>1. ASSUME NEW b \in matched[t], ~edited[b]
        PROVE  /\ NewSpend(t, b) < amount[b] + MaxCost
               /\ NewSpend(t, b) >= amount[b] => UsesUp(t, b)
    BY <1>1, <1>8, <2>1, BudgetAssumption
       DEF WriteBudgets, RowsRead, NewSpend, UsesUp, TypeOK
  <2>2. OvershootBounded'
    BY <1>1, <1>8, <2>1 DEF WriteBudgets, Dirty, OvershootBounded, TypeOK, history
  <2>3. ActiveHasRoom'
    <3> SUFFICES ASSUME NEW b \in BudgetIds, ~edited[b], status'[b] = "active"
                 PROVE  spend'[b] < amount[b]
      BY <1>8 DEF WriteBudgets, ActiveHasRoom, history
    <3>1. spend[b] \in Nat /\ amount[b] \in Nat /\ NewSpend(t, b) \in Nat
      <4>1. amount[b] \in Amounts /\ seen[t][b] \in Nat /\ cost[t] \in 0..MaxCost
            /\ spend[b] \in Nat
        BY <1>1 DEF TypeOK
      <4>2. Amounts \subseteq Nat /\ MaxCost \in Nat
        BY BudgetAssumption
      <4>3. NewSpend(t, b) \in Nat
        BY <4>1, <4>2 DEF NewSpend
      <4>4. amount[b] \in Nat
        BY <4>1, <4>2
      <4> QED BY <4>1, <4>3, <4>4
    <3>2. ~(b \in Dirty(t) /\ UsesUp(t, b)) /\ status[b] = "active"
      BY <1>8 DEF WriteBudgets
    <3>3. CASE b \in Dirty(t)
      <4>1. NewSpend(t, b) < amount[b]
        BY <2>1, <3>1, <3>2, <3>3 DEF Dirty
      <4> QED BY <1>1, <1>8, <3>1, <3>2, <4>1 DEF WriteBudgets, ActiveHasRoom
    <3>4. CASE b \notin Dirty(t)
      BY <1>1, <1>8, <3>2, <3>4 DEF WriteBudgets, ActiveHasRoom
    <3> QED BY <3>3, <3>4
  <2>4. RowsRead'
    BY <1>1, <1>8 DEF WriteBudgets, Goto, RowsRead, TypeOK, history
  <2> QED BY <2>2, <2>3, <2>4
<1>9. ASSUME NEW b \in BudgetIds, Edit(b),
             UNCHANGED thread,
             \A d \in BudgetIds \ {b} : /\ amount'[d] = amount[d] /\ spend'[d] = spend[d]
                                       /\ status'[d] = status[d]
      PROVE  Goal
  BY <1>1, <1>9
     DEF Edit, thread, ActiveHasRoom, OvershootBounded, RowsRead, TypeOK
<1>10. ASSUME NEW b \in BudgetIds, NEW a \in Amounts, NEW act \in Actions, NEW st \in Status,
              UpdateBudget(b, a, act, st)
       PROVE  Goal
  BY <1>1, <1>9, <1>10 DEF UpdateBudget, TypeOK
<1>11. ASSUME NEW b \in BudgetIds, NEW a \in Amounts, NEW act \in Actions,
              CreateBudget(b, a, act)
       PROVE  Goal
  BY <1>1, <1>9, <1>11 DEF CreateBudget, TypeOK
<1>12. ASSUME NEW b \in BudgetIds, DeleteBudget(b) PROVE Goal
  BY <1>9, <1>12 DEF DeleteBudget
<1>13. CASE Crash
  <2>1. Forgotten
    BY <1>13 DEF Crash, columns, Forgotten
  <2> QED BY <1>2, <2>1
<1>14. CASE UNCHANGED vars
  <2>1. Forgotten
    BY <1>14 DEF vars, columns, thread, history, Forgotten
  <2> QED BY <1>2, <2>1
<1> HIDE DEF Goal
<1> QED BY <1>3, <1>4, <1>5, <1>6, <1>7, <1>8, <1>10, <1>11, <1>12, <1>13, <1>14
        DEF Next, HandlerStep

-----------------------------------------------------------------------------
(* Without faults, a threshold that was covered stays covered.               *)
LEMMA CoveredStays ==
  ASSUME TypeOK, [Next]_vars, faults' = 0,
         NEW b \in BudgetIds, NEW p \in Thresholds, Covered(b, p)
  PROVE  Covered(b, p)'
<1>1. announced \subseteq announced'
  BY DEF Next, HandlerStep, Arrive, Pass, PassUnchecked, Refuse, Complete, Abort,
         ReadBudgets, WriteBudgets, WriteFails, FireAlerts, UpdateBudget,
         CreateBudget, DeleteBudget, Crash, vars, columns, thread, history
<1>2. ASSUME NEW t \in Threads, pc[t] = "alert", <<b, p>> \in breaches[t]
      PROVE  Covered(b, p)'
  <2>1. CASE FireAlerts(t)
    BY <1>2, <2>1 DEF FireAlerts, Covered
  <2>2. CASE ~FireAlerts(t)
    <3>1. pc'[t] = "alert" /\ breaches'[t] = breaches[t]
      <4>1. ASSUME NEW u \in Threads, u # t, Finish(u)
            PROVE  pc'[t] = pc[t] /\ breaches'[t] = breaches[t]
        BY <4>1 DEF TypeOK, Finish, Goto
      <4>2. ASSUME NEW u \in Threads, NEW c \in Clients, NEW a \in BOOLEAN, Arrive(u, c, a)
            PROVE  pc'[t] = "alert" /\ breaches'[t] = breaches[t]
        BY <1>2, <4>2 DEF Arrive, Goto, TypeOK
      <4>3. ASSUME NEW u \in Threads, HandlerStep(u)
            PROVE  pc'[t] = "alert" /\ breaches'[t] = breaches[t]
        <5>1. CASE u = t
          BY <1>2, <2>2, <4>3, <5>1
             DEF HandlerStep, Pass, PassUnchecked, Refuse, Complete, Abort, Checking,
                 ReadBudgets, WriteBudgets, WriteFails
        <5>2. CASE u # t
          BY <1>2, <4>1, <4>3, <5>2
             DEF HandlerStep, Pass, PassUnchecked, Refuse, Complete, Abort, Goto,
                 ReadBudgets, WriteBudgets, WriteFails, FireAlerts, TypeOK
        <5> QED BY <5>1, <5>2
      <4>4. ~Crash
        <5>1. faults \in Nat
          BY BudgetAssumption DEF TypeOK
        <5> QED BY <5>1 DEF Crash, Fault
      <4> QED BY <1>2, <4>2, <4>3, <4>4
              DEF Next, UpdateBudget, CreateBudget, DeleteBudget, vars, thread
    <3> QED BY <1>2, <3>1 DEF Covered
  <2> QED BY <2>1, <2>2
<1> QED BY <1>1, <1>2 DEF Covered

(* Without faults, every step keeps the thresholds that were reached, in the *)
(* table and in the rows threads hold, announced or about to be.             *)
LEMMA NextCovered == IInv /\ [Next]_vars => ThresholdsCovered'
<1> SUFFICES ASSUME IInv, [Next]_vars, faults' = 0,
                    NEW b \in BudgetIds, NEW p \in Thresholds, ~edited'[b]
             PROVE  /\ spend'[b] * 100 >= p * amount'[b] => Covered(b, p)'
                    /\ \A t \in Threads :
                         pc'[t] = "write" /\ b \in matched'[t]
                           /\ seen'[t][b] * 100 >= p * cap'[t][b]
                           => Covered(b, p)'
  BY DEF ThresholdsCovered
<1> DEFINE Goal ==
      /\ spend'[b] * 100 >= p * amount'[b] => Covered(b, p)'
      /\ \A t \in Threads :
           pc'[t] = "write" /\ b \in matched'[t]
             /\ seen'[t][b] * 100 >= p * cap'[t][b]
             => Covered(b, p)'
<1>1. TypeOK /\ RowsRead /\ ThresholdsCovered
  BY DEF IInv
<1>2. Covered(b, p) => Covered(b, p)'
  BY <1>1, CoveredStays
<1>3. faults = 0 /\ ~edited[b]
  <2>1. faults \in Nat
    BY <1>1, BudgetAssumption DEF TypeOK
  <2>2. edited[b] => edited'[b]
    BY <1>1 DEF Next, HandlerStep, Arrive, Pass, PassUnchecked, Refuse, Complete, Abort,
         ReadBudgets, WriteBudgets, WriteFails, FireAlerts, UpdateBudget, Edit, TypeOK,
         CreateBudget, DeleteBudget, Crash, vars, columns, thread, history
  <2>3. faults' = faults \/ faults' = faults + 1
    BY DEF Next, HandlerStep, Arrive, Pass, PassUnchecked, Refuse, Complete, Abort,
         ReadBudgets, WriteBudgets, WriteFails, FireAlerts, UpdateBudget, Fault,
         CreateBudget, DeleteBudget, Crash, vars, columns, thread, history
  <2> QED BY <2>1, <2>2, <2>3
<1>4. /\ spend[b] * 100 >= p * amount[b] => Covered(b, p)'
      /\ \A t \in Threads :
           pc[t] = "write" /\ b \in matched[t] /\ seen[t][b] * 100 >= p * cap[t][b]
             => Covered(b, p)'
  BY <1>1, <1>2, <1>3 DEF ThresholdsCovered
<1>5. ASSUME Forgotten PROVE Goal
  BY <1>4, <1>5 DEF Forgotten
<1>6. ASSUME NEW t \in Threads, NEW c \in Clients, NEW a \in BOOLEAN, Arrive(t, c, a)
      PROVE  Goal
  <2>1. Forgotten
    BY <1>1, <1>6 DEF Arrive, Goto, columns, history, Forgotten, TypeOK
  <2> QED BY <1>5, <2>1
<1>7. ASSUME NEW t \in Threads, Pass(t) \/ PassUnchecked(t) PROVE Goal
  <2>1. pc[t] \in DOMAIN Checking => Checking[pc[t]] # "write"
    BY DEF Checking
  <2>2. Forgotten
    BY <1>1, <1>7, <2>1 DEF Pass, PassUnchecked, Goto, columns, history, Forgotten, TypeOK
  <2> QED BY <1>5, <2>2
<1>8. ASSUME NEW t \in Threads,
             Refuse(t) \/ Abort(t) \/ WriteFails(t) \/ FireAlerts(t)
      PROVE  Goal
  <2>1. Forgotten
    BY <1>1, <1>8, FinishForgets
       DEF Refuse, Abort, WriteFails, FireAlerts, columns, history
  <2> QED BY <1>5, <2>1
<1>9. ASSUME NEW t \in Threads, NEW x \in Costs, Complete(t, x) PROVE Goal
  <2>1. Forgotten
    BY <1>1, <1>9 DEF Complete, Goto, columns, Forgotten, TypeOK
  <2> QED BY <1>5, <2>1
<1>10. ASSUME NEW t \in Threads, ReadBudgets(t) PROVE Goal
  <2>1. seen'[t][b] = spend[b] /\ cap'[t][b] = amount[b]
    BY <1>1, <1>10 DEF ReadBudgets, TypeOK
  <2>2. \A u \in Threads \ {t} : /\ pc'[u] = pc[u] /\ matched'[u] = matched[u]
                               /\ seen'[u] = seen[u] /\ cap'[u] = cap[u]
    BY <1>1, <1>10 DEF ReadBudgets, Goto, TypeOK
  <2>3. spend' = spend /\ amount' = amount
    BY <1>10 DEF ReadBudgets, columns
  <2> QED BY <1>4, <2>1, <2>2, <2>3
<1>11. ASSUME NEW t \in Threads, WriteBudgets(t) PROVE Goal
  <2>1. \A u \in Threads : pc'[u] = "write" => pc[u] = "write"
    BY <1>1, <1>11 DEF WriteBudgets, Goto, TypeOK
  <2>2. UNCHANGED <<matched, seen, cap, amount>>
    BY <1>11 DEF WriteBudgets
  <2>3. CASE spend'[b] = spend[b]
    BY <1>4, <2>1, <2>2, <2>3
  <2>4. CASE spend'[b] # spend[b] /\ spend'[b] * 100 >= p * amount[b]
    <3>1. b \in matched[t] /\ spend'[b] = NewSpend(t, b) /\ pc[t] = "write"
      BY <1>1, <1>11, <2>4 DEF WriteBudgets, Dirty, TypeOK
    <3>2. cap[t][b] = amount[b] /\ seen[t][b] < cap[t][b]
      BY <1>1, <1>3, <3>1 DEF RowsRead
    <3>3. CASE seen[t][b] * 100 >= p * cap[t][b]
      BY <1>4, <2>1, <2>2, <3>1, <3>3
    <3>4. CASE ~(seen[t][b] * 100 >= p * cap[t][b])
      <4>1. /\ seen[t][b] \in Nat /\ cap[t][b] \in Nat /\ p \in Nat
            /\ NewSpend(t, b) \in Nat
        <5>1. seen[t][b] \in Nat /\ cap[t][b] \in Nat /\ cost[t] \in 0..MaxCost
          BY <1>1 DEF TypeOK
        <5> QED BY <5>1, BudgetAssumption DEF NewSpend
      <4>2. p * cap[t][b] \in Nat
        BY <4>1
      <4>3. Crossed(t, b, p)
        BY <2>4, <3>1, <3>2, <3>4, <4>1, <4>2 DEF Crossed
      <4>4. pc'[t] = "alert" /\ <<b, p>> \in breaches'[t]
        BY <1>1, <1>11, <3>1, <4>3 DEF WriteBudgets, Goto, TypeOK
      <4>5. Covered(b, p)'
        BY <4>4 DEF Covered
      <4> QED BY <4>5
    <3> QED BY <3>3, <3>4
  <2>5. CASE spend'[b] # spend[b] /\ ~(spend'[b] * 100 >= p * amount[b])
    BY <1>4, <2>1, <2>2, <2>5
  <2> QED BY <2>3, <2>4, <2>5
<1>12. ASSUME NEW d \in BudgetIds, Edit(d),
              UNCHANGED thread,
              \A e \in BudgetIds \ {d} : amount'[e] = amount[e] /\ spend'[e] = spend[e]
       PROVE  Goal
  <2>1. b # d
    BY <1>1, <1>12 DEF Edit, TypeOK
  <2> QED BY <1>4, <1>12, <2>1 DEF thread
<1>13. ASSUME NEW d \in BudgetIds, NEW a \in Amounts, NEW act \in Actions, NEW st \in Status,
              UpdateBudget(d, a, act, st)
       PROVE  Goal
  BY <1>1, <1>12, <1>13 DEF UpdateBudget, TypeOK
<1>14. ASSUME NEW d \in BudgetIds, NEW a \in Amounts, NEW act \in Actions,
              CreateBudget(d, a, act)
       PROVE  Goal
  BY <1>1, <1>12, <1>14 DEF CreateBudget, TypeOK
<1>15. ASSUME NEW d \in BudgetIds, DeleteBudget(d) PROVE Goal
  BY <1>12, <1>15 DEF DeleteBudget
<1>16. ASSUME Crash PROVE Goal
  BY <1>3, <1>16 DEF Crash, Fault
<1>17. ASSUME UNCHANGED vars PROVE Goal
  <2>1. Forgotten
    BY <1>17 DEF vars, columns, thread, history, Forgotten
  <2> QED BY <1>5, <2>1
<1> HIDE DEF Goal
<1>18. Goal
  BY <1>6, <1>7, <1>8, <1>9, <1>10, <1>11, <1>13, <1>14, <1>15, <1>16, <1>17
     DEF Next, HandlerStep
<1> QED BY <1>18 DEF Goal

-----------------------------------------------------------------------------
(* The invariant the theorems below are read off from.                       *)
THEOREM Invariance == Spec => []IInv
<1>1. IInv /\ [Next]_vars => IInv'
  BY NextType, NextRoom, NextCovered DEF IInv
<1> QED BY InitInv, <1>1, PTL DEF Spec

(* The budgets' columns and every handler's locals keep their types.         *)
THEOREM TypeCorrect == Spec => []TypeOK
<1>1. IInv => TypeOK
  BY DEF IInv
<1> QED BY <1>1, Invariance, PTL

(* _increment_budget_spend never leaves a budget active that is used up,     *)
(* although it decides on rows that may be stale when it writes.             *)
THEOREM Room == Spec => []ActiveHasRoom
<1>1. IInv => ActiveHasRoom
  BY DEF IInv
<1> QED BY <1>1, Invariance, PTL

(* However many requests run at once, the recorded spend passes a cap by     *)
(* less than the cost of one.                                                *)
THEOREM Overshoot == Spec => []OvershootBounded
<1>1. IInv => OvershootBounded
  BY DEF IInv
<1> QED BY <1>1, Invariance, PTL

(* No interleaving of reads and writes makes a threshold pass unannounced.   *)
THEOREM Announced == Spec => []ThresholdsAnnounced
<1>1. IInv => ThresholdsAnnounced
  BY DEF IInv, ThresholdsCovered, ThresholdsAnnounced, Covered
<1> QED BY <1>1, Invariance, PTL

-----------------------------------------------------------------------------
(* No budget is charged for more than its requests cost.  What the threads   *)
(* have spent and not yet recorded is a sum over them, and SumsTo states it  *)
(* by the equations a sum obeys: there is a function that gives a set of     *)
(* threads its sum.                                                          *)

IsSumOf(f, w) ==
  /\ f[{}] = 0
  /\ \A A \in SUBSET Threads : \A t \in Threads \ A : f[A \union {t}] = f[A] + w[t]

SumsTo(w, n) == \E f \in [SUBSET Threads -> Nat] : IsSumOf(f, w) /\ f[Threads] = n

\* What t's request has cost b and b's row does not say yet.
Owing(t, b) == IF pc[t] \in {"read", "write"} /\ client[t] \in Scope[b] THEN cost[t] ELSE 0

Owed(b) == [t \in Threads |-> Owing(t, b)]

\* A thread writes only rows of budgets that its request counts against.
MatchedInScope ==
  \A t \in Threads, b \in BudgetIds :
    pc[t] = "write" /\ b \in matched[t] => client[t] \in Scope[b]

\* Whatever is in the table, or in a row read to be written back, leaves room
\* for all that is still owed.
RoomFor(b, n) ==
  /\ spend[b] + n <= spent[b]
  /\ total[b] + n <= spent[b]
  /\ \A t \in Threads : pc[t] = "write" => seen[t][b] + n <= spent[b]

DebtsFit == \A b \in BudgetIds : \E n \in Nat : SumsTo(Owed(b), n) /\ RoomFor(b, n)

SpendInv == TypeOK /\ MatchedInScope /\ DebtsFit

(* Nobody owes anything: the sum is zero.                                    *)
LEMMA NothingOwed == SumsTo([t \in Threads |-> 0], 0)
<1> DEFINE f == [A \in SUBSET Threads |-> 0]
<1>1. f \in [SUBSET Threads -> Nat]
  OBVIOUS
<1>2. \A A \in SUBSET Threads : \A t \in Threads \ A : A \union {t} \in SUBSET Threads
  OBVIOUS
<1>3. IsSumOf(f, [t \in Threads |-> 0])
  BY <1>2 DEF IsSumOf
<1>4. f[Threads] = 0
  OBVIOUS
<1> QED BY <1>1, <1>3, <1>4 DEF SumsTo

(* A sum is at least each of its terms, and follows when one term changes.   *)
LEMMA OneDebtChanges ==
  ASSUME NEW w \in [Threads -> Nat], NEW n \in Nat, SumsTo(w, n),
         NEW t \in Threads, NEW v \in Nat
  PROVE  w[t] <= n /\ SumsTo([w EXCEPT ![t] = v], n - w[t] + v)
<1>1. PICK f \in [SUBSET Threads -> Nat] : IsSumOf(f, w) /\ f[Threads] = n
  BY DEF SumsTo
<1> DEFINE x == [w EXCEPT ![t] = v]
           g == [A \in SUBSET Threads |-> IF t \in A THEN f[A \ {t}] + v ELSE f[A]]
<1>2. ASSUME NEW A \in SUBSET Threads, t \in A
      PROVE  f[A] = f[A \ {t}] + w[t]
  <2>1. A \ {t} \in SUBSET Threads /\ t \in Threads \ (A \ {t}) /\ (A \ {t}) \union {t} = A
    BY <1>2
  <2> QED BY <1>1, <2>1 DEF IsSumOf
<1>3. g \in [SUBSET Threads -> Nat]
  <2>1. ASSUME NEW A \in SUBSET Threads PROVE f[A \ {t}] \in Nat /\ f[A] \in Nat
    <3>1. A \ {t} \in SUBSET Threads
      OBVIOUS
    <3> QED BY <1>1, <3>1
  <2> QED BY <2>1
<1>4. g[{}] = 0
  BY <1>1 DEF IsSumOf
<1>5. ASSUME NEW A \in SUBSET Threads, NEW u \in Threads \ A
      PROVE  g[A \union {u}] = g[A] + x[u]
  <2>1. A \union {u} \in SUBSET Threads
    OBVIOUS
  <2>2. CASE u = t
    <3>1. (A \union {u}) \ {t} = A /\ t \in A \union {u} /\ t \notin A
      BY <2>2
    <3> QED BY <2>1, <2>2, <3>1
  <2>3. CASE u # t /\ t \in A
    <3>1. (A \union {u}) \ {t} = (A \ {t}) \union {u} /\ u \in Threads \ (A \ {t})
          /\ A \ {t} \in SUBSET Threads
      BY <2>3
    <3>2. f[(A \ {t}) \union {u}] = f[A \ {t}] + w[u]
      BY <1>1, <3>1 DEF IsSumOf
    <3>3. g[A \union {u}] = f[A \ {t}] + w[u] + v
      BY <2>1, <2>3, <3>1, <3>2
    <3>4. f[A \ {t}] \in Nat /\ w[u] \in Nat
      BY <1>1, <3>1
    <3>5. g[A] = f[A \ {t}] + v /\ x[u] = w[u]
      BY <2>3
    <3> QED BY <3>3, <3>4, <3>5
  <2>4. CASE u # t /\ t \notin A
    BY <1>1, <2>1, <2>4 DEF IsSumOf
  <2> QED BY <2>2, <2>3, <2>4
<1>6. Threads \in SUBSET Threads /\ f[Threads] = f[Threads \ {t}] + w[t]
  BY <1>2
<1>7. f[Threads \ {t}] \in Nat /\ w[t] \in Nat
  <2>1. Threads \ {t} \in SUBSET Threads
    OBVIOUS
  <2> QED BY <1>1, <2>1
<1>8. g[Threads] = n - w[t] + v
  BY <1>1, <1>6, <1>7
<1> HIDE DEF g, x
<1>9. IsSumOf(g, x)
  BY <1>4, <1>5 DEF IsSumOf
<1>10. SumsTo(x, n - w[t] + v)
  BY <1>3, <1>8, <1>9 DEF SumsTo
<1>11. w[t] <= n
  BY <1>1, <1>6, <1>7
<1> QED BY <1>10, <1>11 DEF x

LEMMA OwedIsTyped == TypeOK => \A b \in BudgetIds : Owed(b) \in [Threads -> Nat]
BY BudgetAssumption DEF TypeOK, Owed, Owing

(* A fresh process owes nothing.                                             *)
LEMMA SpendStarts == Init => SpendInv
<1> SUFFICES ASSUME Init PROVE SpendInv
  OBVIOUS
<1>1. TypeOK
  BY InitInv DEF IInv
<1>2. MatchedInScope
  BY DEF Init, MatchedInScope
<1>3. ASSUME NEW b \in BudgetIds PROVE Owed(b) = [t \in Threads |-> 0] /\ RoomFor(b, 0)
  BY DEF Init, Owed, Owing, RoomFor, NoSpend
<1>4. ASSUME NEW b \in BudgetIds PROVE \E n \in Nat : SumsTo(Owed(b), n) /\ RoomFor(b, n)
  <2>1. SumsTo(Owed(b), 0) /\ RoomFor(b, 0)
    BY <1>3, NothingOwed
  <2> QED BY <2>1
<1>5. DebtsFit
  BY <1>4, Zenon DEF DebtsFit
<1> QED BY <1>1, <1>2, <1>5 DEF SpendInv

(* What a thread comes to owe, or owes no longer, is made up for by what was *)
(* spent and by what is recorded.                                            *)
LEMMA DebtMoves ==
  ASSUME TypeOK, DebtsFit, NEW t \in Threads, NEW b \in BudgetIds, NEW v \in Nat,
         Owed(b)' = [Owed(b) EXCEPT ![t] = v],
         \A n, k \in Nat :
           Owing(t, b) <= n /\ n + v = k + Owing(t, b) /\ RoomFor(b, n) => RoomFor(b, k)'
  PROVE  \E n \in Nat : SumsTo(Owed(b), n)' /\ RoomFor(b, n)'
<1>1. PICK n \in Nat : SumsTo(Owed(b), n) /\ RoomFor(b, n)
  BY DEF DebtsFit
<1>2. Owed(b) \in [Threads -> Nat] /\ Owed(b)[t] = Owing(t, b) /\ Owing(t, b) \in Nat
  <2>1. Owed(b) \in [Threads -> Nat]
    BY OwedIsTyped
  <2>2. Owed(b)[t] = Owing(t, b)
    BY DEF Owed
  <2> QED BY <2>1, <2>2
<1> DEFINE k == n - Owing(t, b) + v
<1>3. Owing(t, b) <= n /\ SumsTo(Owed(b)', k)
  <2>1. PICK w \in [Threads -> Nat] : w = Owed(b)
    BY <1>2
  <2>2. w[t] <= n /\ SumsTo([w EXCEPT ![t] = v], n - w[t] + v)
    BY <1>1, <2>1, OneDebtChanges
  <2> QED BY <1>2, <2>1, <2>2
<1>4. k \in Nat /\ n + v = k + Owing(t, b)
  BY <1>2, <1>3
<1> HIDE DEF k
<1>5. PICK m \in Nat : m = k
  BY <1>4
<1>6. RoomFor(b, m)'
  BY <1>1, <1>3, <1>4, <1>5
<1>7. SumsTo(Owed(b), m)'
  BY <1>3, <1>5 DEF SumsTo, IsSumOf
<1> QED BY <1>6, <1>7

(* Nothing is lost while what is owed stays the same.                        *)
LEMMA DebtStays ==
  ASSUME TypeOK, DebtsFit, NEW b \in BudgetIds, Owed(b)' = Owed(b),
         \A n \in Nat : RoomFor(b, n) => RoomFor(b, n)'
  PROVE  \E n \in Nat : SumsTo(Owed(b), n)' /\ RoomFor(b, n)'
<1>1. PICK n \in Nat : SumsTo(Owed(b), n) /\ RoomFor(b, n)
  BY DEF DebtsFit
<1>2. SumsTo(Owed(b), n)'
  BY <1>1 DEF SumsTo, IsSumOf
<1> QED BY <1>1, <1>2

\* No money moves, and no thread comes to hold a row to write back.
MoneyRests ==
  /\ UNCHANGED <<spend, total, spent>>
  /\ \A t \in Threads : pc'[t] = "write" =>
       pc[t] = "write" /\ seen'[t] = seen[t] /\ matched'[t] = matched[t] /\ client'[t] = client[t]

(* A step of a thread that neither has a price nor gets one.                 *)
LEMMA OthersOwe ==
  ASSUME TypeOK, NEW t \in Threads, NEW b \in BudgetIds, NEW v,
         pc' \in [Threads -> PCs], client' \in [Threads -> Clients \union {NoClient}],
         cost' \in [Threads -> 0..MaxCost],
         \A u \in Threads \ {t} : pc'[u] = pc[u] /\ client'[u] = client[u] /\ cost'[u] = cost[u],
         Owing(t, b)' = v
  PROVE  Owed(b)' = [Owed(b) EXCEPT ![t] = v]
<1>1. \A u \in Threads \ {t} : Owing(u, b)' = Owing(u, b)
  BY DEF Owing
<1> QED BY <1>1 DEF Owed

(* Every step leaves room for what is owed.                                  *)
LEMMA MoneyStays == SpendInv /\ [Next]_vars => MatchedInScope' /\ DebtsFit'
<1> DEFINE Goal == MatchedInScope' /\ DebtsFit'
<1> SUFFICES ASSUME SpendInv, [Next]_vars PROVE Goal
  OBVIOUS
<1>1. TypeOK /\ MatchedInScope /\ DebtsFit
  BY DEF SpendInv
<1>2. /\ pc' \in [Threads -> PCs] /\ client' \in [Threads -> Clients \union {NoClient}]
      /\ cost' \in [Threads -> 0..MaxCost]
  BY <1>1, NextType DEF TypeOK
<1>3. ASSUME MoneyRests, \A b \in BudgetIds : Owed(b)' = Owed(b) PROVE Goal
  <2>1. MatchedInScope'
    BY <1>1, <1>3 DEF MatchedInScope, MoneyRests
  <2>2. \A b \in BudgetIds, n \in Nat : RoomFor(b, n) => RoomFor(b, n)'
    BY <1>3 DEF RoomFor, MoneyRests
  <2>3. DebtsFit'
    BY <1>1, <1>3, <2>2, DebtStays DEF DebtsFit
  <2> QED BY <2>1, <2>3
<1>4. ASSUME NEW t \in Threads, \/ \E c \in Clients, a \in BOOLEAN : Arrive(t, c, a)
                                \/ Pass(t) \/ PassUnchecked(t)
      PROVE  Goal
  <2> USE DEF Arrive, Pass, PassUnchecked, Goto, Checking, columns, history
  <2>1. pc[t] \notin {"read", "write"} /\ pc'[t] \notin {"read", "write"}
    BY <1>1, <1>4 DEF TypeOK
  <2>2. \A u \in Threads \ {t} : pc'[u] = pc[u] /\ client'[u] = client[u] /\ cost'[u] = cost[u]
    BY <1>1, <1>4 DEF TypeOK
  <2>3. MoneyRests
    BY <1>1, <1>4, <2>1, <2>2 DEF MoneyRests, TypeOK
  <2>4. \A b \in BudgetIds : Owed(b)' = Owed(b)
    BY <2>1, <2>2 DEF Owed, Owing
  <2> QED BY <1>3, <2>3, <2>4
<1>5. ASSUME NEW t \in Threads, Refuse(t) \/ Abort(t) \/ FireAlerts(t) PROVE Goal
  <2>0. Finish(t) /\ UNCHANGED <<spend, total, spent>> /\ pc[t] \notin {"read", "write"}
    BY <1>5 DEF Refuse, Abort, FireAlerts, Checking, columns, history
  <2>1. pc'[t] = "idle"
    BY <1>1, <2>0 DEF Finish, Goto, TypeOK
  <2>2. \A u \in Threads \ {t} :
          /\ pc'[u] = pc[u] /\ client'[u] = client[u] /\ cost'[u] = cost[u]
          /\ matched'[u] = matched[u] /\ seen'[u] = seen[u]
    BY <1>1, <2>0 DEF Finish, Goto, TypeOK
  <2>3. MoneyRests
    BY <2>0, <2>1, <2>2 DEF MoneyRests
  <2>4. \A b \in BudgetIds : Owed(b)' = Owed(b)
    BY <2>0, <2>1, <2>2 DEF Owed, Owing
  <2> QED BY <1>3, <2>3, <2>4
<1>6. ASSUME NEW t \in Threads, NEW x \in Costs, Complete(t, x) PROVE Goal
  <2>1. /\ pc[t] = "call" /\ pc'[t] = "read" /\ cost'[t] = x /\ client' = client
        /\ \A u \in Threads \ {t} : pc'[u] = pc[u] /\ cost'[u] = cost[u]
        /\ UNCHANGED <<spend, total, seen, matched>>
        /\ \A b \in BudgetIds :
             spent'[b] = IF client[t] \in Scope[b] THEN spent[b] + x ELSE spent[b]
    BY <1>1, <1>6 DEF Complete, Goto, TypeOK, columns
  <2>2. MatchedInScope'
    BY <1>1, <2>1 DEF MatchedInScope
  <2>3. ASSUME NEW b \in BudgetIds
        PROVE  \E n \in Nat : SumsTo(Owed(b), n)' /\ RoomFor(b, n)'
    <3> DEFINE v == IF client[t] \in Scope[b] THEN x ELSE 0
    <3>1. v \in Nat /\ x \in Nat
      BY BudgetAssumption
    <3>2. Owing(t, b) = 0 /\ Owing(t, b)' = v
      BY <2>1 DEF Owing
    <3>3. spent'[b] = spent[b] + v /\ spent[b] \in Nat
      BY <1>1, <2>1 DEF TypeOK
    <3> HIDE DEF v
    <3>4. Owed(b)' = [Owed(b) EXCEPT ![t] = v]
      BY <1>1, <1>2, <2>1, <3>2, OthersOwe
    <3>5. ASSUME NEW n \in Nat, NEW k \in Nat, n + v = k + Owing(t, b), RoomFor(b, n)
          PROVE  RoomFor(b, k)'
      <4>0. k = n + v
        BY <3>1, <3>2, <3>5
      <4>1. spend[b] \in Nat /\ total[b] \in Nat /\ \A u \in Threads : seen[u][b] \in Nat
        BY <1>1 DEF TypeOK
      <4>2. spend'[b] + k <= spent'[b] /\ total'[b] + k <= spent'[b]
        BY <2>1, <3>1, <3>3, <3>5, <4>0, <4>1 DEF RoomFor
      <4>3. ASSUME NEW u \in Threads, pc'[u] = "write" PROVE seen'[u][b] + k <= spent'[b]
        <5>1. pc[u] = "write" /\ seen'[u][b] = seen[u][b]
          BY <2>1, <4>3
        <5> QED BY <3>1, <3>3, <3>5, <4>0, <4>1, <5>1 DEF RoomFor
      <4> QED BY <4>2, <4>3 DEF RoomFor
    <3> QED BY <1>1, <3>1, <3>4, <3>5, DebtMoves
  <2> QED BY <2>2, <2>3 DEF DebtsFit
<1>7. ASSUME NEW t \in Threads, ReadBudgets(t) PROVE Goal
  <2>1. /\ pc[t] = "read" /\ pc'[t] = "write" /\ client' = client /\ cost' = cost
        /\ \A u \in Threads \ {t} : pc'[u] = pc[u] /\ matched'[u] = matched[u] /\ seen'[u] = seen[u]
        /\ UNCHANGED <<spend, total, spent>>
        /\ seen'[t] = spend /\ \A b \in matched'[t] : client[t] \in Scope[b]
    BY <1>1, <1>7 DEF ReadBudgets, Goto, TypeOK, columns, history
  <2>2. MatchedInScope'
    BY <1>1, <2>1 DEF MatchedInScope
  <2>3. \A b \in BudgetIds : Owed(b)' = Owed(b)
    BY <2>1 DEF Owed, Owing
  <2>4. \A b \in BudgetIds, n \in Nat : RoomFor(b, n) => RoomFor(b, n)'
    BY <2>1 DEF RoomFor
  <2> QED BY <1>1, <2>2, <2>3, <2>4, DebtStays DEF DebtsFit
<1>8. ASSUME NEW t \in Threads, WriteBudgets(t) PROVE Goal
  <2>1. /\ pc[t] = "write" /\ pc'[t] = "alert"
        /\ \A u \in Threads \ {t} : pc'[u] = pc[u]
        /\ UNCHANGED <<client, cost, matched, seen, spent>>
        /\ \A b \in BudgetIds :
             /\ spend'[b] # spend[b] => b \in matched[t] /\ spend'[b] = NewSpend(t, b)
             /\ total'[b] # total[b] => b \in matched[t] /\ total'[b] = NewSpend(t, b)
    BY <1>1, <1>8 DEF WriteBudgets, Dirty, Goto, TypeOK, history
  <2>2. MatchedInScope'
    BY <1>1, <2>1 DEF MatchedInScope
  <2>3. ASSUME NEW b \in BudgetIds
        PROVE  \E n \in Nat : SumsTo(Owed(b), n)' /\ RoomFor(b, n)'
    <3>1. /\ spend[b] \in Nat /\ total[b] \in Nat /\ spent[b] \in Nat /\ cost[t] \in Nat
          /\ \A u \in Threads : seen[u][b] \in Nat
      BY <1>1, BudgetAssumption DEF TypeOK
    <3>2. Owing(t, b)' = 0 /\ Owing(t, b) \in Nat
      BY <2>1, <3>1 DEF Owing
    <3>3. b \in matched[t] => Owing(t, b) = cost[t]
      BY <1>1, <2>1 DEF Owing, MatchedInScope
    <3>4. Owed(b)' = [Owed(b) EXCEPT ![t] = 0]
      BY <1>1, <1>2, <2>1, <3>2, OthersOwe
    <3>5. ASSUME NEW n \in Nat, NEW k \in Nat, n + 0 = k + Owing(t, b), RoomFor(b, n)
          PROVE  RoomFor(b, k)'
      <4>1. k <= n /\ (b \in matched[t] => NewSpend(t, b) + k = seen[t][b] + n)
        BY <3>1, <3>2, <3>3, <3>5 DEF NewSpend
      <4>2. spend[b] + k <= spent[b] /\ total[b] + k <= spent[b]
            /\ seen[t][b] + n <= spent[b]
        BY <2>1, <3>1, <3>5, <4>1 DEF RoomFor
      <4>3. spend'[b] + k <= spent'[b] /\ total'[b] + k <= spent'[b]
        BY <2>1, <4>1, <4>2
      <4>4. ASSUME NEW u \in Threads, pc'[u] = "write" PROVE seen'[u][b] + k <= spent'[b]
        <5>1. pc[u] = "write" /\ seen'[u][b] = seen[u][b] /\ spent'[b] = spent[b]
          BY <2>1, <4>4
        <5> QED BY <3>1, <3>5, <4>1, <5>1 DEF RoomFor
      <4> QED BY <4>3, <4>4 DEF RoomFor
    <3> QED BY <1>1, <3>4, <3>5, DebtMoves
  <2> QED BY <2>2, <2>3 DEF DebtsFit
<1>9. ASSUME NEW t \in Threads, WriteFails(t) PROVE Goal
  <2>0. Finish(t) /\ UNCHANGED <<spend, total, spent>>
    BY <1>9 DEF WriteFails, Fault, columns
  <2>1. /\ pc'[t] = "idle"
        /\ \A u \in Threads \ {t} :
             /\ pc'[u] = pc[u] /\ client'[u] = client[u] /\ cost'[u] = cost[u]
             /\ matched'[u] = matched[u] /\ seen'[u] = seen[u]
    BY <1>1, <2>0 DEF Finish, Goto, TypeOK
  <2>2. MoneyRests
    BY <2>0, <2>1 DEF MoneyRests
  <2>3. MatchedInScope'
    BY <1>1, <2>2 DEF MatchedInScope, MoneyRests
  <2>4. ASSUME NEW b \in BudgetIds
        PROVE  \E n \in Nat : SumsTo(Owed(b), n)' /\ RoomFor(b, n)'
    <3>1. Owing(t, b)' = 0
      BY <2>1 DEF Owing
    <3>2. Owed(b)' = [Owed(b) EXCEPT ![t] = 0]
      BY <1>1, <1>2, <2>1, <3>1, OthersOwe
    <3>3. /\ spend[b] \in Nat /\ total[b] \in Nat /\ spent[b] \in Nat /\ Owing(t, b) \in Nat
          /\ \A u \in Threads : seen[u][b] \in Nat
      BY <1>1, BudgetAssumption DEF TypeOK, Owing
    <3>4. ASSUME NEW n \in Nat, NEW k \in Nat, n + 0 = k + Owing(t, b), RoomFor(b, n)
          PROVE  RoomFor(b, k)'
      <4>1. k <= n
        BY <3>3, <3>4
      <4>2. RoomFor(b, k)
        BY <3>3, <3>4, <4>1 DEF RoomFor
      <4> QED BY <2>2, <4>2 DEF RoomFor, MoneyRests
    <3> QED BY <1>1, <3>2, <3>4, DebtMoves
  <2> QED BY <2>3, <2>4 DEF DebtsFit
<1>10. ASSUME NEW b \in BudgetIds,
              \/ \E a \in Amounts, act \in Actions, st \in Status : UpdateBudget(b, a, act, st)
              \/ DeleteBudget(b)
       PROVE  Goal
  <2>1. UNCHANGED <<spend, total, spent, thread>>
    BY <1>10 DEF UpdateBudget, DeleteBudget
  <2>2. MoneyRests /\ \A d \in BudgetIds : Owed(d)' = Owed(d)
    BY <2>1 DEF MoneyRests, thread, Owed, Owing
  <2> QED BY <1>3, <2>2
<1>11. ASSUME NEW b \in BudgetIds, NEW a \in Amounts, NEW act \in Actions, CreateBudget(b, a, act)
       PROVE  Goal
  <2>1. UNCHANGED <<total, spent, pc, client, cost, matched, seen>>
        /\ \A d \in BudgetIds : spend'[d] = 0 \/ spend'[d] = spend[d]
    BY <1>1, <1>11 DEF CreateBudget, thread, TypeOK
  <2>2. MatchedInScope'
    BY <1>1, <2>1 DEF MatchedInScope
  <2>3. ASSUME NEW d \in BudgetIds, NEW n \in Nat, RoomFor(d, n) PROVE RoomFor(d, n)'
    <3>1. total[d] \in Nat /\ spend[d] \in Nat /\ spent[d] \in Nat
      BY <1>1 DEF TypeOK
    <3>2. 0 + n <= spent[d]
      BY <2>3, <3>1 DEF RoomFor
    <3>3. spend'[d] + n <= spent[d]
      BY <2>1, <2>3, <3>2 DEF RoomFor
    <3> QED BY <2>1, <2>3, <3>3 DEF RoomFor
  <2>4. \A d \in BudgetIds : Owed(d)' = Owed(d)
    BY <2>1 DEF Owed, Owing
  <2> QED BY <1>1, <2>2, <2>3, <2>4, DebtStays DEF DebtsFit
<1>12. CASE Crash
  <2>1. UNCHANGED <<spend, total, spent>> /\ \A t \in Threads : pc'[t] = "idle"
    BY <1>12 DEF Crash, columns
  <2>2. MatchedInScope'
    BY <2>1 DEF MatchedInScope
  <2>3. ASSUME NEW b \in BudgetIds PROVE Owed(b)' = [t \in Threads |-> 0] /\ RoomFor(b, 0)'
    <3>1. PICK n \in Nat : RoomFor(b, n)
      BY <1>1 DEF DebtsFit
    <3>2. spend[b] \in Nat /\ total[b] \in Nat /\ spent[b] \in Nat
      BY <1>1 DEF TypeOK
    <3>3. RoomFor(b, 0)'
      BY <2>1, <3>1, <3>2 DEF RoomFor
    <3> QED BY <2>1, <3>3 DEF Owed, Owing
  <2>4. ASSUME NEW b \in BudgetIds PROVE SumsTo(Owed(b), 0)'
    BY <2>3, NothingOwed DEF SumsTo, IsSumOf
  <2> QED BY <2>2, <2>3, <2>4 DEF DebtsFit
<1>13. CASE UNCHANGED vars
  BY <1>3, <1>13 DEF vars, columns, thread, history, MoneyRests, Owed, Owing
<1> HIDE DEF Goal
<1>14. Goal
  BY <1>4, <1>5, <1>6, <1>7, <1>8, <1>9, <1>10, <1>11, <1>12, <1>13 DEF Next, HandlerStep
<1> QED BY <1>14 DEF Goal

(* _increment_budget_spend may lose what a thread spent, when it writes a    *)
(* stale row back over another's, but it never charges a budget, nor the key *)
(* it is scoped to, for more than its requests cost.                         *)
THEOREM NothingInvented == Spec => []SpendNotInvented
<1>1. SpendInv /\ [Next]_vars => SpendInv'
  BY NextType, MoneyStays DEF SpendInv
<1>2. SpendInv => SpendNotInvented
  <2> SUFFICES ASSUME SpendInv PROVE SpendNotInvented
    OBVIOUS
  <2> SUFFICES ASSUME NEW b \in BudgetIds
               PROVE  spend[b] <= spent[b] /\ total[b] <= spent[b]
    BY Zenon DEF SpendNotInvented
  <2>1. PICK n \in Nat : RoomFor(b, n)
    BY DEF SpendInv, DebtsFit
  <2>2. spend[b] \in Nat /\ total[b] \in Nat /\ spent[b] \in Nat
    BY DEF SpendInv, TypeOK
  <2> QED BY <2>1, <2>2 DEF RoomFor
<1> QED BY SpendStarts, <1>1, <1>2, PTL DEF Spec

-----------------------------------------------------------------------------
(* A chat request.                                                           *)

\* What set() stores under a key, and get() finds there: the answer of the key's
\* model to the key's body.
Fits(k, answer) == answer.model = k[1] /\ answer.body = k[2]

CacheIsHonest ==
  /\ DOMAIN cache \subseteq Key /\ IsFiniteSet(DOMAIN cache)
  /\ \A k \in DOMAIN cache : cache[k] \in Entry /\ Fits(k, cache[k].answer)

\* A thread about to insert has room for its entry, or was overtaken.
SlackIsEarned ==
  /\ overlaps \in Nat /\ SlackNeedsOverlap
  /\ \A t \in ChatThreads : req[t].at = "setInsert" => Cardinality(DOMAIN cache) < MaxEntries + overlaps

RegistryIsTyped ==
  /\ RegistryIsExact
  /\ \A t \in DOMAIN inflight : inflight[t] \in Nat

\* The body and the key of the cache operation in hand.
Keyed(r) ==
  /\ r.at \in Places \ {"idle", "failed", "done"} => r.body \in Bodies
  /\ r.at \in {"lookup", "check"} => r.key \in Key /\ r.key[2] = r.body
  /\ r.at = "check" => r.seen \in Entry /\ Fits(r.key, r.seen.answer)
  /\ r.at \in {"set"} \cup InSet => r.key \in Key /\ r.answer \in Answer /\ Fits(r.key, r.answer)
  /\ r.at = "setEvict" => r.victim \in Key
  /\ r.hit => r.at = "done" /\ r.answer.model = r.key[1] /\ r.answer.body = r.body

\* What a request has sent and booked by each place of the handler.
Fresh(r) == r.sent = <<>> /\ r.rows = 0 /\ r.trouble = {} /\ ~r.hit
Booked(r) ==
  /\ r.at \in {"lookup", "check", "register", "upstream"} => Fresh(r) /\ r.answer = None
  /\ r.at \in {"header", "set"} \cup InSet => Fresh(r) /\ r.stream = (r.at = "header")
  /\ r.at \in {"relay", "account"} =>
       /\ r.rows = 0 /\ r.trouble = {} /\ ~r.hit /\ (r.at = "relay" => r.stream)
       /\ r.sent = IF r.stream THEN <<"200">> ELSE <<>>
  /\ r.at = "reply" =>
       /\ r.sent = <<>> /\ ~r.hit
       /\ \/ r.trouble = {} /\ r.rows = 1
          \/ r.trouble = {"database"} /\ r.rows = 0
  /\ r.at = "failed" =>
       /\ r.rows = 0 /\ ~r.hit
       /\ \/ r.trouble = {} /\ r.sent = <<>> /\ r.answer = None
          \/ r.trouble = {"cut"} /\ r.sent = <<"200">> /\ r.stream
  /\ r.at = "done" => LinesFit(r) /\ RowsFit(r)

RequestOK(r) == r \in Request /\ Keyed(r) /\ Booked(r)

ChatInvariant ==
  /\ primary \in Models /\ clock \in 0 .. MaxClock /\ begun \in 0 .. MaxRequests
  /\ CacheIsHonest /\ SlackIsEarned /\ RegistryIsTyped
  /\ req \in [ChatThreads -> Request] /\ \A t \in ChatThreads : RequestOK(req[t])

-----------------------------------------------------------------------------
(* A request that begins.                                                    *)
LEMMA BlankIsTyped ==
  ASSUME NEW b \in Bodies \cup {None}, NEW s \in BOOLEAN
  PROVE  LET r == Blank(b, s) IN
         /\ r \in Request
         /\ r.at = "lookup" /\ r.body = b /\ r.stream = s /\ r.answer = None /\ ~r.hit
         /\ r.sent = <<>> /\ r.rows = 0 /\ r.trouble = {}
<1>1. <<>> \in Seq(Statuses) /\ {} \in SUBSET Key /\ 0 \in Nat /\ FALSE \in BOOLEAN /\ "lookup" \in Places
      /\ {} \in SUBSET Troubles /\ None \in Key \cup {None}
      /\ None \in Entry \cup {None} /\ None \in Answer \cup {None}
  BY DEF Places
<1> QED BY <1>1, Zenon DEF Request, Blank

(* The invariant holds before the first request.                             *)
LEMMA ChatStarts ==
  ASSUME ChatInit
  PROVE  ChatInvariant
<1> USE ChatAssumption
<1>1. CacheIsHonest /\ SlackIsEarned
  <2>1. DOMAIN cache = {} /\ overlaps = 0 /\ \A t \in ChatThreads : req[t].at = "idle"
    BY DEF ChatInit, Blank
  <2>2. IsFiniteSet({}) /\ Cardinality({}) = 0
    BY FS_EmptySet
  <2> QED BY <2>1, <2>2 DEF CacheIsHonest, SlackIsEarned, SlackNeedsOverlap
<1>2. RegistryIsTyped
  BY DEF ChatInit, Blank, RegistryIsTyped, RegistryIsExact, Registered, InSet
<1>3. \A t \in ChatThreads : RequestOK(req[t])
  <2>1. ASSUME NEW t \in ChatThreads PROVE RequestOK(req[t])
    <3> DEFINE r == [Blank(None, FALSE) EXCEPT !.at = "idle"]
    <3>1. req[t] = r
      BY DEF ChatInit
    <3>2. Blank(None, FALSE) \in Request /\ ~Blank(None, FALSE).hit
      BY BlankIsTyped
    <3>3. r \in Request /\ r.at = "idle" /\ ~r.hit
      BY <3>2 DEF Request, Places
    <3> HIDE DEF r
    <3>4. RequestOK(r)
      BY <3>3 DEF RequestOK, Keyed, Booked, InSet
    <3> QED BY <3>1, <3>4
  <2> QED BY <2>1
<1>4. req \in [ChatThreads -> Request]
  BY <1>3 DEF ChatInit, RequestOK
<1>5. primary \in Models /\ clock = 0 /\ begun = 0
  BY DEF ChatInit
<1> QED BY <1>1, <1>2, <1>3, <1>4, <1>5 DEF ChatInvariant

(* One request moves: what has to be shown of it, of the cache and of the    *)
(* registry.                                                                 *)
LEMMA RequestMoves ==
  ASSUME ChatInvariant, NEW t \in ChatThreads, NEW r, RequestOK(r), Continue(t, r),
         primary' = primary, clock' = clock, begun' \in 0 .. MaxRequests,
         CacheIsHonest', overlaps' \in Nat,
         Cardinality(DOMAIN cache') <= MaxEntries + overlaps',
         r.at = "setInsert" => Cardinality(DOMAIN cache') < MaxEntries + overlaps',
         \A u \in ChatThreads \ {t} : req[u].at = "setInsert" => Cardinality(DOMAIN cache') < MaxEntries + overlaps',
         \/ inflight' = inflight /\ (req[t].at \in Registered <=> r.at \in Registered)
         \/ inflight' = Restrict(inflight, DOMAIN inflight \ {t}) /\ r.at \notin Registered
  PROVE  ChatInvariant'
<1>1. /\ req' \in [ChatThreads -> Request] /\ req'[t] = r
      /\ \A u \in ChatThreads \ {t} : req'[u] = req[u]
      /\ \A u \in ChatThreads : RequestOK(req'[u])
  BY DEF ChatInvariant, Continue, RequestOK
<1>2. SlackIsEarned'
  BY <1>1 DEF SlackIsEarned, SlackNeedsOverlap
<1>3. RegistryIsTyped'
  <2>1. CASE inflight' = inflight /\ (req[t].at \in Registered <=> r.at \in Registered)
    <3>1. \A u \in ChatThreads : req'[u].at \in Registered <=> req[u].at \in Registered
      BY <1>1, <2>1
    <3> QED BY <3>1, <2>1 DEF ChatInvariant, RegistryIsTyped, RegistryIsExact
  <2>2. CASE inflight' = Restrict(inflight, DOMAIN inflight \ {t}) /\ r.at \notin Registered
    <3>1. /\ DOMAIN inflight' = DOMAIN inflight \ {t}
          /\ \A u \in DOMAIN inflight' : inflight'[u] = inflight[u]
      BY <2>2 DEF Restrict
    <3> QED BY <1>1, <2>2, <3>1 DEF ChatInvariant, RegistryIsTyped, RegistryIsExact
  <2> QED BY <2>1, <2>2
<1> QED BY <1>1, <1>2, <1>3 DEF ChatInvariant

(* The same where the cache stays as it is.                                  *)
LEMMA CacheStays ==
  ASSUME ChatInvariant, NEW t \in ChatThreads, NEW r, RequestOK(r), Continue(t, r),
         UNCHANGED <<primary, cache, clock, overlaps>>, begun' \in 0 .. MaxRequests,
         r.at = "setInsert" => Cardinality(DOMAIN cache) < MaxEntries + overlaps,
         \/ inflight' = inflight /\ (req[t].at \in Registered <=> r.at \in Registered)
         \/ inflight' = Restrict(inflight, DOMAIN inflight \ {t}) /\ r.at \notin Registered
  PROVE  ChatInvariant'
<1>1. CacheIsHonest' /\ overlaps' \in Nat /\ Cardinality(DOMAIN cache') <= MaxEntries + overlaps'
  BY DEF ChatInvariant, CacheIsHonest, SlackIsEarned, SlackNeedsOverlap
<1>2. \A u \in ChatThreads : req[u].at = "setInsert" => Cardinality(DOMAIN cache') < MaxEntries + overlaps'
  BY DEF ChatInvariant, SlackIsEarned
<1> QED BY <1>1, <1>2, RequestMoves

(* What FinishRequest leaves of a request.                                   *)
LEMMA FinishedIsOK ==
  ASSUME NEW t \in ChatThreads, NEW r \in Request, FinishRequest(t, r),
         r.hit => r.answer.model = r.key[1] /\ r.answer.body = r.body,
         LinesFit(r), RowsFit(r)
  PROVE  \E q : /\ RequestOK(q) /\ q.at = "done" /\ Continue(t, q)
                /\ inflight' = Restrict(inflight, DOMAIN inflight \ {t})
<1> DEFINE q == [r EXCEPT !.at = "done", !.chunks = 0, !.seen = None, !.scanned = {},
                          !.victim = None, !.key = IF r.hit THEN r.key ELSE None,
                          !.body = IF r.hit THEN r.body ELSE None]
<1>1. q \in Request
  <2>1. /\ (IF r.hit THEN r.key ELSE None) \in Key \cup {None}
        /\ (IF r.hit THEN r.body ELSE None) \in Bodies \cup {None}
    BY DEF Request
  <2> DEFINE k == IF r.hit THEN r.key ELSE None
             b == IF r.hit THEN r.body ELSE None
  <2>2. k \in Key \cup {None} /\ b \in Bodies \cup {None}
    BY <2>1
  <2> HIDE DEF k, b
  <2>3. [r EXCEPT !.at = "done", !.chunks = 0, !.seen = None, !.scanned = {},
                  !.victim = None, !.key = k, !.body = b] \in Request
    BY <2>2 DEF Request, Places
  <2> QED BY <2>3 DEF k, b
<1>2. /\ q.at = "done" /\ q.hit = r.hit /\ q.sent = r.sent /\ q.rows = r.rows
      /\ q.trouble = r.trouble /\ q.answer = r.answer /\ q.stream = r.stream
      /\ r.hit => q.key = r.key /\ q.body = r.body
  BY DEF Request
<1>3. Continue(t, q) /\ inflight' = Restrict(inflight, DOMAIN inflight \ {t})
  BY DEF FinishRequest
<1> HIDE DEF q
<1>4. Keyed(q) /\ Booked(q)
  BY <1>2 DEF Keyed, Booked, InSet, LinesFit, RowsFit
<1> QED BY <1>1, <1>2, <1>3, <1>4 DEF RequestOK

LEMMA RequestFinishes ==
  ASSUME ChatInvariant, NEW t \in ChatThreads, NEW r \in Request, FinishRequest(t, r),
         r.hit => r.answer.model = r.key[1] /\ r.answer.body = r.body,
         LinesFit(r), RowsFit(r),
         UNCHANGED <<primary, cache, clock, overlaps, begun>>
  PROVE  ChatInvariant'
<1>1. PICK q : /\ RequestOK(q) /\ q.at = "done" /\ Continue(t, q)
               /\ inflight' = Restrict(inflight, DOMAIN inflight \ {t})
  BY FinishedIsOK
<1>2. begun' \in 0 .. MaxRequests /\ q.at \notin Registered /\ q.at # "setInsert"
  BY <1>1 DEF ChatInvariant, Registered, InSet
<1> QED BY <1>1, <1>2, CacheStays

(* A status line.                                                            *)
LEMMA SendIsTyped ==
  ASSUME NEW r \in Request, NEW s \in Statuses
  PROVE  LET q == Send(r, s) IN
         /\ q \in Request /\ q.sent \in Seq(Statuses) /\ Len(q.sent) = Len(r.sent) + 1
         /\ r.sent = <<>> => q.sent = <<s>> /\ Len(q.sent) = 1
         /\ q.at = r.at /\ q.body = r.body /\ q.stream = r.stream /\ q.key = r.key /\ q.seen = r.seen
         /\ q.answer = r.answer /\ q.hit = r.hit /\ q.rows = r.rows /\ q.trouble = r.trouble
<1> DEFINE l == Append(r.sent, s)
<1>1. /\ l \in Seq(Statuses) /\ Len(l) = Len(r.sent) + 1
      /\ r.sent = <<>> => l = <<s>> /\ Len(l) = 1
  <2>1. r.sent \in Seq(Statuses)
    BY DEF Request
  <2>2. l \in Seq(Statuses) /\ Len(l) = Len(r.sent) + 1
    BY <2>1
  <2>3. r.sent = <<>> => l = <<s>> /\ Len(l) = 1
    OBVIOUS
  <2> QED BY <2>2, <2>3
<1> HIDE DEF l
<1>2. Send(r, s) = [r EXCEPT !.sent = l]
  BY DEF Send, l
<1> QED BY <1>1, <1>2 DEF Request

(* An error that reaches the last clause of the try block: one status line   *)
(* more, and the trouble is on record.                                       *)
LEMMA FailureFinishes ==
  ASSUME ChatInvariant, NEW t \in ChatThreads, NEW r \in Request, ~r.hit,
         NEW why \in Troubles, FailRequest(t, r, why),
         \/ Len(r.sent) = 0
         \/ Len(r.sent) = 1 /\ (why = "words" \/ (why = "broken" /\ r.stream)),
         r.answer # None =>
           r.rows = (IF (r.trouble \cup {why}) \cap {"database", "race", "broken", "usage"} # {} THEN 0 ELSE 1),
         UNCHANGED <<primary, cache, clock, overlaps, begun>>
  PROVE  ChatInvariant'
<1> DEFINE p == Send(r, "500")
           q == [p EXCEPT !.trouble = @ \cup {why}]
<1>1. FinishRequest(t, q)
  BY DEF FailRequest
<1>2. /\ p \in Request /\ Len(p.sent) = Len(r.sent) + 1 /\ p.answer = r.answer /\ p.hit = r.hit
      /\ p.rows = r.rows /\ p.trouble = r.trouble /\ p.stream = r.stream
  BY SendIsTyped DEF Statuses
<1> HIDE DEF p
<1>3. p.trouble \cup {why} \in SUBSET Troubles
  BY <1>2 DEF Request
<1>4. /\ q \in Request /\ q.sent = p.sent /\ q.answer = p.answer /\ q.hit = p.hit
      /\ q.rows = p.rows /\ q.trouble = p.trouble \cup {why} /\ q.stream = p.stream
  BY <1>2, <1>3 DEF Request
<1> HIDE DEF q
<1>5. LinesFit(q)
  <2>1. CASE Len(r.sent) = 0
    BY <1>2, <1>4, <2>1 DEF LinesFit
  <2>2. CASE Len(r.sent) = 1 /\ why = "words"
    BY <1>2, <1>4, <2>2 DEF LinesFit
  <2>3. CASE Len(r.sent) = 1 /\ why = "broken" /\ r.stream
    BY <1>2, <1>4, <2>3 DEF LinesFit
  <2> QED BY <2>1, <2>2, <2>3
<1>6. RowsFit(q)
  BY <1>2, <1>4 DEF RowsFit
<1>7. q.hit => q.answer.model = q.key[1] /\ q.answer.body = q.body
  BY <1>2, <1>4
<1> QED BY <1>1, <1>4, <1>5, <1>6, <1>7, RequestFinishes

-----------------------------------------------------------------------------
(* A request begins, past the checks or refused by them.                     *)
LEMMA BeginStays ==
  ASSUME ChatInvariant, NEW t \in ChatThreads, NEW b \in Bodies, NEW s \in BOOLEAN, Begin(t, b, s)
  PROVE  ChatInvariant'
<1> DEFINE r == IF s THEN [Blank(b, s) EXCEPT !.at = "register"]
                ELSE [Blank(b, s) EXCEPT !.key = <<primary, b>>]
<1>1. /\ Continue(t, r) /\ begun' = begun + 1 /\ begun < MaxRequests /\ req[t].at \in {"idle", "done"}
      /\ UNCHANGED <<primary, cache, inflight, clock, overlaps>>
  BY DEF Begin
<1>2. <<primary, b>> \in Key /\ <<primary, b>>[2] = b
  BY DEF ChatInvariant, Key
<1>3. RequestOK(r)
  <2> DEFINE q == Blank(b, s)
  <2>1. /\ q \in Request
        /\ q.at = "lookup" /\ q.body = b /\ q.stream = s /\ q.answer = None /\ ~q.hit
        /\ q.sent = <<>> /\ q.rows = 0 /\ q.trouble = {}
    BY BlankIsTyped
  <2> HIDE DEF q
  <2>2. RequestOK([q EXCEPT !.at = "register"])
    <3> DEFINE p == [q EXCEPT !.at = "register"]
    <3>1. /\ p \in Request
          /\ p.at = "register" /\ p.body = b /\ p.answer = None /\ ~p.hit
          /\ p.sent = <<>> /\ p.rows = 0 /\ p.trouble = {}
      BY <2>1 DEF Request, Places
    <3> HIDE DEF p
    <3>2. Keyed(p)
      BY <3>1 DEF Keyed, InSet
    <3>3. Booked(p)
      BY <3>1 DEF Booked, InSet, Fresh
    <3>4. RequestOK(p)
      BY <3>1, <3>2, <3>3 DEF RequestOK
    <3> QED BY <3>4 DEF p
  <2>3. RequestOK([q EXCEPT !.key = <<primary, b>>])
    <3> DEFINE k == <<primary, b>>
               p == [q EXCEPT !.key = k]
    <3> HIDE DEF k
    <3>1. /\ p \in Request
          /\ p.at = "lookup" /\ p.body = b /\ p.answer = None /\ ~p.hit /\ p.key = k
          /\ p.sent = <<>> /\ p.rows = 0 /\ p.trouble = {}
      BY <2>1, <1>2 DEF Request, Places, k
    <3> HIDE DEF p
    <3>2. RequestOK(p)
      BY <3>1, <1>2 DEF RequestOK, Keyed, Booked, InSet, Fresh, k
    <3> QED BY <3>2 DEF p, k
  <2> QED BY <2>2, <2>3 DEF q
<1>4. begun' \in 0 .. MaxRequests
  BY <1>1, ChatAssumption DEF ChatInvariant
<1>5. r.at \in {"lookup", "register"}
  <2>1. Blank(b, s) \in Request /\ Blank(b, s).at = "lookup"
    BY BlankIsTyped
  <2> QED BY <2>1 DEF Request
<1> HIDE DEF r
<1> QED BY <1>1, <1>3, <1>4, <1>5, CacheStays DEF Registered, InSet

LEMMA RefuseStays ==
  ASSUME ChatInvariant, NEW t \in ChatThreads, RefuseRequest(t)
  PROVE  ChatInvariant'
<1> DEFINE q == Blank(None, FALSE)
           r == [Send(q, "4xx") EXCEPT !.at = "done"]
<1>1. /\ Continue(t, r) /\ begun' = begun + 1 /\ begun < MaxRequests /\ req[t].at \in {"idle", "done"}
      /\ UNCHANGED <<primary, cache, inflight, clock, overlaps>>
  BY DEF RefuseRequest
<1>2. q \in Request /\ q.sent = <<>> /\ q.answer = None /\ ~q.hit
  BY BlankIsTyped
<1> HIDE DEF q
<1>3. r \in Request /\ r.at = "done" /\ Len(r.sent) = 1 /\ r.answer = None /\ ~r.hit
  <2> DEFINE p == Send(q, "4xx")
  <2>1. p \in Request /\ Len(p.sent) = 1 /\ p.answer = None /\ ~p.hit
    BY <1>2, SendIsTyped DEF Statuses
  <2> HIDE DEF p
  <2>2. LET x == [p EXCEPT !.at = "done"] IN
        x \in Request /\ x.at = "done" /\ Len(x.sent) = 1 /\ x.answer = None /\ ~x.hit
    BY <2>1 DEF Request, Places
  <2> QED BY <2>2 DEF p
<1> HIDE DEF r
<1>4. RequestOK(r)
  BY <1>3 DEF RequestOK, Keyed, Booked, InSet, LinesFit, RowsFit
<1>5. begun' \in 0 .. MaxRequests
  BY <1>1, ChatAssumption DEF ChatInvariant
<1> QED BY <1>1, <1>3, <1>4, <1>5, CacheStays DEF Registered, InSet

-----------------------------------------------------------------------------
(* PromptCache.get.                                                          *)

LEMMA LookupStays ==
  ASSUME ChatInvariant, NEW t \in ChatThreads, Lookup(t)
  PROVE  ChatInvariant'
<1> DEFINE q == req[t]
<1>1. /\ q \in Request /\ Keyed(q) /\ Booked(q) /\ q.at = "lookup"
      /\ begun' \in 0 .. MaxRequests
      /\ UNCHANGED <<primary, cache, inflight, clock, overlaps>>
  BY DEF ChatInvariant, RequestOK, Lookup
<1>2. q.body \in Bodies /\ q.key \in Key /\ q.key[2] = q.body /\ Fresh(q) /\ q.answer = None
  BY <1>1 DEF Keyed, Booked, Places
<1>3. q.at \notin Registered
  BY <1>1 DEF Registered, InSet
<1>4. CASE q.key \in DOMAIN cache
  <2> DEFINE e == cache[q.key]
             r == [q EXCEPT !.at = "check", !.seen = e]
  <2>1. Continue(t, r) /\ e \in Entry /\ Fits(q.key, e.answer)
    BY <1>4 DEF Lookup, ChatInvariant, CacheIsHonest
  <2> HIDE DEF q, e
  <2>2. /\ r \in Request /\ r.at = "check" /\ r.seen = e
        /\ r.body = q.body /\ r.key = q.key /\ r.answer = q.answer /\ Fresh(r)
    BY <1>1, <1>2, <2>1 DEF Request, Places, Fresh
  <2> HIDE DEF r
  <2>3. RequestOK(r)
    BY <1>2, <2>1, <2>2 DEF RequestOK, Keyed, Booked, InSet, Fresh
  <2>4. r.at \notin Registered /\ r.at # "setInsert"
    BY <2>2 DEF Registered, InSet
  <2> QED BY <1>1, <1>3, <2>1, <2>3, <2>4, CacheStays DEF q
<1>5. CASE q.key \notin DOMAIN cache
  <2> DEFINE r == [q EXCEPT !.at = "register"]
  <2>1. Continue(t, r)
    BY <1>5 DEF Lookup
  <2> HIDE DEF q
  <2>2. /\ r \in Request /\ r.at = "register"
        /\ r.body = q.body /\ r.answer = q.answer /\ Fresh(r)
    BY <1>1, <1>2 DEF Request, Places, Fresh
  <2> HIDE DEF r
  <2>3. RequestOK(r)
    BY <1>2, <2>2 DEF RequestOK, Keyed, Booked, InSet, Fresh
  <2>4. r.at \notin Registered /\ r.at # "setInsert"
    BY <2>2 DEF Registered, InSet
  <2> QED BY <1>1, <1>3, <2>1, <2>3, <2>4, CacheStays DEF q
<1> QED BY <1>4, <1>5

LEMMA HitStays ==
  ASSUME ChatInvariant, NEW t \in ChatThreads, Hit(t)
  PROVE  ChatInvariant'
<1> DEFINE q == req[t]
           r == [Send(q, "200") EXCEPT !.hit = TRUE, !.answer = q.seen.answer, !.seen = None]
<1>1. /\ q \in Request /\ Keyed(q) /\ Booked(q) /\ q.at = "check" /\ FinishRequest(t, r)
      /\ UNCHANGED <<primary, cache, clock, begun, overlaps>>
  BY DEF ChatInvariant, RequestOK, Hit
<1> HIDE DEF q
<1>2. /\ q.key[2] = q.body /\ q.seen \in Entry /\ Fits(q.key, q.seen.answer) /\ Fresh(q)
  BY <1>1 DEF Keyed, Booked, Places
<1>3. q.seen.answer \in Answer
  BY <1>2 DEF Entry
<1>4. /\ r \in Request /\ r.hit /\ r.answer = q.seen.answer /\ r.key = q.key /\ r.body = q.body
      /\ r.rows = 0 /\ Len(r.sent) = 1
  <2> DEFINE p == Send(q, "200")
             a == q.seen.answer
  <2>1. p \in Request /\ Len(p.sent) = 1 /\ p.key = q.key /\ p.body = q.body /\ p.rows = 0 /\ a \in Answer
    BY <1>1, <1>2, <1>3, SendIsTyped DEF Statuses, Fresh
  <2> HIDE DEF p, a
  <2>2. LET x == [p EXCEPT !.hit = TRUE, !.answer = a, !.seen = None] IN
        /\ x \in Request /\ x.hit /\ x.answer = a /\ x.key = p.key /\ x.body = p.body
        /\ x.rows = p.rows /\ x.sent = p.sent
    BY <2>1 DEF Request
  <2> QED BY <2>1, <2>2 DEF p, a
<1> HIDE DEF r
<1>5. r.answer.model = r.key[1] /\ r.answer.body = r.body
  BY <1>2, <1>4 DEF Fits
<1>6. LinesFit(r) /\ RowsFit(r)
  BY <1>4 DEF LinesFit, RowsFit
<1> QED BY <1>1, <1>4, <1>5, <1>6, RequestFinishes

(* An entry leaves the table.                                                *)
LEMMA CacheLoses ==
  ASSUME ChatInvariant, NEW k \in DOMAIN cache, cache' = Restrict(cache, DOMAIN cache \ {k})
  PROVE  /\ CacheIsHonest'
         /\ Cardinality(DOMAIN cache') = Cardinality(DOMAIN cache) - 1
         /\ Cardinality(DOMAIN cache) \in Nat
<1>1. /\ DOMAIN cache' = DOMAIN cache \ {k}
      /\ \A j \in DOMAIN cache' : cache'[j] = cache[j]
  BY DEF Restrict
<1>2. IsFiniteSet(DOMAIN cache) /\ CacheIsHonest
  BY DEF ChatInvariant, CacheIsHonest
<1>3. IsFiniteSet(DOMAIN cache') /\ Cardinality(DOMAIN cache') = Cardinality(DOMAIN cache) - 1
  BY <1>1, <1>2, FS_RemoveElement
<1>4. Cardinality(DOMAIN cache) \in Nat
  BY <1>2, FS_CardinalityType
<1> QED BY <1>1, <1>2, <1>3, <1>4 DEF CacheIsHonest

LEMMA ExpiredStays ==
  ASSUME ChatInvariant, NEW t \in ChatThreads, Expired(t)
  PROVE  ChatInvariant'
<1> DEFINE q == req[t]
<1>1. /\ q \in Request /\ Keyed(q) /\ Booked(q) /\ q.at = "check"
      /\ begun' \in 0 .. MaxRequests
      /\ UNCHANGED <<primary, clock, begun, overlaps>>
  BY DEF ChatInvariant, RequestOK, Expired
<1>2. q.body \in Bodies /\ Fresh(q) /\ q.answer = None
  BY <1>1 DEF Keyed, Booked, Places
<1>3. q.at \notin Registered
  BY <1>1 DEF Registered, InSet
<1>4. CASE q.key \in DOMAIN cache /\ cache' = Restrict(cache, DOMAIN cache \ {q.key})
           /\ Continue(t, [q EXCEPT !.at = "register", !.seen = None]) /\ UNCHANGED inflight
  <2> DEFINE r == [q EXCEPT !.at = "register", !.seen = None]
  <2>1. /\ CacheIsHonest' /\ Cardinality(DOMAIN cache') = Cardinality(DOMAIN cache) - 1
        /\ Cardinality(DOMAIN cache) \in Nat
    BY <1>4, CacheLoses
  <2>2. Continue(t, r)
    BY <1>4
  <2> HIDE DEF q
  <2>3. /\ r \in Request /\ r.at = "register"
        /\ r.body = q.body /\ r.answer = q.answer /\ Fresh(r)
    <3>1. r \in Request
      BY <1>1 DEF Request, Places
    <3> QED BY <1>1, <1>2, <3>1 DEF Request, Fresh
  <2> HIDE DEF r
  <2>4. RequestOK(r)
    BY <1>2, <2>3 DEF RequestOK, Keyed, Booked, InSet, Fresh
  <2>5. r.at \notin Registered /\ r.at # "setInsert"
    BY <2>3 DEF Registered, InSet
  <2>6. /\ overlaps' \in Nat /\ overlaps' = overlaps /\ Cardinality(DOMAIN cache) <= MaxEntries + overlaps
        /\ \A u \in ChatThreads : req[u].at = "setInsert" => Cardinality(DOMAIN cache) < MaxEntries + overlaps
    BY <1>1 DEF ChatInvariant, SlackIsEarned, SlackNeedsOverlap
  <2>7. /\ Cardinality(DOMAIN cache') <= MaxEntries + overlaps'
        /\ \A u \in ChatThreads \ {t} : req[u].at = "setInsert" => Cardinality(DOMAIN cache') < MaxEntries + overlaps'
    BY <2>1, <2>6, ChatAssumption
  <2> QED BY <1>1, <1>3, <1>4, <2>1, <2>2, <2>4, <2>5, <2>6, <2>7, RequestMoves DEF q
<1>5. CASE FailRequest(t, q, "race") /\ UNCHANGED cache
  <2>1. ~q.hit /\ q.answer = None /\ Len(q.sent) = 0 /\ "race" \in Troubles
    BY <1>2 DEF Fresh, Troubles
  <2> HIDE DEF q
  <2> QED BY <1>1, <1>5, <2>1, FailureFinishes
<1> QED BY <1>4, <1>5 DEF Expired

-----------------------------------------------------------------------------
(* The upstream and its errors.                                              *)

LEMMA RegisterStays ==
  ASSUME ChatInvariant, NEW t \in ChatThreads, Register(t)
  PROVE  ChatInvariant'
<1> DEFINE q == req[t]
           r == [q EXCEPT !.at = "upstream"]
<1>1. /\ q \in Request /\ Keyed(q) /\ Booked(q) /\ q.at = "register" /\ Continue(t, r)
      /\ inflight' = [u \in DOMAIN inflight \cup {t} |-> IF u = t THEN clock ELSE inflight[u]]
      /\ UNCHANGED <<primary, cache, clock, begun, overlaps>>
  BY DEF ChatInvariant, RequestOK, Register
<1>2. q.body \in Bodies /\ Fresh(q) /\ q.answer = None
  BY <1>1 DEF Keyed, Booked, Places
<1> HIDE DEF q
<1>3. /\ r \in Request /\ r.at = "upstream" /\ r.body = q.body /\ r.answer = None /\ Fresh(r)
  <2>1. r \in Request
    BY <1>1 DEF Request, Places
  <2> QED BY <1>1, <1>2, <2>1 DEF Request, Fresh
<1> HIDE DEF r
<1>4. RequestOK(r)
  BY <1>2, <1>3 DEF RequestOK, Keyed, Booked, InSet, Fresh
<1>5. /\ req' \in [ChatThreads -> Request] /\ req'[t] = r
      /\ \A u \in ChatThreads \ {t} : req'[u] = req[u]
      /\ \A u \in ChatThreads : RequestOK(req'[u])
  BY <1>1, <1>4 DEF ChatInvariant, Continue, RequestOK
<1>6. RegistryIsTyped'
  <2>1. /\ DOMAIN inflight' = DOMAIN inflight \cup {t} /\ inflight'[t] = clock /\ clock \in Nat
        /\ \A u \in DOMAIN inflight : u # t => inflight'[u] = inflight[u]
    BY <1>1, ChatAssumption DEF ChatInvariant
  <2>2. r.at \in Registered
    BY <1>3 DEF Registered
  <2>3. RegistryIsTyped /\ clock' = clock
    BY <1>1 DEF ChatInvariant
  <2> QED BY <1>5, <2>1, <2>2, <2>3 DEF RegistryIsTyped, RegistryIsExact
<1>7. SlackIsEarned' /\ CacheIsHonest'
  BY <1>1, <1>3, <1>5 DEF ChatInvariant, SlackIsEarned, SlackNeedsOverlap, CacheIsHonest
<1> QED BY <1>1, <1>5, <1>6, <1>7 DEF ChatInvariant

LEMMA AnsweredStays ==
  ASSUME ChatInvariant, NEW t \in ChatThreads, NEW m \in Models, Answered(t, m)
  PROVE  ChatInvariant'
<1> DEFINE q == req[t]
           b == Normal[q.body]
           k == <<m, b>>
           a == [model |-> m, body |-> b]
           p == IF q.stream THEN "header" ELSE "set"
           r == [q EXCEPT !.at = p, !.body = b, !.key = k, !.answer = a]
<1>1. /\ q \in Request /\ Keyed(q) /\ Booked(q) /\ q.at = "upstream" /\ Continue(t, r)
      /\ begun' \in 0 .. MaxRequests
      /\ UNCHANGED <<primary, cache, inflight, clock, begun, overlaps>>
  BY DEF ChatInvariant, RequestOK, Answered
<1>2. q.body \in Bodies /\ Fresh(q) /\ q.stream \in BOOLEAN
  BY <1>1 DEF Keyed, Booked, Places, Request
<1>3. b \in Bodies /\ k \in Key /\ a \in Answer /\ Fits(k, a)
  BY <1>2, ChatAssumption DEF Key, Answer, Fits
<1>4. p \in {"header", "set"} /\ p \in Places /\ (q.stream <=> p = "header")
  BY DEF Places
<1> HIDE DEF q, b, k, a, p
<1>5. r \in Request
  BY <1>1, <1>3, <1>4 DEF Request
<1>6. r.at = p /\ r.body = b /\ r.key = k /\ r.answer = a /\ r.stream = q.stream /\ Fresh(r)
  BY <1>1, <1>2 DEF Request, Fresh
<1> HIDE DEF r
<1>7. RequestOK(r)
  <2>1. Keyed(r)
    BY <1>3, <1>4, <1>6 DEF Keyed, Fresh, InSet
  <2>2. r.stream = (r.at = "header")
    BY <1>2, <1>4, <1>6
  <2>3. Booked(r)
    BY <1>4, <1>6, <2>2 DEF Booked, InSet
  <2> QED BY <1>5, <2>1, <2>3 DEF RequestOK
<1>8. q.at \in Registered /\ r.at \in Registered /\ r.at # "setInsert"
  BY <1>1, <1>4, <1>6 DEF Registered
<1> QED BY <1>1, <1>7, <1>8, CacheStays DEF q

LEMMA UnansweredStays ==
  ASSUME ChatInvariant, NEW t \in ChatThreads, Unanswered(t)
  PROVE  ChatInvariant'
<1> DEFINE q == req[t]
           r == [q EXCEPT !.at = "failed"]
           p == Send(q, "500")
<1>1. /\ q \in Request /\ Keyed(q) /\ Booked(q) /\ q.at = "upstream"
      /\ begun' \in 0 .. MaxRequests
      /\ UNCHANGED <<primary, cache, clock, begun, overlaps>>
      /\ (Continue(t, r) /\ UNCHANGED inflight) \/ FinishRequest(t, p)
  BY DEF ChatInvariant, RequestOK, Unanswered
<1>2. q.body \in Bodies /\ Fresh(q) /\ q.answer = None
  BY <1>1 DEF Keyed, Booked, Places, Request
<1> HIDE DEF q
<1>3. CASE Continue(t, r) /\ UNCHANGED inflight
  <2>1. r \in Request
    BY <1>1 DEF Request, Places
  <2>2. r.at = "failed" /\ r.answer = None /\ Fresh(r)
    BY <1>1, <1>2 DEF Request, Fresh
  <2> HIDE DEF r
  <2>3. Keyed(r) /\ Booked(r)
    BY <2>2 DEF Keyed, Booked, Fresh, InSet
  <2>4. q.at \in Registered /\ r.at \in Registered /\ r.at # "setInsert"
    BY <1>1, <2>2 DEF Registered
  <2> QED BY <1>1, <1>3, <2>1, <2>3, <2>4, CacheStays DEF q, RequestOK
<1>4. CASE FinishRequest(t, p)
  <2>1. p \in Request /\ Len(p.sent) = 1 /\ ~p.hit /\ p.answer = None
    BY <1>1, <1>2, SendIsTyped DEF Statuses, Fresh
  <2>2. LinesFit(p) /\ RowsFit(p)
    BY <2>1 DEF LinesFit, RowsFit
  <2> HIDE DEF p
  <2> QED BY <1>1, <1>4, <2>1, <2>2, RequestFinishes
<1> QED BY <1>1, <1>3, <1>4

LEMMA FailureRowStays ==
  ASSUME ChatInvariant, NEW t \in ChatThreads, FailureRow(t)
  PROVE  ChatInvariant'
<1> DEFINE q == req[t]
           s == IF "cut" \in q.trouble THEN "504" ELSE "502"
           p == Send(q, s)
           r == [p EXCEPT !.rows = @ + 1]
           d == [q EXCEPT !.trouble = @ \cup {"database"}]
<1>1. /\ q \in Request /\ Booked(q) /\ q.at = "failed"
      /\ UNCHANGED <<primary, cache, clock, begun, overlaps>>
      /\ FinishRequest(t, r) \/ FinishRequest(t, d)
  BY DEF ChatInvariant, RequestOK, FailureRow
<1>2. /\ q.rows = 0 /\ ~q.hit
      /\ \/ q.trouble = {} /\ q.sent = <<>> /\ q.answer = None
         \/ q.trouble = {"cut"} /\ q.sent = <<"200">> /\ q.stream
  BY <1>1 DEF Booked
<1>3. Len(q.sent) = (IF q.trouble = {} THEN 0 ELSE 1)
  BY <1>2
<1>4. s \in Statuses
  BY DEF Statuses
<1> HIDE DEF q, s
<1>5. CASE FinishRequest(t, r)
  <2>1. /\ p \in Request /\ Len(p.sent) = Len(q.sent) + 1 /\ p.rows = 0 /\ p.hit = q.hit
        /\ p.trouble = q.trouble /\ p.answer = q.answer /\ p.stream = q.stream
    BY <1>1, <1>2, <1>4, SendIsTyped
  <2> HIDE DEF p
  <2>2. r \in Request
    BY <2>1 DEF Request
  <2>3. /\ r.rows = 1 /\ r.sent = p.sent /\ r.hit = p.hit
        /\ r.trouble = p.trouble /\ r.answer = p.answer /\ r.stream = p.stream
    BY <2>1 DEF Request
  <2> HIDE DEF r
  <2>4. LinesFit(r)
    <3>1. q.trouble = {} => Len(r.sent) = 1
      BY <1>3, <2>1, <2>3
    <3>2. ASSUME q.trouble = {"cut"}
          PROVE  Len(r.sent) = 2 /\ r.stream /\ "cut" \in r.trouble
      <4>1. q.trouble # {} /\ q.stream /\ "cut" \in q.trouble
        <5>1. "cut" \in q.trouble
          BY <3>2
        <5>2. q.trouble # {}
          BY <5>1
        <5> QED BY <1>2, <5>1, <5>2
      <4>2. Len(q.sent) = 1
        BY <1>3, <4>1
      <4> QED BY <2>1, <2>3, <4>1, <4>2
    <3>3. q.trouble = {} \/ q.trouble = {"cut"}
      BY <1>2
    <3>4. Len(r.sent) = 1 \/ (Len(r.sent) = 2 /\ r.stream /\ "cut" \in r.trouble)
      BY <3>1, <3>2, <3>3
    <3> QED BY <3>4 DEF LinesFit
  <2>5. RowsFit(r) /\ ~r.hit
    BY <1>2, <2>1, <2>3 DEF RowsFit
  <2> QED BY <1>1, <1>5, <2>2, <2>4, <2>5, RequestFinishes
<1>6. CASE FinishRequest(t, d)
  <2>1. d \in Request
    BY <1>1 DEF Request, Troubles
  <2>2. /\ d.rows = 0 /\ d.sent = q.sent /\ d.hit = q.hit
        /\ "database" \in d.trouble /\ d.answer = q.answer
    BY <1>1, <1>2 DEF Request
  <2> HIDE DEF d
  <2>3. LinesFit(d)
    BY <1>2, <1>3, <2>2 DEF LinesFit
  <2>4. RowsFit(d) /\ ~d.hit
    BY <1>2, <2>2 DEF RowsFit
  <2> QED BY <1>1, <1>6, <2>1, <2>3, <2>4, RequestFinishes
<1> QED BY <1>1, <1>5, <1>6

-----------------------------------------------------------------------------
(* A streamed reply.                                                         *)

LEMMA SendHeaderStays ==
  ASSUME ChatInvariant, NEW t \in ChatThreads, SendHeader(t)
  PROVE  ChatInvariant'
<1> DEFINE q == req[t]
           p == Send(q, "200")
           r == [p EXCEPT !.at = "relay"]
<1>1. /\ q \in Request /\ Keyed(q) /\ Booked(q) /\ q.at = "header"
      /\ (Continue(t, r) /\ UNCHANGED inflight) \/ FailRequest(t, p, "broken")
      /\ begun' \in 0 .. MaxRequests
      /\ UNCHANGED <<primary, cache, clock, begun, overlaps>>
  BY DEF ChatInvariant, RequestOK, SendHeader
<1>2. q.body \in Bodies /\ Fresh(q) /\ q.stream
  BY <1>1 DEF Keyed, Booked, Places, Request
<1> HIDE DEF q
<1>3. /\ p \in Request /\ p.sent = <<"200">> /\ p.body = q.body /\ p.stream /\ p.rows = 0
      /\ p.trouble = {} /\ ~p.hit
  BY <1>1, <1>2, SendIsTyped DEF Statuses, Fresh
<1> HIDE DEF p
<1>4. CASE Continue(t, r) /\ UNCHANGED inflight
  <2>1. r \in Request
    BY <1>3 DEF Request, Places
  <2>2. /\ r.at = "relay" /\ r.sent = <<"200">> /\ r.body = q.body /\ r.stream /\ r.rows = 0
        /\ r.trouble = {} /\ ~r.hit
    BY <1>3 DEF Request
  <2> HIDE DEF r
  <2>3. Keyed(r) /\ Booked(r)
    BY <1>2, <2>2 DEF Keyed, Booked, InSet
  <2>4. q.at \in Registered /\ r.at \in Registered /\ r.at # "setInsert"
    BY <1>1, <2>2 DEF Registered
  <2> QED BY <1>1, <1>4, <2>1, <2>3, <2>4, CacheStays DEF q, RequestOK
<1>5. CASE FailRequest(t, p, "broken")
  <2>1. Len(p.sent) = 1 /\ "broken" \in Troubles
    BY <1>3 DEF Troubles
  <2> QED BY <1>1, <1>3, <1>5, <2>1, FailureFinishes
<1> QED BY <1>1, <1>4, <1>5

LEMMA RelayStays ==
  ASSUME ChatInvariant, NEW t \in ChatThreads,
         RelayChunk(t) \/ RelayEnds(t) \/ RelayTimesOut(t) \/ RelayBreaks(t)
  PROVE  ChatInvariant'
<1> DEFINE q == req[t]
<1>1. /\ q \in Request /\ Keyed(q) /\ Booked(q) /\ q.at = "relay"
      /\ begun' \in 0 .. MaxRequests
      /\ UNCHANGED <<primary, cache, clock, begun, overlaps>>
      /\ RelayBreaks(t) \/ UNCHANGED inflight
  BY DEF ChatInvariant, RequestOK, RelayChunk, RelayEnds, RelayTimesOut, RelayBreaks
<1>2. /\ q.body \in Bodies /\ q.stream /\ q.sent = <<"200">> /\ q.rows = 0
      /\ q.trouble = {} /\ ~q.hit /\ q.chunks \in Nat
  BY <1>1 DEF Keyed, Booked, Places, Request
<1>3. q.at \in Registered
  BY <1>1 DEF Registered
<1>4. CASE RelayChunk(t)
  <2> DEFINE r == [q EXCEPT !.chunks = @ + 1]
  <2>1. Continue(t, r) /\ UNCHANGED inflight
    BY <1>4 DEF RelayChunk
  <2> HIDE DEF q
  <2>2. r \in Request
    BY <1>1, <1>2 DEF Request
  <2>3. /\ r.at = "relay" /\ r.sent = <<"200">> /\ r.body = q.body /\ r.stream /\ r.rows = 0
        /\ r.trouble = {} /\ ~r.hit
    BY <1>1, <1>2 DEF Request
  <2> HIDE DEF r
  <2>4. Keyed(r) /\ Booked(r)
    BY <1>2, <2>3 DEF Keyed, Booked, InSet
  <2>5. r.at \in Registered /\ r.at # "setInsert"
    BY <2>3 DEF Registered
  <2> QED BY <1>1, <1>3, <2>1, <2>2, <2>4, <2>5, CacheStays DEF q, RequestOK
<1>5. CASE RelayEnds(t)
  <2> DEFINE r == [q EXCEPT !.at = "account"]
  <2>1. Continue(t, r) /\ UNCHANGED inflight
    BY <1>5 DEF RelayEnds
  <2> HIDE DEF q
  <2>2. r \in Request
    BY <1>1, <1>2 DEF Request, Places
  <2>3. /\ r.at = "account" /\ r.sent = <<"200">> /\ r.body = q.body /\ r.stream /\ r.rows = 0
        /\ r.trouble = {} /\ ~r.hit
    BY <1>1, <1>2 DEF Request
  <2> HIDE DEF r
  <2>4. Keyed(r) /\ Booked(r)
    BY <1>2, <2>3 DEF Keyed, Booked, InSet
  <2>5. r.at \in Registered /\ r.at # "setInsert"
    BY <2>3 DEF Registered
  <2> QED BY <1>1, <1>3, <2>1, <2>2, <2>4, <2>5, CacheStays DEF q, RequestOK
<1>6. CASE RelayTimesOut(t)
  <2> DEFINE r == [q EXCEPT !.at = "failed", !.trouble = {"cut"}]
  <2>1. Continue(t, r) /\ UNCHANGED inflight
    BY <1>6 DEF RelayTimesOut
  <2> HIDE DEF q
  <2>2. r \in Request
    BY <1>1, <1>2 DEF Request, Places, Troubles
  <2>3. /\ r.at = "failed" /\ r.sent = <<"200">> /\ r.stream /\ r.rows = 0
        /\ r.trouble = {"cut"} /\ ~r.hit
    BY <1>1, <1>2 DEF Request
  <2> HIDE DEF r
  <2>4. Keyed(r) /\ Booked(r)
    BY <1>2, <2>3 DEF Keyed, Booked, InSet
  <2>5. r.at \in Registered /\ r.at # "setInsert"
    BY <2>3 DEF Registered
  <2> QED BY <1>1, <1>3, <2>1, <2>2, <2>4, <2>5, CacheStays DEF q, RequestOK
<1>7. CASE RelayBreaks(t)
  <2>1. FailRequest(t, q, "broken") /\ Len(q.sent) = 1 /\ "broken" \in Troubles
    BY <1>2, <1>7 DEF RelayBreaks, Troubles
  <2> HIDE DEF q
  <2> QED BY <1>1, <1>2, <2>1, FailureFinishes
<1> QED BY <1>4, <1>5, <1>6, <1>7

-----------------------------------------------------------------------------
(* PromptCache.set.                                                          *)

\* What a request in set() has of its own.
Storing(q) ==
  /\ q \in Request /\ q.body \in Bodies /\ q.key \in Key /\ q.answer \in Answer /\ Fits(q.key, q.answer)
  /\ Fresh(q) /\ ~q.stream

LEMMA InSetIsStoring ==
  ASSUME NEW q, RequestOK(q), q.at \in {"set"} \cup InSet
  PROVE  Storing(q) /\ q.at \in Registered
<1>1. q.at \in Places \ {"idle", "failed", "done"} /\ q.at # "header"
  BY DEF InSet, Places
<1>2. q \in Request /\ q.body \in Bodies /\ q.key \in Key /\ q.answer \in Answer /\ Fits(q.key, q.answer)
  BY <1>1 DEF RequestOK, Keyed
<1>3. Fresh(q) /\ q.stream = FALSE
  BY <1>1 DEF RequestOK, Booked
<1> QED BY <1>2, <1>3 DEF Storing, Registered

\* A request goes on within set(), or from it to the accounting.
LEMMA StoringGoesOn ==
  ASSUME NEW q, Storing(q), NEW r \in Request, r.at \in {"setScan", "setEvict", "setInsert", "account"},
         r.body = q.body, r.key = q.key, r.answer = q.answer, r.stream = q.stream,
         r.sent = q.sent, r.rows = q.rows, r.trouble = q.trouble, r.hit = q.hit,
         r.at = "setEvict" => r.victim \in Key
  PROVE  RequestOK(r) /\ r.at \in Registered
<1>1. Fresh(r) /\ r.stream = FALSE
  BY DEF Storing, Fresh, Request
<1>2. Keyed(r)
  BY <1>1 DEF Keyed, Storing, InSet, Fresh
<1>3. Booked(r)
  BY <1>1 DEF Booked, InSet, Fresh
<1> QED BY <1>2, <1>3 DEF RequestOK, Registered, InSet

LEMMA RaiseStays ==
  ASSUME ChatInvariant, NEW t \in ChatThreads, req[t].at \in InSet, Raise(t),
         UNCHANGED <<primary, clock, begun, overlaps>>
  PROVE  ChatInvariant'
<1> DEFINE q == req[t]
<1>1. Storing(q) /\ FailRequest(t, q, "race") /\ cache' = cache
  BY InSetIsStoring DEF ChatInvariant, Raise
<1> HIDE DEF q
<1>2. q \in Request /\ Len(q.sent) = 0 /\ q.rows = 0 /\ ~q.hit /\ "race" \in Troubles
  BY <1>1 DEF Storing, Fresh, Troubles
<1> QED BY <1>1, <1>2, FailureFinishes

LEMMA SetBeginStays ==
  ASSUME ChatInvariant, NEW t \in ChatThreads, SetBegin(t)
  PROVE  ChatInvariant'
<1> DEFINE q == req[t]
           full == Cardinality(DOMAIN cache) >= MaxEntries
           p == IF full THEN "setScan" ELSE "setInsert"
           keys == IF full THEN DOMAIN cache ELSE {}
           r == [q EXCEPT !.at = p, !.scanned = keys]
<1>1. /\ Storing(q) /\ q.at \in Registered /\ Continue(t, r)
      /\ begun' \in 0 .. MaxRequests
      /\ UNCHANGED <<primary, cache, inflight, clock, begun, overlaps>>
  BY InSetIsStoring DEF ChatInvariant, SetBegin
<1>2. p \in {"setScan", "setInsert"} /\ p \in Places /\ keys \in SUBSET Key
  BY DEF Places, ChatInvariant, CacheIsHonest
<1>3. p = "setInsert" => Cardinality(DOMAIN cache) < MaxEntries + overlaps
  BY ChatAssumption, FS_CardinalityType DEF ChatInvariant, CacheIsHonest, SlackIsEarned
<1> HIDE DEF q, p, keys
<1>4. r \in Request
  BY <1>1, <1>2 DEF Request, Storing
<1>5. /\ r.at = p /\ r.body = q.body /\ r.key = q.key /\ r.answer = q.answer /\ r.stream = q.stream
      /\ r.sent = q.sent /\ r.rows = q.rows /\ r.trouble = q.trouble /\ r.hit = q.hit
  BY <1>1 DEF Request, Storing
<1> HIDE DEF r
<1>6. RequestOK(r) /\ r.at \in Registered
  BY <1>1, <1>2, <1>4, <1>5, StoringGoesOn
<1> QED BY <1>1, <1>3, <1>5, <1>6, CacheStays DEF q

LEMMA SetScanStays ==
  ASSUME ChatInvariant, NEW t \in ChatThreads, SetScan(t)
  PROVE  ChatInvariant'
<1> DEFINE q == req[t]
<1>1. /\ Storing(q) /\ q.at \in Registered /\ q.at = "setScan"
      /\ begun' \in 0 .. MaxRequests
      /\ UNCHANGED <<primary, clock, begun, overlaps>>
  BY InSetIsStoring DEF ChatInvariant, SetScan, InSet
<1>2. CASE Raise(t)
  BY <1>1, <1>2, RaiseStays DEF InSet
<1>3. ASSUME NEW k \in DOMAIN cache, UNCHANGED <<cache, inflight>>,
             Continue(t, [q EXCEPT !.at = "setEvict", !.victim = k, !.scanned = {}])
      PROVE  ChatInvariant'
  <2> DEFINE r == [q EXCEPT !.at = "setEvict", !.victim = k, !.scanned = {}]
  <2>1. k \in Key
    BY DEF ChatInvariant, CacheIsHonest
  <2>2. Continue(t, r)
    BY <1>3
  <2> HIDE DEF q
  <2>3. r \in Request
    BY <1>1, <2>1 DEF Request, Storing, Places
  <2>4. /\ r.at = "setEvict" /\ r.body = q.body /\ r.key = q.key /\ r.answer = q.answer /\ r.stream = q.stream
        /\ r.sent = q.sent /\ r.rows = q.rows /\ r.trouble = q.trouble /\ r.hit = q.hit /\ r.victim = k
    BY <1>1 DEF Request, Storing
  <2> HIDE DEF r
  <2>5. RequestOK(r) /\ r.at \in Registered
    BY <1>1, <2>1, <2>3, <2>4, StoringGoesOn
  <2> QED BY <1>1, <1>3, <2>2, <2>4, <2>5, CacheStays DEF q
<1> QED BY <1>2, <1>3 DEF SetScan

LEMMA SetEvictStays ==
  ASSUME ChatInvariant, NEW t \in ChatThreads, SetEvict(t)
  PROVE  ChatInvariant'
<1> DEFINE q == req[t]
           r == [q EXCEPT !.at = "setInsert", !.victim = None]
<1>1. /\ Storing(q) /\ q.at \in Registered /\ q.at = "setEvict"
      /\ begun' \in 0 .. MaxRequests
      /\ UNCHANGED <<primary, clock, begun, overlaps>>
  BY InSetIsStoring DEF ChatInvariant, SetEvict, InSet
<1>2. CASE Raise(t)
  BY <1>1, <1>2, RaiseStays DEF InSet
<1>3. CASE q.victim \in DOMAIN cache /\ cache' = Restrict(cache, DOMAIN cache \ {q.victim})
           /\ Continue(t, r) /\ UNCHANGED inflight
  <2>1. /\ CacheIsHonest' /\ Cardinality(DOMAIN cache') = Cardinality(DOMAIN cache) - 1
        /\ Cardinality(DOMAIN cache) \in Nat
    BY <1>3, CacheLoses
  <2> HIDE DEF q
  <2>2. r \in Request
    BY <1>1 DEF Request, Storing, Places
  <2>3. /\ r.at = "setInsert" /\ r.body = q.body /\ r.key = q.key /\ r.answer = q.answer /\ r.stream = q.stream
        /\ r.sent = q.sent /\ r.rows = q.rows /\ r.trouble = q.trouble /\ r.hit = q.hit
    BY <1>1 DEF Request, Storing
  <2>4. Continue(t, r)
    BY <1>3
  <2> HIDE DEF r
  <2>5. RequestOK(r) /\ r.at \in Registered
    BY <1>1, <2>2, <2>3, StoringGoesOn
  <2>6. /\ overlaps' \in Nat /\ overlaps' = overlaps /\ Cardinality(DOMAIN cache) <= MaxEntries + overlaps
        /\ \A u \in ChatThreads : req[u].at = "setInsert" => Cardinality(DOMAIN cache) < MaxEntries + overlaps
    BY <1>1 DEF ChatInvariant, SlackIsEarned, SlackNeedsOverlap
  <2>7. /\ Cardinality(DOMAIN cache') < MaxEntries + overlaps'
        /\ Cardinality(DOMAIN cache') <= MaxEntries + overlaps'
    BY <2>1, <2>6, ChatAssumption
  <2> QED BY <1>1, <1>3, <2>1, <2>4, <2>5, <2>6, <2>7, RequestMoves DEF q
<1> QED BY <1>2, <1>3 DEF SetEvict

LEMMA SetInsertStays ==
  ASSUME ChatInvariant, NEW t \in ChatThreads, SetInsert(t)
  PROVE  ChatInvariant'
<1> DEFINE q == req[t]
           e == [expires |-> clock + Ttl, answer |-> q.answer]
           others == \E u \in ChatThreads \ {t} : req[u].at \in InSet
           r == [q EXCEPT !.at = "account"]
<1>1. /\ Storing(q) /\ q.at \in Registered /\ q.at = "setInsert" /\ Continue(t, r)
      /\ begun' \in 0 .. MaxRequests
      /\ cache' = [k \in DOMAIN cache \cup {q.key} |-> IF k = q.key THEN e ELSE cache[k]]
      /\ overlaps' = overlaps + (IF others THEN 1 ELSE 0)
      /\ UNCHANGED <<primary, inflight, clock, begun>>
  BY InSetIsStoring DEF ChatInvariant, SetInsert, InSet
<1>2. /\ CacheIsHonest /\ overlaps \in Nat /\ Cardinality(DOMAIN cache) <= MaxEntries + overlaps
      /\ \A u \in ChatThreads : req[u].at = "setInsert" => Cardinality(DOMAIN cache) < MaxEntries + overlaps
  BY DEF ChatInvariant, SlackIsEarned, SlackNeedsOverlap
<1>3. \A u \in ChatThreads \ {t} : req[u].at = "setInsert" => others
  BY DEF InSet
<1>4. Cardinality(DOMAIN cache) < MaxEntries + overlaps
  BY <1>1, <1>2
<1>5. clock + Ttl \in Nat
  BY ChatAssumption DEF ChatInvariant
<1> HIDE DEF q, others
<1>6. e \in Entry /\ Fits(q.key, e.answer) /\ q.key \in Key
  BY <1>1, <1>5 DEF Entry, Storing
<1> HIDE DEF e
<1>7. CacheIsHonest' /\ DOMAIN cache' = DOMAIN cache \cup {q.key}
  <2>1. IsFiniteSet(DOMAIN cache \cup {q.key})
    BY <1>2, FS_AddElement DEF CacheIsHonest
  <2> QED BY <1>1, <1>2, <1>6, <2>1 DEF CacheIsHonest
<1>8. /\ Cardinality(DOMAIN cache') <= Cardinality(DOMAIN cache) + 1
      /\ Cardinality(DOMAIN cache) \in Nat /\ Cardinality(DOMAIN cache') \in Nat
  <2>1. IsFiniteSet(DOMAIN cache)
    BY <1>2 DEF CacheIsHonest
  <2>2. Cardinality(DOMAIN cache) \in Nat
    BY <2>1, FS_CardinalityType
  <2>3. Cardinality(DOMAIN cache \cup {q.key}) =
          IF q.key \in DOMAIN cache THEN Cardinality(DOMAIN cache) ELSE Cardinality(DOMAIN cache) + 1
    BY <2>1, FS_AddElement
  <2>4. Cardinality(DOMAIN cache') = Cardinality(DOMAIN cache \cup {q.key})
    BY <1>7
  <2> QED BY <2>2, <2>3, <2>4
<1>9. /\ overlaps' \in Nat
      /\ Cardinality(DOMAIN cache') <= MaxEntries + overlaps'
      /\ others => Cardinality(DOMAIN cache') < MaxEntries + overlaps'
  BY <1>1, <1>2, <1>4, <1>8, ChatAssumption
<1>10. r \in Request
  BY <1>1 DEF Request, Storing, Places
<1>11. /\ r.at = "account" /\ r.body = q.body /\ r.key = q.key /\ r.answer = q.answer /\ r.stream = q.stream
       /\ r.sent = q.sent /\ r.rows = q.rows /\ r.trouble = q.trouble /\ r.hit = q.hit
  BY <1>1 DEF Request, Storing
<1> HIDE DEF r
<1>12. RequestOK(r) /\ r.at \in Registered
  BY <1>1, <1>10, <1>11, StoringGoesOn
<1> QED BY <1>1, <1>3, <1>7, <1>9, <1>11, <1>12, RequestMoves DEF q

-----------------------------------------------------------------------------
(* The accounting and the reply.                                             *)

(* Capture ends a request whose reply is out and whose row is booked.        *)
LEMMA CaptureFinishes ==
  ASSUME ChatInvariant, NEW t \in ChatThreads, NEW r \in Request, FinishWithCapture(t, r),
         ~r.hit, Len(r.sent) = 1, r.trouble \in {{}, {"database"}},
         r.rows = IF r.trouble = {} THEN 1 ELSE 0,
         UNCHANGED <<primary, cache, clock, overlaps, begun>>
  PROVE  ChatInvariant'
<1>1. CASE FinishRequest(t, r)
  <2>1. LinesFit(r) /\ RowsFit(r)
    BY DEF LinesFit, RowsFit
  <2> QED BY <1>1, <2>1, RequestFinishes
<1>2. CASE FailRequest(t, r, "words")
  <2>1. r.rows = (IF (r.trouble \cup {"words"}) \cap {"database", "race", "broken", "usage"} # {} THEN 0 ELSE 1)
    <3>1. CASE r.trouble = {}
      BY <3>1
    <3>2. CASE r.trouble = {"database"}
      BY <3>2
    <3> QED BY <3>1, <3>2
  <2>2. "words" \in Troubles
    BY DEF Troubles
  <2> QED BY <1>2, <2>1, <2>2, FailureFinishes
<1> QED BY <1>1, <1>2 DEF FinishWithCapture

LEMMA VerifyRaisesStays ==
  ASSUME ChatInvariant, NEW t \in ChatThreads, VerifyRaises(t)
  PROVE  ChatInvariant'
<1> DEFINE q == req[t]
<1>1. /\ q \in Request /\ Booked(q) /\ q.at = "account" /\ ~q.stream /\ FailRequest(t, q, "usage")
      /\ UNCHANGED <<primary, cache, clock, begun, overlaps>>
  BY DEF ChatInvariant, RequestOK, VerifyRaises
<1>2. q.rows = 0 /\ ~q.hit /\ Len(q.sent) = 0 /\ "usage" \in Troubles
  BY <1>1 DEF Booked, Troubles
<1> HIDE DEF q
<1> QED BY <1>1, <1>2, FailureFinishes

LEMMA AccountStays ==
  ASSUME ChatInvariant, NEW t \in ChatThreads, Account(t)
  PROVE  ChatInvariant'
<1> DEFINE q == req[t]
           booked == [q EXCEPT !.rows = @ + 1]
           failed == [q EXCEPT !.trouble = {"database"}]
<1>1. /\ q \in Request /\ Keyed(q) /\ Booked(q) /\ q.at = "account"
      /\ begun' \in 0 .. MaxRequests
      /\ UNCHANGED <<primary, cache, clock, begun, overlaps>>
  BY DEF ChatInvariant, RequestOK, Account
<1>2. /\ q.body \in Bodies /\ q.rows = 0 /\ q.trouble = {} /\ ~q.hit /\ q.stream \in BOOLEAN
      /\ q.sent = IF q.stream THEN <<"200">> ELSE <<>>
  BY <1>1 DEF Keyed, Booked, Places, Request
<1>3. PICK d \in {booked, failed} :
        IF q.stream THEN FinishWithCapture(t, d)
        ELSE Continue(t, [d EXCEPT !.at = "reply"]) /\ UNCHANGED inflight
  BY DEF Account
<1> HIDE DEF q
<1>4. /\ d \in Request /\ d.body = q.body /\ d.sent = q.sent /\ d.hit = q.hit /\ d.stream = q.stream
      /\ (d.trouble = {} /\ d.rows = 1) \/ (d.trouble = {"database"} /\ d.rows = 0)
  <2>1. booked \in Request /\ failed \in Request
    BY <1>1, <1>2 DEF Request, Troubles
  <2>2. /\ booked.body = q.body /\ booked.sent = q.sent /\ booked.hit = q.hit /\ booked.stream = q.stream
        /\ booked.trouble = {} /\ booked.rows = 1
    BY <1>1, <1>2 DEF Request
  <2>3. /\ failed.body = q.body /\ failed.sent = q.sent /\ failed.hit = q.hit /\ failed.stream = q.stream
        /\ failed.trouble = {"database"} /\ failed.rows = 0
    BY <1>1, <1>2 DEF Request
  <2> HIDE DEF booked, failed
  <2>4. CASE d = booked
    BY <2>1, <2>2, <2>4
  <2>5. CASE d = failed
    BY <2>1, <2>3, <2>5
  <2> QED BY <1>3, <2>4, <2>5
<1>5. CASE q.stream
  <2>1. FinishWithCapture(t, d)
    BY <1>3, <1>5
  <2>2. d.sent = <<"200">> /\ Len(d.sent) = 1 /\ ~d.hit
    BY <1>2, <1>4, <1>5
  <2>3. d.rows = (IF d.trouble = {} THEN 1 ELSE 0) /\ d.trouble \in {{}, {"database"}}
    BY <1>4
  <2> QED BY <1>1, <1>4, <2>1, <2>2, <2>3, CaptureFinishes
<1>6. CASE ~q.stream
  <2> DEFINE r == [d EXCEPT !.at = "reply"]
  <2>1. Continue(t, r) /\ UNCHANGED inflight
    BY <1>3, <1>6
  <2>2. r \in Request
    BY <1>4 DEF Request, Places
  <2>3. /\ r.at = "reply" /\ r.body = q.body /\ r.sent = <<>> /\ ~r.hit
        /\ (r.trouble = {} /\ r.rows = 1) \/ (r.trouble = {"database"} /\ r.rows = 0)
    BY <1>2, <1>4, <1>6 DEF Request
  <2> HIDE DEF r
  <2>4. Keyed(r) /\ Booked(r)
    BY <1>2, <2>3 DEF Keyed, Booked, InSet
  <2>5. q.at \in Registered /\ r.at \in Registered /\ r.at # "setInsert"
    BY <1>1, <2>3 DEF Registered
  <2> QED BY <1>1, <2>1, <2>2, <2>4, <2>5, CacheStays DEF q, RequestOK
<1> QED BY <1>5, <1>6

LEMMA ReplyStays ==
  ASSUME ChatInvariant, NEW t \in ChatThreads, Reply(t)
  PROVE  ChatInvariant'
<1> DEFINE q == req[t]
           r == Send(q, "200")
<1>1. /\ q \in Request /\ Booked(q) /\ q.at = "reply" /\ FinishWithCapture(t, r)
      /\ UNCHANGED <<primary, cache, clock, begun, overlaps>>
  BY DEF ChatInvariant, RequestOK, Reply
<1>2. /\ q.sent = <<>> /\ ~q.hit
      /\ (q.trouble = {} /\ q.rows = 1) \/ (q.trouble = {"database"} /\ q.rows = 0)
  BY <1>1 DEF Booked
<1> HIDE DEF q
<1>3. /\ r \in Request /\ Len(r.sent) = 1 /\ ~r.hit
      /\ r.trouble = q.trouble /\ r.rows = q.rows
  BY <1>1, <1>2, SendIsTyped DEF Statuses
<1> HIDE DEF r
<1>4. r.trouble \in {{}, {"database"}} /\ r.rows = (IF r.trouble = {} THEN 1 ELSE 0)
  BY <1>2, <1>3
<1> QED BY <1>1, <1>3, <1>4, CaptureFinishes

-----------------------------------------------------------------------------
(* The registry's sweep, the administrator and the clock.                    *)
LEMMA OthersStay ==
  ASSUME ChatInvariant, Sweep \/ ChatTick \/ (\E m \in Models : EditChain(m))
  PROVE  ChatInvariant'
<1> USE ChatAssumption
<1>1. CASE Sweep
  <2>1. /\ DOMAIN inflight' = {t \in DOMAIN inflight : inflight[t] >= clock - MaxAge}
        /\ \A t \in DOMAIN inflight' : inflight'[t] = inflight[t]
        /\ UNCHANGED <<primary, cache, req, clock, begun, overlaps>>
    BY <1>1 DEF Sweep, Restrict
  <2>2. RegistryIsTyped /\ clock \in Nat
    BY DEF ChatInvariant
  <2>3. clock <= MaxAge => DOMAIN inflight' = DOMAIN inflight
    BY <2>1, <2>2 DEF RegistryIsTyped
  <2>4. RegistryIsTyped'
    BY <2>1, <2>2, <2>3 DEF RegistryIsTyped, RegistryIsExact
  <2> QED BY <2>1, <2>4 DEF ChatInvariant, CacheIsHonest, SlackIsEarned, SlackNeedsOverlap
<1>2. CASE ChatTick
  <2>1. clock' \in 0 .. MaxClock /\ UNCHANGED <<primary, cache, inflight, req, begun, overlaps>>
        /\ (clock' <= MaxAge => clock <= MaxAge)
    BY <1>2 DEF ChatTick, ChatInvariant
  <2>2. RegistryIsTyped'
    BY <2>1 DEF ChatInvariant, RegistryIsTyped, RegistryIsExact
  <2> QED BY <2>1, <2>2 DEF ChatInvariant, CacheIsHonest, SlackIsEarned, SlackNeedsOverlap
<1>3. CASE \E m \in Models : EditChain(m)
  BY <1>3 DEF EditChain, ChatInvariant, CacheIsHonest, SlackIsEarned, SlackNeedsOverlap,
              RegistryIsTyped, RegistryIsExact
<1> QED BY <1>1, <1>2, <1>3

LEMMA ChatStays == ChatInvariant /\ [ChatNext]_chatVars => ChatInvariant'
<1> SUFFICES ASSUME ChatInvariant, [ChatNext]_chatVars PROVE ChatInvariant'
  OBVIOUS
<1>1. ASSUME NEW t \in ChatThreads, Step(t) PROVE ChatInvariant'
  BY <1>1, LookupStays, HitStays, ExpiredStays, RegisterStays, AnsweredStays, UnansweredStays,
     FailureRowStays, SendHeaderStays, RelayStays, SetBeginStays, SetScanStays, SetEvictStays,
     SetInsertStays, VerifyRaisesStays, AccountStays, ReplyStays DEF Step
<1>2. CASE UNCHANGED chatVars
  BY <1>2 DEF chatVars, ChatInvariant, CacheIsHonest, SlackIsEarned, SlackNeedsOverlap,
              RegistryIsTyped, RegistryIsExact
<1> QED BY <1>1, <1>2, BeginStays, RefuseStays, OthersStay DEF ChatNext

LEMMA ChatIsSound ==
  ASSUME ChatInvariant
  PROVE  RequestsAreAccounted /\ HitIsAnAnswerToThisRequest
<1>1. CTypeOK
  BY DEF ChatInvariant, CTypeOK, CacheIsHonest, SlackIsEarned, RegistryIsTyped, RegistryIsExact
<1>2. \A t \in ChatThreads : Keyed(req[t]) /\ Booked(req[t])
  BY DEF ChatInvariant, RequestOK
<1>3. OneStatusLine /\ AnswersAreAccounted
  BY <1>2 DEF Booked, OneStatusLine, AnswersAreAccounted
<1>4. HitIsAnAnswerToThisRequest
  BY <1>2 DEF Keyed, HitIsAnAnswerToThisRequest
<1>5. SlackNeedsOverlap /\ RegistryIsExact
  BY DEF ChatInvariant, SlackIsEarned, RegistryIsTyped
<1> QED BY <1>1, <1>3, <1>4, <1>5 DEF RequestsAreAccounted

(* A reply from the cache is an answer that the model first in the chain     *)
(* gave to exactly this body, whatever chain edits, normalisations and other *)
(* threads' evictions come between get() and set() (PromptCache).            *)
THEOREM HitsAnswerTheRequest == ChatSpec => []HitIsAnAnswerToThisRequest
<1>1. ChatInit => ChatInvariant
  BY ChatStarts
<1>2. ChatInvariant => HitIsAnAnswerToThisRequest
  BY ChatIsSound
<1> QED BY <1>1, <1>2, ChatStays, PTL DEF ChatSpec

(* The books of a request, for any number of threads: the cache outgrows its *)
(* limit by overlapping insertions only, the registry holds the requests     *)
(* under way on every path, a request has one status line unless its stream  *)
(* broke off, its words could not be read or its failure row was refused,    *)
(* and an answer one cost row unless the database failed, set() lost a race, *)
(* the stream broke otherwise than by a timeout or a disconnect, or the      *)
(* usage could not be read (_serve_chat_completions).                        *)
THEOREM RequestsStayAccounted == ChatSpec => []RequestsAreAccounted
<1>1. ChatInit => ChatInvariant
  BY ChatStarts
<1>2. ChatInvariant => RequestsAreAccounted
  BY ChatIsSound
<1> QED BY <1>1, <1>2, ChatStays, PTL DEF ChatSpec
=============================================================================
