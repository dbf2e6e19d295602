---------------------------- MODULE StoreProofs ----------------------------
(***************************************************************************)
(* Theorems about Store, for every number of visitors and of stores, every *)
(* demand and every input.                                                 *)
(***************************************************************************)
EXTENDS Store, TLAPS

\* What a step of a visitor can be.
VisitorStep(v) == Visit(v) \/ \E s \in Shop : Enter(v, s) \/ Refused(v, s)

\* No step takes a variable out of its range.
LEMMA TypeStep == TypeOK /\ [Next]_vars => TypeOK'
<1> SUFFICES ASSUME TypeOK, [Next]_vars PROVE TypeOK'
  OBVIOUS
<1> USE StoreAssumption DEF TypeOK, Inside, Step, numbers
<1>1. CASE UNCHANGED vars
  BY <1>1 DEF vars
<1>2. CASE Main \/ CreateFails
  <2>1. ASSUME NEW v \in Visitor, Create(v) PROVE TypeOK'
    BY <2>1 DEF Create, Born
  <2>2. CASE JoinConsumers \/ Return \/ CreateFails
    BY <2>2 DEF JoinConsumers, Return, CreateFails
  <2>3. ASSUME NEW s \in Shop, Destroy(s) PROVE TypeOK'
    BY <2>3 DEF Destroy
  <2> QED
    BY <1>2, <2>1, <2>2, <2>3 DEF Main
<1>3. ASSUME NEW v \in Visitor, VisitorStep(v) PROVE TypeOK'
  <2>1. CASE LoadIndex(v)
    BY <2>1 DEF LoadIndex, Counter
  <2>2. CASE StoreIndex(v)
    BY <2>2 DEF StoreIndex, Counter
  <2>3. CASE TakeIndex(v)
    BY <2>3 DEF TakeIndex, Counter
  <2>4. CASE WakeUp(v)
    BY <2>4 DEF WakeUp
  <2>5. CASE ReadStore(v)
    BY <2>5 DEF ReadStore
  <2>6. CASE Leave(v) \/ Goodbye(v)
    BY <2>6 DEF Leave, Goodbye, Unlock
  <2>7. ASSUME v \in Loader, NEW i \in Input, Bring(v, i) PROVE TypeOK'
    BY <2>7 DEF Bring
  <2>8. CASE BringNothing(v)
    BY <2>8 DEF BringNothing
  <2>9. CASE v \in Consumer /\ TakeAll(v)
    BY <2>9 DEF TakeAll
  <2>10. CASE v \in Consumer /\ TakeTheRest(v)
    BY <2>10 DEF TakeTheRest
  <2>11. ASSUME NEW s \in Shop, Enter(v, s) \/ Refused(v, s) PROVE TypeOK'
    BY <2>11 DEF Enter, Refused
  <2> QED
    BY <1>3, <2>1, <2>2, <2>3, <2>4, <2>5, <2>6, <2>7, <2>8, <2>9, <2>10,
       <2>11 DEF VisitorStep, Visit
<1> QED
  BY <1>1, <1>2, <1>3 DEF Next, VisitorStep

\* The variables stay in their ranges.
THEOREM TypeCorrect == Spec => []TypeOK
<1>1. Init => TypeOK
  BY StoreAssumption DEF Init, TypeOK, Inside
<1> QED
  BY <1>1, TypeStep, PTL DEF Spec

----------------------------------------------------------------------------
\* What a visitor has read inside a store is still what is there.
WhatWasRead ==
  \A v \in Visitor : pc[v] = "change" => reg[v] = STORE[store_num[v]]

StockInv == LockedByTheVisitor /\ WhatWasRead /\ StockMatchesBooks

\* A step that writes STORE is taken inside the store, where nobody else is.
LEMMA StockStep == TypeOK /\ StockInv /\ [Next]_vars => StockInv'
<1> SUFFICES ASSUME TypeOK, StockInv, [Next]_vars PROVE StockInv'
  OBVIOUS
<1> USE StoreAssumption DEF TypeOK, StockInv, LockedByTheVisitor,
        WhatWasRead, StockMatchesBooks, Inside, Step
<1>1. CASE UNCHANGED vars
  BY <1>1 DEF vars
<1>2. CASE Main \/ CreateFails
  <2>1. ASSUME NEW v \in Visitor, Create(v) PROVE StockInv'
    BY <2>1 DEF Create, Born
  <2>2. CASE JoinConsumers \/ Return \/ CreateFails
    BY <2>2 DEF JoinConsumers, Return, CreateFails
  <2>3. ASSUME NEW s \in Shop, Destroy(s) PROVE StockInv'
    BY <2>3 DEF Destroy
  <2> QED
    BY <1>2, <2>1, <2>2, <2>3 DEF Main
<1>3. ASSUME NEW v \in Visitor, VisitorStep(v) PROVE StockInv'
  <2>1. CASE LoadIndex(v) \/ StoreIndex(v) \/ TakeIndex(v) \/ WakeUp(v)
    BY <2>1 DEF LoadIndex, StoreIndex, TakeIndex, WakeUp
  <2>2. CASE ReadStore(v)
    BY <2>2 DEF ReadStore
  <2>3. CASE Leave(v) \/ Goodbye(v)
    BY <2>3 DEF Leave, Goodbye, Unlock
  <2>4. ASSUME v \in Loader, NEW i \in Input, Bring(v, i) PROVE StockInv'
    <3>1. reg[v] = STORE[store_num[v]] /\ store_num[v] \in Shop
      BY <2>4 DEF Bring
    <3>2. StockMatchesBooks'
      BY <2>4, <3>1 DEF Bring
    <3>3. LockedByTheVisitor'
      BY <2>4 DEF Bring
    <3>4. \A w \in Visitor : w # v /\ pc[w] = "change" =>
            store_num[w] # store_num[v] /\ store_num[w] \in Shop
      BY <2>4 DEF Bring
    <3>5. WhatWasRead'
      BY <2>4, <3>4 DEF Bring
    <3> QED
      BY <3>2, <3>3, <3>5
  <2>5. CASE BringNothing(v)
    BY <2>5 DEF BringNothing
  <2>6. CASE v \in Consumer /\ TakeAll(v)
    <3>1. reg[v] = STORE[store_num[v]] /\ store_num[v] \in Shop
      BY <2>6 DEF TakeAll
    <3>6. books[store_num[v]] - reg[v] = 0
      BY <3>1
    <3>2. StockMatchesBooks'
      BY <2>6, <3>1, <3>6 DEF TakeAll
    <3>3. LockedByTheVisitor'
      BY <2>6 DEF TakeAll
    <3>4. \A w \in Visitor : w # v /\ pc[w] = "change" =>
            store_num[w] # store_num[v] /\ store_num[w] \in Shop
      BY <2>6 DEF TakeAll
    <3>5. WhatWasRead'
      BY <2>6, <3>4 DEF TakeAll
    <3> QED
      BY <3>2, <3>3, <3>5
  <2>7. CASE v \in Consumer /\ TakeTheRest(v)
    <3>1. reg[v] = STORE[store_num[v]] /\ store_num[v] \in Shop
      BY <2>7 DEF TakeTheRest
    <3>2. StockMatchesBooks'
      BY <2>7, <3>1 DEF TakeTheRest
    <3>3. LockedByTheVisitor'
      BY <2>7 DEF TakeTheRest
    <3>4. \A w \in Visitor : w # v /\ pc[w] = "change" =>
            store_num[w] # store_num[v] /\ store_num[w] \in Shop
      BY <2>7 DEF TakeTheRest
    <3>5. WhatWasRead'
      BY <2>7, <3>4 DEF TakeTheRest
    <3> QED
      BY <3>2, <3>3, <3>5
  <2>8. ASSUME NEW s \in Shop, Enter(v, s) \/ Refused(v, s) PROVE StockInv'
    BY <2>8 DEF Enter, Refused, CanEnter
  <2> QED
    BY <1>3, <2>1, <2>2, <2>3, <2>4, <2>5, <2>6, <2>7, <2>8
       DEF VisitorStep, Visit
<1> QED
  BY <1>1, <1>2, <1>3 DEF Next, VisitorStep

\* What holds in every state about the locks, the loaded values and stocks.
LEMMA StockInvHolds == Spec => [](TypeOK /\ StockInv)
<1>1. Init => StockInv
  BY StoreAssumption DEF Init, StockInv, LockedByTheVisitor, WhatWasRead,
     StockMatchesBooks, Inside
<1> QED
  BY <1>1, StockStep, TypeCorrect, PTL DEF Spec

\* A mutex is held exactly by the visitor inside the store, on every way
\* out of loader_func() and consum_func().
THEOREM LockedByTheVisitorHolds == Spec => []LockedByTheVisitor
BY StockInvHolds, PTL DEF StockInv

\* No update of STORE is lost, whatever the threads do.
THEOREM StockMatchesBooksHolds == Spec => []StockMatchesBooks
BY StockInvHolds, PTL DEF StockInv

----------------------------------------------------------------------------
\* main() destroys the mutexes after the last consumer has gone: needs that
\* main() passes pthread_join() once and that nobody is born again.
JoinedInv ==
  /\ main = "destroy" => \A c \in Consumer : pc[c] = "done"
  /\ \A s \in Shop : mutex[s] # "ok" => \A c \in Consumer : pc[c] = "done"

\* main() destroys the mutexes when the last consumer has gone.
THEOREM ConsumersGoFirstHolds == Spec => []ConsumersGoFirst
<1>1. Init => JoinedInv
  BY DEF Init, JoinedInv
<1>2. JoinedInv /\ TypeOK /\ [Next]_vars => JoinedInv'
  <2> SUFFICES ASSUME JoinedInv, TypeOK, [Next]_vars PROVE JoinedInv'
    OBVIOUS
  <2> USE DEF JoinedInv
  <2>1. CASE UNCHANGED <<main, mutex, pc>>
    BY <2>1
  <2>2. ASSUME NEW v \in Visitor, Create(v) PROVE JoinedInv'
    BY <2>2 DEF Create, Born
  <2>3. CASE JoinConsumers \/ Return \/ CreateFails
    BY <2>3 DEF JoinConsumers, Return, CreateFails
  <2>4. ASSUME NEW s \in Shop, Destroy(s) PROVE JoinedInv'
    BY <2>4 DEF Destroy
  <2>5. ASSUME NEW v \in Visitor, VisitorStep(v) PROVE JoinedInv'
    <3>1. UNCHANGED <<main, mutex>>
      BY <2>5 DEF VisitorStep, Visit, LoadIndex, StoreIndex, TakeIndex,
         WakeUp, ReadStore, Leave, Goodbye, Unlock, Bring, BringNothing,
         TakeAll, TakeTheRest, Enter, Refused
    <3>2. pc[v] # "done" /\ \A w \in Visitor : w # v => pc'[w] = pc[w]
      BY <2>5 DEF VisitorStep, Visit, LoadIndex, StoreIndex, TakeIndex,
         WakeUp, ReadStore, Leave, Goodbye, Unlock, Bring, BringNothing,
         TakeAll, TakeTheRest, Enter, Refused, Step, TypeOK
    <3> QED
      BY <3>1, <3>2 DEF Visitor
  <2> QED
    BY <2>1, <2>2, <2>3, <2>4, <2>5 DEF Next, Main, VisitorStep, vars
<1>3. JoinedInv /\ TypeOK /\ StockInv => ConsumersGoFirst
  BY DEF JoinedInv, StockInv, LockedByTheVisitor, ConsumersGoFirst, Inside,
     Visitor
<1> QED
  BY <1>1, <1>2, <1>3, StockInvHolds, PTL DEF Spec
=============================================================================
