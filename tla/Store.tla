------------------------------- MODULE Store -------------------------------
(***************************************************************************)
(* The shop simulator of lesson 19.  Consumers and loaders, each a thread, *)
(* visit stores picked at random and enter one with trylock(); a visitor   *)
(* that finds a store taken sleeps and picks again.  A consumer leaves for *)
(* good when his demands are met; main() waits for the consumers only,     *)
(* destroys the mutexes and returns, which ends the loaders.               *)
(*                                                                         *)
(* The programs are built without optimization: every access to a shared   *)
(* variable is a load or a store of its own, and "index = ++COUNTER" is a  *)
(* load, a store and a second load.                                        *)
(***************************************************************************)
EXTENDS Integers, FiniteSets

CONSTANTS
  Consumer, Loader, \* the threads
  Shop,             \* the stores (STORE_COUNT of them)
  START,            \* the goods in each store at the start
  DEMAND,           \* START_CONSUM_DEMANDS
  Input,            \* what a loader may bring (450..549)
  MAX_STOCK,        \* bound: loaders do not fill a store beyond it
  Free              \* no thread, no store

Visitor == Consumer \cup Loader

ASSUME StoreAssumption ==
  /\ Consumer \cap Loader = {}
  /\ Free \notin Visitor \cup Shop
  /\ START \in Nat
  /\ DEMAND \in Nat \ {0}
  /\ Input \subseteq Nat \ {0}

VARIABLES
  main,       \* what main() is doing
  mutex,      \* "ok", "destroyed", or "busy": destroy() refused
  pc,         \* where each thread is
  lock,       \* the owner of each mutex
  STORE,      \* the goods in each store
  cons_dem,   \* what each consumer still wants
  store_num,  \* the store a visitor is in
  reg,        \* what a visitor has loaded from memory
  INDEX,      \* CONS_INDEX and LOAD_INDEX
  index,      \* the number a thread shows
  books       \* history: the start, plus what was brought, minus what was
              \* taken away by the buyers

numbers == <<INDEX, index>>
vars == <<main, mutex, pc, lock, STORE, cons_dem, store_num, reg, numbers,
          books>>

Init ==
  /\ main = "create"
  /\ mutex = [s \in Shop |-> "ok"]
  /\ pc = [v \in Visitor |-> "unborn"]
  /\ lock = [s \in Shop |-> Free]
  /\ STORE = [s \in Shop |-> START]
  /\ cons_dem = [c \in Consumer |-> DEMAND]
  /\ store_num = [v \in Visitor |-> Free]
  /\ reg = [v \in Visitor |-> 0]
  /\ INDEX = [k \in {"CONS", "LOAD"} |-> 0]
  /\ index = [v \in Visitor |-> 0]
  /\ books = [s \in Shop |-> START]

----------------------------------------------------------------------------
(* main()                                                                  *)

Born(v) == pc[v] # "unborn"

\* Consumers are created first.
Create(v) ==
  /\ main = "create" /\ ~Born(v)
  /\ v \in Loader => \A c \in Consumer : Born(c)
  /\ pc' = [pc EXCEPT ![v] = "start"]
  /\ main' = IF \A w \in Visitor \ {v} : Born(w) THEN "join" ELSE main
  /\ UNCHANGED <<mutex, lock, STORE, cons_dem, store_num, reg, numbers, books>>

\* pthread_create() fails: exit().
CreateFails ==
  /\ main = "create"
  /\ main' = "exited"
  /\ UNCHANGED <<mutex, pc, lock, STORE, cons_dem, store_num, reg, numbers,
                 books>>

JoinConsumers ==
  /\ main = "join"
  /\ \A c \in Consumer : pc[c] = "done"
  /\ main' = "destroy"
  /\ UNCHANGED <<mutex, pc, lock, STORE, cons_dem, store_num, reg, numbers,
                 books>>

\* The result of pthread_mutex_destroy() is not looked at: the library
\* leaves a locked mutex as it is.
Destroy(s) ==
  /\ main = "destroy" /\ mutex[s] = "ok"
  /\ mutex' = [mutex EXCEPT ![s] = IF lock[s] = Free THEN "destroyed"
                                                      ELSE "busy"]
  /\ UNCHANGED <<main, pc, lock, STORE, cons_dem, store_num, reg, numbers,
                 books>>

Return ==
  /\ main = "destroy"
  /\ \A s \in Shop : mutex[s] # "ok"
  /\ main' = "exited"
  /\ UNCHANGED <<mutex, pc, lock, STORE, cons_dem, store_num, reg, numbers,
                 books>>

----------------------------------------------------------------------------
(* What loader_func() and consum_func() share.                             *)

Step(v, from, to) ==
  /\ main # "exited"
  /\ pc[v] = from
  /\ pc' = [pc EXCEPT ![v] = to]

Counter(v) == IF v \in Consumer THEN "CONS" ELSE "LOAD"

LoadIndex(v) ==
  /\ Step(v, "start", "increment")
  /\ reg' = [reg EXCEPT ![v] = INDEX[Counter(v)]]
  /\ UNCHANGED <<main, mutex, lock, STORE, cons_dem, store_num, numbers, books>>

StoreIndex(v) ==
  /\ Step(v, "increment", "number")
  /\ INDEX' = [INDEX EXCEPT ![Counter(v)] = reg[v] + 1]
  /\ reg' = [reg EXCEPT ![v] = 0]
  /\ UNCHANGED <<main, mutex, lock, STORE, cons_dem, store_num, index, books>>

TakeIndex(v) ==
  /\ Step(v, "number", "pick")
  /\ index' = [index EXCEPT ![v] = INDEX[Counter(v)]]
  /\ UNCHANGED <<main, mutex, lock, STORE, cons_dem, store_num, reg, INDEX,
                 books>>

\* trylock() of a destroyed mutex reports an error.
CanEnter(s) == lock[s] = Free /\ mutex[s] # "destroyed"

\* Mutant: the result of trylock() is not looked at.
EnterAnyway(v, s) ==
  /\ Step(v, "pick", "inside")
  /\ lock' = [lock EXCEPT ![s] = v]
  /\ store_num' = [store_num EXCEPT ![v] = s]
  /\ UNCHANGED <<main, mutex, STORE, cons_dem, reg, numbers, books>>

Enter(v, s) ==
  /\ CanEnter(s)
  /\ Step(v, "pick", "inside")
  /\ lock' = [lock EXCEPT ![s] = v]
  /\ store_num' = [store_num EXCEPT ![v] = s]
  /\ UNCHANGED <<main, mutex, STORE, cons_dem, reg, numbers, books>>

Refused(v, s) ==
  /\ ~CanEnter(s)
  /\ Step(v, "pick", "sleep")
  /\ UNCHANGED <<main, mutex, lock, STORE, cons_dem, store_num, reg, numbers,
                 books>>

WakeUp(v) ==
  /\ Step(v, "sleep", "pick")
  /\ UNCHANGED <<main, mutex, lock, STORE, cons_dem, store_num, reg, numbers,
                 books>>

ReadStore(v) ==
  /\ Step(v, "inside", "change")
  /\ reg' = [reg EXCEPT ![v] = STORE[store_num[v]]]
  /\ UNCHANGED <<main, mutex, lock, STORE, cons_dem, store_num, numbers, books>>

Unlock(v, from, to) ==
  /\ Step(v, from, to)
  /\ lock' = [lock EXCEPT ![store_num[v]] = Free]
  /\ store_num' = [store_num EXCEPT ![v] = Free]
  /\ UNCHANGED <<main, mutex, STORE, cons_dem, reg, numbers, books>>

----------------------------------------------------------------------------
(* What differs.                                                           *)

Bring(l, input_value) ==
  /\ reg[l] + input_value <= MAX_STOCK
  /\ Step(l, "change", "leave")
  /\ STORE' = [STORE EXCEPT ![store_num[l]] = reg[l] + input_value]
  /\ books' = [books EXCEPT ![store_num[l]] = @ + input_value]
  /\ reg' = [reg EXCEPT ![l] = 0]
  /\ UNCHANGED <<main, mutex, lock, cons_dem, store_num, numbers>>

\* The bound: the visit of a loader that would exceed it brings nothing.
BringNothing(l) ==
  /\ \A i \in Input : reg[l] + i > MAX_STOCK
  /\ Step(l, "change", "leave")
  /\ reg' = [reg EXCEPT ![l] = 0]
  /\ UNCHANGED <<main, mutex, lock, STORE, cons_dem, store_num, numbers, books>>

\* cons_buf > 0: take everything and go on.
TakeAll(c) ==
  /\ cons_dem[c] - reg[c] > 0
  /\ Step(c, "change", "leave")
  /\ STORE' = [STORE EXCEPT ![store_num[c]] = 0]
  /\ cons_dem' = [cons_dem EXCEPT ![c] = @ - reg[c]]
  /\ books' = [books EXCEPT ![store_num[c]] = @ - reg[c]]
  /\ reg' = [reg EXCEPT ![c] = 0]
  /\ UNCHANGED <<main, mutex, lock, store_num, numbers>>

\* The rest of the demands is met: leave what remains and stop shopping.
\* The variable cons_dem itself is not written any more.
TakeTheRest(c) ==
  /\ cons_dem[c] - reg[c] <= 0
  /\ Step(c, "change", "break")
  /\ STORE' = [STORE EXCEPT ![store_num[c]] = reg[c] - cons_dem[c]]
  /\ books' = [books EXCEPT ![store_num[c]] = @ - cons_dem[c]]
  /\ reg' = [reg EXCEPT ![c] = 0]
  /\ UNCHANGED <<main, mutex, lock, cons_dem, store_num, numbers>>

\* Mutant: the unlock after the visit is missing.
LeaveLocked(v) ==
  /\ Step(v, "leave", "sleep")
  /\ store_num' = [store_num EXCEPT ![v] = Free]
  /\ UNCHANGED <<main, mutex, lock, STORE, cons_dem, reg, numbers, books>>

Leave(v)   == Unlock(v, "leave", "sleep")
Goodbye(c) == Unlock(c, "break", "done")

----------------------------------------------------------------------------
Main == (\E v \in Visitor : Create(v)) \/ JoinConsumers \/ Return
        \/ (\E s \in Shop : Destroy(s))

Visit(v) ==
  \/ LoadIndex(v) \/ StoreIndex(v) \/ TakeIndex(v)
  \/ WakeUp(v) \/ ReadStore(v) \/ Leave(v)
  \/ /\ v \in Loader
     /\ BringNothing(v) \/ \E i \in Input : Bring(v, i)
  \/ /\ v \in Consumer
     /\ TakeAll(v) \/ TakeTheRest(v) \/ Goodbye(v)

Next ==
  \/ Main \/ CreateFails
  \/ \E v \in Visitor :
       Visit(v) \/ \E s \in Shop : Enter(v, s) \/ Refused(v, s)

Spec == Init /\ [][Next]_vars

\* Every thread runs on: it ends its visits and its sleeps and picks again.
\* Nothing is assumed of WHICH store it picks, nor that it is free then:
\* trylock() does not queue.
Fairness ==
  /\ WF_vars(Main)
  /\ \A v \in Visitor :
       /\ WF_vars(Visit(v))
       /\ WF_vars(\E s \in Shop : Enter(v, s) \/ Refused(v, s))

FairSpec == Spec /\ Fairness

----------------------------------------------------------------------------
Inside(v) == pc[v] \in {"inside", "change", "leave", "break"}

\* The variables stay in their ranges; no store ever owes goods and no
\* consumer wants less than nothing.
TypeOK ==
  /\ main \in {"create", "join", "destroy", "exited"}
  /\ mutex \in [Shop -> {"ok", "destroyed", "busy"}]
  /\ pc \in [Visitor -> {"unborn", "start", "increment", "number", "pick",
                         "sleep", "inside", "change", "leave", "break",
                         "done"}]
  /\ lock \in [Shop -> Visitor \cup {Free}]
  /\ STORE \in [Shop -> Nat]
  /\ cons_dem \in [Consumer -> Nat]
  /\ store_num \in [Visitor -> Shop \cup {Free}]
  /\ \A v \in Visitor : Inside(v) => store_num[v] \in Shop
  /\ reg \in [Visitor -> Nat]
  /\ INDEX \in [{"CONS", "LOAD"} -> Nat]
  /\ index \in [Visitor -> Nat]
  /\ books \in [Shop -> Int]

\* A store is locked exactly by the visitor who is in it: two never meet in
\* a store, and a consumer who breaks out of his loop, or a refused visitor,
\* leaves no store locked behind him.
LockedByTheVisitor ==
  \A v \in Visitor, s \in Shop :
    lock[s] = v <=> Inside(v) /\ store_num[v] = s

\* The stock of a store is what the books say: no goods are lost, and none
\* are sold twice, between the reads and the writes of its visitors.
StockMatchesBooks == STORE = books

\* The mutexes are destroyed when every consumer has gone.
ConsumersGoFirst ==
  \A c \in Consumer, s \in Shop :
    mutex[s] # "ok" => pc[c] = "done" /\ lock[s] # c

\* The program goes on until main() returns: nobody stays in a store for
\* ever; somebody is always let in again, since who leaves, refused, satisfied
\* or not, leaves no store taken behind him; a consumer who finds goods has
\* his demands met after so many visits; and when all consumers have gone
\* main() returns, whatever the loaders are doing.  (That each consumer has
\* his turn is NOT said: one who always picks a store that is taken, or an
\* empty one, shops for ever, and main() waits for him.)
ShopGoesOn ==
  /\ \A v \in Visitor : []<>(main = "exited" \/ ~Inside(v))
  /\ []<>(main = "exited" \/ \E v \in Visitor : Inside(v))
  /\ \A c \in Consumer :
       <>[](main = "exited" \/ ~(pc[c] = "change" /\ reg[c] > 0))
  /\ (\A c \in Consumer : pc[c] = "done") ~> (main = "exited")
=============================================================================
