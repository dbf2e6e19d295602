---------------------------- MODULE JobServerTCP ----------------------------
(***************************************************************************)
(* The TCP server of lesson 26: main() accepts connections and queues      *)
(* their descriptors in a System V message queue, worker threads take      *)
(* them out and run each through a state machine (wait, read, handle,      *)
(* send, error), closing the descriptor at the end.                        *)
(*                                                                         *)
(* A worker thread that has served its share calls exit(), which ends the  *)
(* process with everything the other threads hold; the queue belongs to    *)
(* the kernel and outlives it, with the descriptor numbers left in it.     *)
(***************************************************************************)
EXTENDS Integers, Sequences, FiniteSets, SequencesExt, SysVQueue

CONSTANTS Worker,          \* the worker threads
          HANDLE_REQUESTS, \* the jobs after which a thread ends
          QUEUE_LIMIT,     \* how many jobs the kernel's queue holds
          MAX_FD,          \* how many connections a process may have open
          MAX_RUNS         \* bound: how often the program is started

ASSUME JobAssumption ==
  /\ IsFiniteSet(Worker)
  /\ HANDLE_REQUESTS \in Nat \ {0}
  /\ QUEUE_LIMIT \in Nat \ {0}
  /\ MAX_FD \in Nat \ {0}
  /\ MAX_RUNS \in Nat \ {0}

NUM_OF_REQUESTS == Cardinality(Worker) * HANDLE_REQUESTS
FD       == 1..MAX_FD
MSG_TYPE == 1
NoSocket == 0   \* the job buffer before the first job: uninitialized

VARIABLES
  run,       \* how often the program was started
  main,      \* "accept", "join" or "exited", the state of the process
  it,        \* main()'s loop counter
  open,      \* the descriptors of connections the process has open
  queue,     \* the message queue, of records [mtype, socket]
  statement, \* [Worker -> state of the state machine]
  handled,   \* [Worker -> its loop counter]
  socket,    \* [Worker -> job.socket, the descriptor in its job buffer]
  dropped    \* the open descriptors that were never queued

vars == <<run, main, it, open, queue, statement, handled, socket, dropped>>

Init ==
  /\ run = 1
  /\ main = "accept"
  /\ it = 0
  /\ open = {}
  /\ queue = <<>>
  /\ statement = [w \in Worker |-> "W_STATE"]
  /\ handled = [w \in Worker |-> 0]
  /\ socket = [w \in Worker |-> NoSocket]
  /\ dropped = {}

Alive == main # "exited"

\* exit(): every thread is gone and the kernel closes the descriptors.
ProcessExits ==
  /\ main' = "exited"
  /\ open' = {}
  /\ dropped' = {}
  /\ statement' = [w \in Worker |-> "exited"]
  /\ UNCHANGED <<run, it, handled, socket>>

----------------------------------------------------------------------------
\* accept() returns the lowest descriptor that is free.  The result of
\* send_in_queue() is not read: a connection that finds the queue full stays
\* open and nobody ever serves it.
Accept ==
  /\ main = "accept" /\ it < NUM_OF_REQUESTS
  /\ it' = it + 1
  /\ \E fd \in FD \ open :
       /\ \A f \in FD \ open : fd <= f
       /\ open' = open \cup {fd}
       /\ IF Full(queue, QUEUE_LIMIT)
          THEN dropped' = dropped \cup {fd} /\ UNCHANGED queue
          ELSE /\ queue' = Append(queue, [mtype |-> MSG_TYPE, socket |-> fd])
               /\ UNCHANGED dropped
  /\ UNCHANGED <<run, main, statement, handled, socket>>

\* accept() fails when the process is out of descriptors: exit(EXIT_FAILURE).
AcceptFails ==
  /\ main = "accept" /\ it < NUM_OF_REQUESTS
  /\ FD \subseteq open
  /\ ProcessExits
  /\ UNCHANGED queue

\* main() goes on to pthread_join(); no thread ever returns to it.
Join ==
  /\ main = "accept" /\ it = NUM_OF_REQUESTS
  /\ main' = "join"
  /\ UNCHANGED <<run, it, open, queue, statement, handled, socket, dropped>>

----------------------------------------------------------------------------
Busy(w, s) == Alive /\ statement[w] = s /\ handled[w] < HANDLE_REQUESTS

Goto(w, s) == statement' = [statement EXCEPT ![w] = s]

\* W_STATE: blocks until there is a job; nothing removes the queue, so
\* msgrcv() does not fail.
Receive(w) ==
  /\ Busy(w, "W_STATE")
  /\ \E i \in DOMAIN queue :
       /\ Selected(queue, MSG_TYPE, i)
       /\ socket' = [socket EXCEPT ![w] = queue[i].socket]
       /\ queue' = RemoveAt(queue, i)
  /\ Goto(w, "R_STATE")
  /\ UNCHANGED <<run, main, it, open, handled, dropped>>

\* recv() and send() fail when the descriptor is not open, and may fail when
\* the peer has reset the connection.
Read(w) ==
  /\ Busy(w, "R_STATE")
  /\ \/ socket[w] \in open /\ Goto(w, "H_STATE")
     \/ Goto(w, "E_STATE")
  /\ UNCHANGED <<run, main, it, open, queue, handled, socket, dropped>>

Handle(w) ==
  /\ Busy(w, "H_STATE")
  /\ Goto(w, "S_STATE")
  /\ UNCHANGED <<run, main, it, open, queue, handled, socket, dropped>>

Close(fd) == open' = open \ {fd} /\ dropped' = dropped \ {fd}

\* Mutant: the descriptor is closed where send() fails and in E_STATE again.
ReplyClosesTwice(w) ==
  /\ Busy(w, "S_STATE")
  /\ Close(socket[w])
  /\ \/ /\ socket[w] \in open
        /\ Goto(w, "W_STATE")
        /\ handled' = [handled EXCEPT ![w] = @ + 1]
     \/ /\ Goto(w, "E_STATE")
        /\ UNCHANGED handled
  /\ UNCHANGED <<run, main, it, queue, socket>>

Reply(w) ==
  /\ Busy(w, "S_STATE")
  /\ \/ /\ socket[w] \in open
        /\ Goto(w, "W_STATE")
        /\ Close(socket[w])
        /\ handled' = [handled EXCEPT ![w] = @ + 1]
     \/ /\ Goto(w, "E_STATE")
        /\ UNCHANGED <<open, dropped, handled>>
  /\ UNCHANGED <<run, main, it, queue, socket>>

\* Mutant: a job that failed is not counted.
ErrorNotCounted(w) ==
  /\ Busy(w, "E_STATE")
  /\ Goto(w, "W_STATE")
  /\ Close(socket[w])
  /\ UNCHANGED <<run, main, it, queue, handled, socket>>

Error(w) ==
  /\ Busy(w, "E_STATE")
  /\ Goto(w, "W_STATE")
  /\ Close(socket[w])
  /\ handled' = [handled EXCEPT ![w] = @ + 1]
  /\ UNCHANGED <<run, main, it, queue, socket>>

\* The loop is over: exit(EXIT_SUCCESS), of the whole process.
ThreadEnds(w) ==
  /\ Alive
  /\ statement[w] = "W_STATE" /\ handled[w] = HANDLE_REQUESTS
  /\ ProcessExits
  /\ UNCHANGED queue

----------------------------------------------------------------------------
\* The program is started again and finds its queue with ftok() and msgget().
Restart ==
  /\ ~Alive /\ run < MAX_RUNS
  /\ run' = run + 1
  /\ main' = "accept"
  /\ it' = 0
  /\ statement' = [w \in Worker |-> "W_STATE"]
  /\ handled' = [w \in Worker |-> 0]
  /\ socket' = [w \in Worker |-> NoSocket]
  /\ UNCHANGED <<open, queue, dropped>>

Work(w) ==
  Receive(w) \/ Read(w) \/ Handle(w) \/ Reply(w) \/ Error(w) \/ ThreadEnds(w)

Next == Accept \/ AcceptFails \/ Join \/ Restart \/ \E w \in Worker : Work(w)

Spec == Init /\ [][Next]_vars

\* The clients of the tester all connect, and no thread is kept from running.
FairSpec == Spec /\ WF_vars(Accept \/ AcceptFails \/ Join)
                 /\ \A w \in Worker : WF_vars(Work(w))

----------------------------------------------------------------------------
\* The variables stay in their ranges.
Job == [mtype : {MSG_TYPE}, socket : FD]

TypeOK ==
  /\ run \in 1..MAX_RUNS
  /\ main \in {"accept", "join", "exited"}
  /\ it \in 0..NUM_OF_REQUESTS
  /\ open \subseteq FD
  /\ queue \in Seq(Job)
  /\ statement \in [Worker -> {"W_STATE", "R_STATE", "H_STATE", "S_STATE",
                               "E_STATE", "exited"}]
  /\ handled \in [Worker -> 0..HANDLE_REQUESTS]
  /\ socket \in [Worker -> FD \cup {NoSocket}]
  /\ dropped \subseteq open

Holds(w) == statement[w] \in {"R_STATE", "H_STATE", "S_STATE", "E_STATE"}

\* In the first run of the program an open connection is served by one
\* thread only: the descriptor in a worker's hands is open, no other worker
\* has it and the queue does not either, although the numbers of closed
\* descriptors are given out again at once (accept() in main(), close() in
\* handle_server_main()).
OneOwner ==
  run = 1 /\ Alive =>
    /\ \A v \in Worker : Holds(v) =>
         /\ socket[v] \in open \ dropped
         /\ \A w \in Worker : Holds(w) /\ socket[w] = socket[v] => v = w
         /\ \A i \in DOMAIN queue : queue[i].socket # socket[v]
    /\ \A i \in DOMAIN queue :
         /\ queue[i].socket \in open \ dropped
         /\ \A j \in DOMAIN queue : queue[i].socket = queue[j].socket => i = j

\* The first run ends, one way or the other, when all clients connect, unless
\* a connection was lost in a full queue: jobs that fail are counted too.
FirstRunEnds == <>(~Alive \/ dropped # {})
=============================================================================
