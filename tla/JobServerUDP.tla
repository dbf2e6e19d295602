---------------------------- MODULE JobServerUDP ----------------------------
(***************************************************************************)
(* The UDP server of lesson 26: main() puts every datagram as a job into a *)
(* System V message queue, worker processes take the jobs out of it and    *)
(* run them through a state machine (wait, handle, send, error).  Each     *)
(* worker ends after HANDLE_REQUESTS jobs; main() waits for ONE of them    *)
(* and then removes the queue.                                             *)
(*                                                                         *)
(* A request is the number of its datagram; a job is the request it        *)
(* answers and how often ", client!" was appended to its text.             *)
(***************************************************************************)
EXTENDS Integers, Sequences, FiniteSets, SequencesExt, SysVQueue

CONSTANTS Worker,          \* the worker processes
          HANDLE_REQUESTS, \* the jobs of one worker
          QUEUE_LIMIT,     \* how many jobs the kernel's queue holds
          SendMayFail      \* whether sendto() of a real job may fail

ASSUME JobAssumption ==
  /\ IsFiniteSet(Worker)
  /\ HANDLE_REQUESTS \in Nat \ {0}
  /\ QUEUE_LIMIT \in Nat \ {0}
  /\ SendMayFail \in BOOLEAN

NUM_OF_REQUESTS == Cardinality(Worker) * HANDLE_REQUESTS
Request  == 1..NUM_OF_REQUESTS
MSG_TYPE == 1
\* The job buffer of a worker that has received nothing: uninitialized.
Garbage  == [mtype |-> 0, client |-> 0, suffixes |-> 0]

VARIABLES
  main,      \* where main() is: "serve", "wait", "remove", "done"; "failed"
             \* when its recvfrom() did
  it,        \* its loop counter, the datagrams received so far
  queue,     \* the message queue
  removed,   \* whether msgctl(IPC_RMID) has removed it
  dropped,   \* the requests whose msgsnd() failed, unnoticed
  statement, \* [Worker -> state of the state machine]
  handled,   \* [Worker -> its loop counter]
  job,       \* [Worker -> its job buffer, a message like the queue's:
             \* [mtype, client, suffixes]]
  failed,    \* the requests whose reply could not be sent
  replies    \* [Request -> the texts sent to its client, as suffix counts]

parent  == <<main, it, removed, dropped>>
workers == <<statement, handled, job, failed, replies>>
jobVars == <<parent, queue, workers>>

JobInit ==
  /\ main = "serve"
  /\ it = 0
  /\ queue = <<>>
  /\ removed = FALSE
  /\ dropped = {}
  /\ statement = [w \in Worker |-> "W_STATE"]
  /\ handled = [w \in Worker |-> 0]
  /\ job = [w \in Worker |-> Garbage]
  /\ failed = {}
  /\ replies = [r \in Request |-> <<>>]

----------------------------------------------------------------------------
\* One turn of the loop of main(): send_in_queue() tells of a full queue in
\* its result, which nobody reads.
MainReceives ==
  /\ main = "serve" /\ it < NUM_OF_REQUESTS
  /\ it' = it + 1
  /\ IF Full(queue, QUEUE_LIMIT)
     THEN dropped' = dropped \cup {it'} /\ UNCHANGED queue
     ELSE /\ queue' = Append(queue, [mtype |-> MSG_TYPE, client |-> it',
                                     suffixes |-> 0])
          /\ UNCHANGED dropped
  /\ UNCHANGED <<main, removed, workers>>

\* recvfrom() == -1: main() exits; it waits for no child and leaves the queue.
MainFails ==
  /\ main = "serve" /\ it < NUM_OF_REQUESTS
  /\ main' = "failed"
  /\ UNCHANGED <<it, removed, dropped, queue, workers>>

\* close(sock); wait(NULL): one child is enough.
MainWaits ==
  /\ \/ /\ main = "serve" /\ it = NUM_OF_REQUESTS
        /\ main' = "wait"
     \/ /\ main = "wait"
        /\ \E w \in Worker : statement[w] = "exited"
        /\ main' = "remove"
  /\ UNCHANGED <<it, removed, dropped, queue, workers>>

MainRemovesQueue ==
  /\ main = "remove"
  /\ main' = "done"
  /\ removed' = TRUE
  /\ queue' = <<>>
  /\ UNCHANGED <<it, dropped, workers>>

----------------------------------------------------------------------------
\* Mutant: one job too many.
BusyOnceMore(w, s) == statement[w] = s /\ handled[w] <= HANDLE_REQUESTS
Busy(w, s) == statement[w] = s /\ handled[w] < HANDLE_REQUESTS

\* Mutant: msgrcv() with IPC_NOWAIT, its failure still ignored.
ReceiveJobNoWait(w) ==
  /\ Busy(w, "W_STATE")
  /\ statement' = [statement EXCEPT ![w] = "H_STATE"]
  /\ \/ \E i \in DOMAIN queue :
          /\ Selected(queue, MSG_TYPE, i)
          /\ job' = [job EXCEPT ![w] = queue[i]]
          /\ queue' = RemoveAt(queue, i)
     \/ queue = <<>> /\ UNCHANGED <<job, queue>>
  /\ UNCHANGED <<parent, handled, failed, replies>>

\* W_STATE: blocks while there is no job.  When the queue is gone msgrcv()
\* fails at once; the result is not read and the buffer is handled again.
ReceiveJob(w) ==
  /\ Busy(w, "W_STATE")
  /\ statement' = [statement EXCEPT ![w] = "H_STATE"]
  /\ \/ \E i \in DOMAIN queue :
          /\ Selected(queue, MSG_TYPE, i)
          /\ job' = [job EXCEPT ![w] = queue[i]]
          /\ queue' = RemoveAt(queue, i)
     \/ removed /\ UNCHANGED <<job, queue>>
  /\ UNCHANGED <<parent, handled, failed, replies>>

\* H_STATE: strcat() to the text in the buffer.
Handle(w) ==
  /\ Busy(w, "H_STATE")
  /\ job' = [job EXCEPT ![w].suffixes = @ + 1]
  /\ statement' = [statement EXCEPT ![w] = "S_STATE"]
  /\ UNCHANGED <<parent, queue, handled, failed, replies>>

\* S_STATE: the reply goes to the address in the buffer.
Reply(w) ==
  /\ Busy(w, "S_STATE")
  /\ \/ /\ statement' = [statement EXCEPT ![w] = "W_STATE"]
        /\ handled' = [handled EXCEPT ![w] = @ + 1]
        /\ replies' = [r \in Request |->
                         IF r = job[w].client
                         THEN Append(replies[r], job[w].suffixes)
                         ELSE replies[r]]
        /\ UNCHANGED failed
     \/ /\ SendMayFail \/ job[w].client = 0
        /\ statement' = [statement EXCEPT ![w] = "E_STATE"]
        /\ failed' = failed \cup ({job[w].client} \ {0})
        /\ UNCHANGED <<handled, replies>>
  /\ UNCHANGED <<parent, queue, job>>

\* Mutant: the failed job is tried again from H_STATE.
ErrorRetries(w) ==
  /\ Busy(w, "E_STATE")
  /\ statement' = [statement EXCEPT ![w] = "H_STATE"]
  /\ UNCHANGED <<parent, queue, handled, job, failed, replies>>

Error(w) ==
  /\ Busy(w, "E_STATE")
  /\ statement' = [statement EXCEPT ![w] = "W_STATE"]
  /\ handled' = [handled EXCEPT ![w] = @ + 1]
  /\ UNCHANGED <<parent, queue, job, failed, replies>>

\* The loop is over: exit(EXIT_SUCCESS).
Exit(w) ==
  /\ statement[w] = "W_STATE" /\ handled[w] = HANDLE_REQUESTS
  /\ statement' = [statement EXCEPT ![w] = "exited"]
  /\ UNCHANGED <<parent, queue, handled, job, failed, replies>>

----------------------------------------------------------------------------
Main == MainReceives \/ MainWaits \/ MainRemovesQueue
Work(w) == ReceiveJob(w) \/ Handle(w) \/ Reply(w) \/ Error(w) \/ Exit(w)

JobNext == Main \/ MainFails \/ \E w \in Worker : Work(w)

\* The tester sends NUM_OF_REQUESTS datagrams over the loopback interface,
\* and the kernel schedules every process that can run.  recvfrom() may fail
\* but need not.
JobSpec == /\ JobInit /\ [][JobNext]_jobVars
           /\ WF_jobVars(Main)
           /\ \A w \in Worker : WF_jobVars(Work(w))

----------------------------------------------------------------------------
\* Where request r is: in the queue, in the hands of a worker, or done with.
Places(r) ==
    Cardinality({i \in DOMAIN queue : queue[i].client = r})
  + Cardinality({w \in Worker : /\ statement[w] \in {"H_STATE", "S_STATE"}
                                /\ job[w].client = r})
  + Len(replies[r])
  + Cardinality({r} \cap dropped) + Cardinality({r} \cap failed)

\* Until main() removes the queue every request received is at exactly one
\* place and none is answered twice, whatever the interleaving of the
\* workers (handle_server_main(), main()).
OneAnswerWhileQueueLives ==
  ~removed => \A r \in 1..it : Places(r) = 1

\* A client is told ", client!" exactly once as long as the queue is there.
CleanReplies ==
  ~removed => \A r \in Request : \A i \in DOMAIN replies[r] : replies[r][i] = 1

\* Unless a job was lost in a full queue or main() itself failed the server
\* ends, whatever replies fail: the removal of the queue wakes the workers
\* that still wait for a job.  (With a job lost it may not: every worker can
\* be left one job short of its share, and main() waits for the first of
\* them.)  A main() that failed removes no queue: the workers still take what
\* it received, and those whose share is not full then wait for ever.
ServerEnds ==
  <>(\/ dropped # {}
     \/ main = "failed" /\ queue = <<>>
     \/ main = "done" /\ \A w \in Worker : statement[w] = "exited")

=============================================================================
