------------------------------ MODULE ShmChat ------------------------------
(***************************************************************************)
(* The chat of lesson 22: any number of equal processes share one message  *)
(* in a segment of shared memory.  A sender writes it under a System V     *)
(* semaphore that counts 0 (free) or 1 (taken); the receiver thread of     *)
(* every process polls the number of the message and reads the rest of it  *)
(* without the semaphore.  The process that creates the segment fills in   *)
(* the first message, also without it.                                     *)
(*                                                                         *)
(* The programs are built without optimization, so every access to a field *)
(* is a load or a store of its own, and mess_num++ is one of each.         *)
(***************************************************************************)
EXTENDS Integers, Sequences, FiniteSets, SequencesExt

CONSTANTS Process,   \* the processes of the chat
          MAX_SENDS, \* bound: lines typed in one process
          MayDie     \* the processes that may be killed

ASSUME ShmAssumption ==
  /\ IsFiniteSet(Process)
  /\ MAX_SENDS \in Nat
  /\ MayDie \subseteq Process

\* A text is a sender and the number of its line; the creator's text has
\* the number 0, and 'Nobody' fills the new segment.
CONSTANT Nobody
Starter == "Hey!"
Text    == (Process \X (1..MAX_SENDS)) \cup {<<Starter, 0>>, <<Nobody, 0>>}
Name    == Process \cup {Starter, Nobody}
NoLine  == <<Nobody, <<Nobody, 0>>>>

VARIABLES
  segment,  \* whether the shared segment exists
  hasty,    \* history: somebody attached to it before it was filled in
  name, message, mess_num,  \* its fields
  sem,      \* the value of the semaphore
  pc,       \* where the main thread of each process is
  reg,      \* the value mess_num++ has loaded
  sends,    \* the lines typed so far
  alive,    \* whether the process is still there
  rcv,      \* where the receiver thread is
  PREV_MESS,\* the number of the message it has seen last
  rname,    \* the name it has read for printf()
  line      \* the last line on its terminal, as <<name, message>>

shm    == <<segment, hasty, name, message, mess_num>>
writer == <<pc, reg, sends>>
reader == <<rcv, PREV_MESS, rname, line>>
vars   == <<shm, sem, writer, alive, reader>>

Init ==
  /\ segment = FALSE /\ hasty = FALSE
  /\ name = Nobody /\ message = <<Nobody, 0>> /\ mess_num = 0
  /\ sem = 0
  /\ pc = [p \in Process |-> "start"]
  /\ reg = [p \in Process |-> 0]
  /\ sends = [p \in Process |-> 0]
  /\ alive = [p \in Process |-> TRUE]
  /\ rcv = [p \in Process |-> "off"]
  /\ PREV_MESS = [p \in Process |-> -1]
  /\ rname = [p \in Process |-> Nobody]
  /\ line = [p \in Process |-> NoLine]

Step(p, from, to) ==
  /\ alive[p] /\ pc[p] = from
  /\ pc' = [pc EXCEPT ![p] = to]

----------------------------------------------------------------------------
(* shm_connect(): IPC_CREAT | IPC_EXCL makes one process the creator.      *)

Create(p) ==
  /\ ~segment
  /\ Step(p, "start", "initName")
  /\ segment' = TRUE
  /\ UNCHANGED <<hasty, name, message, mess_num, sem, reg, sends, alive,
                 reader>>

InitName(p) ==
  /\ Step(p, "initName", "initText")
  /\ name' = Starter
  /\ UNCHANGED <<segment, hasty, message, mess_num, sem, reg, sends, alive,
                 reader>>

InitText(p) ==
  /\ Step(p, "initText", "initNum")
  /\ message' = <<Starter, 0>>
  /\ UNCHANGED <<segment, hasty, name, mess_num, sem, reg, sends, alive,
                 reader>>

InitNum(p) ==
  /\ Step(p, "initNum", "attached")
  /\ mess_num' = 0
  /\ UNCHANGED <<segment, hasty, name, message, sem, reg, sends, alive,
                 reader>>

\* The creator has filled the segment in.
Ready == \A p \in Process : pc[p] \notin {"initName", "initText", "initNum"}

\* EEXIST: attach to the segment as it is.
Attach(p) ==
  /\ segment
  /\ Step(p, "start", "attached")
  /\ hasty' = (hasty \/ ~Ready)
  /\ UNCHANGED <<segment, name, message, mess_num, sem, reg, sends, alive,
                 reader>>

\* Mutant: sem_connect() sets the semaphore to 0 in every process.
StartAndReset(p) ==
  /\ Step(p, "attached", "type")
  /\ sem' = 0
  /\ rcv' = [rcv EXCEPT ![p] = "poll"]
  /\ UNCHANGED <<shm, reg, sends, alive, PREV_MESS, rname, line>>

\* sem_connect() and pthread_create(): the semaphore set is created with
\* the value 0 or found as it is.
StartReceiver(p) ==
  /\ Step(p, "attached", "type")
  /\ rcv' = [rcv EXCEPT ![p] = "poll"]
  /\ UNCHANGED <<shm, sem, reg, sends, alive, PREV_MESS, rname, line>>

----------------------------------------------------------------------------
(* main(): chat_sem_lock(), send_mess(), chat_sem_unlock().                *)

Type(p) ==
  /\ sends[p] < MAX_SENDS
  /\ Step(p, "type", "lock")
  /\ sends' = [sends EXCEPT ![p] = @ + 1]
  /\ UNCHANGED <<shm, sem, reg, alive, reader>>

\* Mutant: add one without waiting for zero.
LockWithoutWait(p) ==
  /\ Step(p, "lock", "putName")
  /\ sem' = sem + 1
  /\ UNCHANGED <<shm, reg, sends, alive, reader>>

\* Wait for zero and add one, in one semop().
Lock(p) ==
  /\ sem = 0
  /\ Step(p, "lock", "putName")
  /\ sem' = sem + 1
  /\ UNCHANGED <<shm, reg, sends, alive, reader>>

PutName(p) ==
  /\ Step(p, "putName", "putText")
  /\ name' = p
  /\ UNCHANGED <<segment, hasty, message, mess_num, sem, reg, sends, alive,
                 reader>>

PutText(p) ==
  /\ Step(p, "putText", "loadNum")
  /\ message' = <<p, sends[p]>>
  /\ UNCHANGED <<segment, hasty, name, mess_num, sem, reg, sends, alive,
                 reader>>

LoadNum(p) ==
  /\ Step(p, "loadNum", "storeNum")
  /\ reg' = [reg EXCEPT ![p] = mess_num]
  /\ UNCHANGED <<shm, sem, sends, alive, reader>>

StoreNum(p) ==
  /\ Step(p, "storeNum", "unlock")
  /\ mess_num' = reg[p] + 1
  /\ UNCHANGED <<segment, hasty, name, message, sem, reg, sends, alive,
                 reader>>

\* semop() with -1 would block at 0.
Unlock(p) ==
  /\ sem > 0
  /\ Step(p, "unlock", "type")
  /\ sem' = sem - 1
  /\ UNCHANGED <<shm, reg, sends, alive, reader>>

\* "exit();" returns from main() and ends both threads.
Leave(p) ==
  /\ Step(p, "type", "left")
  /\ alive' = [alive EXCEPT ![p] = FALSE]
  /\ UNCHANGED <<shm, sem, reg, sends, reader>>

\* A process is killed.  The semaphore keeps its value (no SEM_UNDO).
Die(p) ==
  /\ p \in MayDie /\ alive[p]
  /\ alive' = [alive EXCEPT ![p] = FALSE]
  /\ UNCHANGED <<shm, sem, writer, reader>>

----------------------------------------------------------------------------
(* thread_rcv_func()                                                       *)

RcvStep(p, from, to) ==
  /\ alive[p] /\ rcv[p] = from
  /\ rcv' = [rcv EXCEPT ![p] = to]

Poll(p) ==
  /\ mess_num # PREV_MESS[p]
  /\ RcvStep(p, "poll", "copy")
  /\ UNCHANGED <<shm, sem, writer, alive, PREV_MESS, rname, line>>

CopyNum(p) ==
  /\ RcvStep(p, "copy", "readName")
  /\ PREV_MESS' = [PREV_MESS EXCEPT ![p] = mess_num]
  /\ UNCHANGED <<shm, sem, writer, alive, rname, line>>

ReadName(p) ==
  /\ RcvStep(p, "readName", "readText")
  /\ rname' = [rname EXCEPT ![p] = name]
  /\ UNCHANGED <<shm, sem, writer, alive, PREV_MESS, line>>

\* Mutant: the number is noted again after the text.
ReadTextThenNumber(p) ==
  /\ RcvStep(p, "readText", "poll")
  /\ line' = [line EXCEPT ![p] = <<rname[p], message>>]
  /\ rname' = [rname EXCEPT ![p] = Nobody]
  /\ PREV_MESS' = [PREV_MESS EXCEPT ![p] = mess_num]
  /\ UNCHANGED <<shm, sem, writer, alive>>

ReadText(p) ==
  /\ RcvStep(p, "readText", "poll")
  /\ line' = [line EXCEPT ![p] = <<rname[p], message>>]
  /\ rname' = [rname EXCEPT ![p] = Nobody]
  /\ UNCHANGED <<shm, sem, writer, alive, PREV_MESS>>

----------------------------------------------------------------------------
Connect(p) ==
  \/ Create(p) \/ InitName(p) \/ InitText(p) \/ InitNum(p)
  \/ StartReceiver(p)
Send(p) ==
  \/ Lock(p) \/ PutName(p) \/ PutText(p) \/ LoadNum(p) \/ StoreNum(p)
  \/ Unlock(p)
Receive(p) == Poll(p) \/ CopyNum(p) \/ ReadName(p) \/ ReadText(p)

Next == \E p \in Process :
  \/ Connect(p) \/ Attach(p)
  \/ Type(p) \/ Send(p) \/ Leave(p) \/ Die(p) \/ Receive(p)

\* Every thread that can run does; nobody has to type or to leave.
Spec == /\ Init /\ [][Next]_vars
        /\ \A p \in Process : WF_vars(Send(p)) /\ WF_vars(Receive(p))

----------------------------------------------------------------------------
\* The variables stay in their ranges.
TypeOK ==
  /\ segment \in BOOLEAN /\ hasty \in BOOLEAN
  /\ name \in Name
  /\ message \in Text
  /\ mess_num \in Nat
  /\ sem \in {0, 1}
  /\ pc \in [Process -> {"start", "initName", "initText", "initNum",
                         "attached", "type", "lock", "putName", "putText",
                         "loadNum", "storeNum", "unlock", "left"}]
  /\ reg \in [Process -> Nat]
  /\ sends \in [Process -> 0..MAX_SENDS]
  /\ \A p \in Process : pc[p] \in {"lock", "putName", "putText"} => sends[p] > 0
  /\ alive \in [Process -> BOOLEAN]
  /\ rcv \in [Process -> {"off", "poll", "copy", "readName", "readText"}]
  /\ PREV_MESS \in [Process -> Nat \cup {-1}]
  /\ rname \in [Process -> Name]
  /\ line \in [Process -> Name \X Text]

Critical(p) == pc[p] \in {"putName", "putText", "loadNum", "storeNum", "unlock"}

\* The semaphore admits one sender at a time, and it is taken exactly while
\* somebody is between chat_sem_lock() and chat_sem_unlock(), dead or alive:
\* a sender killed there keeps everybody else out for good.
LockHasOneOwner ==
  /\ \A p, q \in Process : Critical(p) /\ Critical(q) => p = q
  /\ sem = 1 <=> \E p \in Process : Critical(p)

\* When the creator has filled in the first message before the others
\* attach, the message in the segment is whole whenever no sender is at work
\* on it: its name is that of the process that wrote its text.
RestingMessageIsWhole ==
  ~hasty /\ Ready /\ sem = 0 => name = message[1]

\* In the same case the number of the message counts the messages sent: no
\* increment is lost.
NumberCountsMessages ==
  ~hasty /\ Ready /\ sem = 0 =>
    mess_num = Cardinality({l \in Process \X (1..MAX_SENDS) :
                              IF pc[l[1]] = "lock" THEN l[2] < sends[l[1]]
                                                   ELSE l[2] <= sends[l[1]]})

\* Once nobody types any more, every receiver ends up showing, as its last
\* line, the last message sent, whole.
Settled ==
  \A p \in Process : ~alive[p] \/ (pc[p] = "type" /\ sends[p] = MAX_SENDS)
EveryoneGetsTheLast ==
  [](~hasty /\ Settled /\ ~(\E p \in Process : Critical(p)) =>
       \A p \in Process :
         rcv[p] # "off" =>
           <>(~alive[p] \/ line[p] = <<name, message>>))
=============================================================================
