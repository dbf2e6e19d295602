---------------------------- MODULE SystemVProofs ----------------------------
(***************************************************************************)
(* Theorems about the two programs whose processes share an object of      *)
(* System V: the chat in shared memory (ShmChat), for every number of      *)
(* processes and of lines, and the job server over UDP (JobServerUDP), for *)
(* every number of workers and jobs and every length of the queue.         *)
(***************************************************************************)
EXTENDS ShmChat, JobServerUDP, FiniteSetTheorems, TLAPS

----------------------------------------------------------------------------
(* ShmChat                                                                 *)

\* No step takes a variable out of its range.
LEMMA TypeStep == TypeOK /\ [Next]_vars => TypeOK'
<1> SUFFICES ASSUME TypeOK, [Next]_vars PROVE TypeOK'
  OBVIOUS
<1> USE ShmAssumption DEF TypeOK, Step, RcvStep, shm, writer, reader
<1>1. CASE UNCHANGED vars
  BY <1>1 DEF vars
<1>2. ASSUME NEW p \in Process, Connect(p) \/ Attach(p) PROVE TypeOK'
  <2>1. CASE Create(p)
    BY <2>1 DEF Create
  <2>2. CASE InitName(p)
    BY <2>2 DEF InitName, Name
  <2>3. CASE InitText(p)
    <3>1. <<Starter, 0>> \in Text
      BY DEF Text
    <3> QED
      BY <2>3, <3>1 DEF InitText
  <2>4. CASE InitNum(p)
    BY <2>4 DEF InitNum
  <2>5. CASE Attach(p)
    <3>1. hasty' \in BOOLEAN
      BY <2>5, Zenon DEF Attach
    <3> QED
      BY <2>5, <3>1 DEF Attach
  <2>6. CASE StartReceiver(p)
    BY <2>6 DEF StartReceiver
  <2> QED
    BY <1>2, <2>1, <2>2, <2>3, <2>4, <2>5, <2>6 DEF Connect
<1>3. ASSUME NEW p \in Process, Type(p) PROVE TypeOK'
  BY <1>3 DEF Type
<1>4. ASSUME NEW p \in Process, Send(p) PROVE TypeOK'
  <2>1. CASE Lock(p)
    BY <1>4, <2>1 DEF Lock
  <2>2. CASE PutName(p)
    <3>1. p \in Name
      BY DEF Name
    <3> QED
      BY <2>2, <3>1 DEF PutName
  <2>3. CASE PutText(p)
    <3>1. <<p, sends[p]>> \in Text
      BY <2>3 DEF PutText, Text
    <3> QED
      BY <2>3, <3>1 DEF PutText
  <2>4. CASE LoadNum(p)
    BY <2>4 DEF LoadNum
  <2>6. CASE StoreNum(p)
    BY <2>6 DEF StoreNum
  <2>5. CASE Unlock(p)
    BY <2>5 DEF Unlock
  <2> QED
    BY <1>4, <2>1, <2>2, <2>3, <2>4, <2>5, <2>6 DEF Send
<1>5. ASSUME NEW p \in Process, Leave(p) \/ Die(p) PROVE TypeOK'
  BY <1>5 DEF Leave, Die
<1>6. ASSUME NEW p \in Process, Receive(p) PROVE TypeOK'
  <2>1. CASE Poll(p)
    BY <2>1 DEF Poll
  <2>4. CASE CopyNum(p)
    BY <2>4 DEF CopyNum
  <2>2. CASE ReadName(p)
    BY <2>2 DEF ReadName
  <2>3. CASE ReadText(p)
    <3>1. <<rname[p], message>> \in Name \X Text /\ Nobody \in Name
      BY DEF Name
    <3> QED
      BY <2>3, <3>1 DEF ReadText
  <2> QED
    BY <1>6, <2>1, <2>2, <2>3, <2>4 DEF Receive
<1> QED
  BY <1>1, <1>2, <1>3, <1>4, <1>5, <1>6 DEF Next

\* The variables begin in their ranges.
LEMMA TypeInit == Init => TypeOK
<1>1. <<Nobody, 0>> \in Text /\ Nobody \in Name /\ NoLine \in Name \X Text
  BY DEF Text, Name, NoLine
<1>2. Init => /\ [p \in Process |-> -1] \in [Process -> Nat \cup {-1}]
              /\ rname \in [Process -> Name]
              /\ line \in [Process -> Name \X Text]
  BY <1>1 DEF Init
<1>3. Init => name \in Name /\ message \in Text
  BY <1>1 DEF Init
<1>5. Init => segment \in BOOLEAN /\ hasty \in BOOLEAN
  BY Zenon DEF Init
<1>4. Init => sends \in [Process -> 0..MAX_SENDS]
  BY ShmAssumption DEF Init
<1>6. Init => /\ pc \in [Process -> {"start", "initName", "initText", "initNum",
                         "attached", "type", "lock", "putName", "putText",
                         "loadNum", "storeNum", "unlock", "left"}]
              /\ \A p \in Process : pc[p] = "start"
  BY DEF Init
<1>7. Init => /\ reg \in [Process -> Nat] /\ alive \in [Process -> BOOLEAN]
              /\ rcv \in [Process -> {"off", "poll", "copy", "readName",
                                     "readText"}]
  BY DEF Init
<1>8. Init => PREV_MESS \in [Process -> Nat \cup {-1}]
  BY <1>2, Zenon DEF Init
<1>9. Init => mess_num \in Nat /\ sem \in {0, 1}
  BY DEF Init
<1> QED
  BY <1>2, <1>3, <1>4, <1>5, <1>6, <1>7, <1>8, <1>9 DEF TypeOK

\* The variables stay in their ranges.
THEOREM TypeCorrect == Spec => []TypeOK
BY TypeInit, TypeStep, PTL DEF Spec

\* The semaphore of chat_sem_lock() admits one sender at a time, and no
\* death of a process, at whatever point, lets a second one in.
LEMMA LockStep ==
  TypeOK /\ LockHasOneOwner /\ [Next]_vars => LockHasOneOwner'
<1> SUFFICES ASSUME TypeOK, LockHasOneOwner, [Next]_vars
             PROVE  LockHasOneOwner'
  OBVIOUS
<1> USE DEF TypeOK, LockHasOneOwner, Critical
<1>1. ASSUME NEW p \in Process, Lock(p) PROVE LockHasOneOwner'
  BY <1>1 DEF Lock, Step
<1>2. ASSUME NEW p \in Process, Unlock(p) PROVE LockHasOneOwner'
  BY <1>2 DEF Unlock, Step
<1>3. ASSUME NEW p \in Process,
             PutName(p) \/ PutText(p) \/ LoadNum(p) \/ StoreNum(p)
      PROVE  LockHasOneOwner'
  BY <1>3 DEF PutName, PutText, LoadNum, StoreNum, Step
<1>4. ASSUME NEW p \in Process,
             Connect(p) \/ Attach(p) \/ Type(p) \/ Leave(p)
      PROVE  LockHasOneOwner'
  <2>1. sem' = sem
    BY <1>4 DEF Connect, Create, InitName, InitText, InitNum, Attach,
       StartReceiver, Type, Leave
  <2>2. ~Critical(p) /\ ~Critical(p)'
    BY <1>4 DEF Connect, Create, InitName, InitText, InitNum, Attach,
       StartReceiver, Type, Leave, Step
  <2>3. \A q \in Process : q # p => pc'[q] = pc[q]
    BY <1>4 DEF Connect, Create, InitName, InitText, InitNum, Attach,
       StartReceiver, Type, Leave, Step
  <2> QED
    BY <2>1, <2>2, <2>3
<1>5. CASE UNCHANGED <<pc, sem>>
  BY <1>5
<1> QED
  BY <1>1, <1>2, <1>3, <1>4, <1>5
     DEF Next, Send, Die, Receive, Poll, CopyNum, ReadName, ReadText,
         vars, writer

\* One sender at a time, in every behaviour: see LockStep.
THEOREM LockHasOneOwnerHolds == Spec => []LockHasOneOwner
<1>1. Init => LockHasOneOwner
  BY DEF Init, LockHasOneOwner, Critical
<1> QED
  BY <1>1, TypeCorrect, LockStep, PTL DEF Spec

----------------------------------------------------------------------------
(* RestingMessageIsWhole, as long as processes attach when the creator is  *)
(* ready: what the segment holds follows from where its only writer is.    *)

Initializing(p) == pc[p] \in {"initName", "initText", "initNum"}

OneCreator ==
  /\ ~segment => \A p \in Process : pc[p] = "start"
  /\ \A p \in Process : Initializing(p) =>
       \A q \in Process : q # p => pc[q] = "start"

WrittenSoFar ==
  \A p \in Process :
    /\ pc[p] = "putText" => name = p
    /\ pc[p] \in {"loadNum", "storeNum", "unlock"} =>
         name = p /\ message[1] = p
    /\ pc[p] \in {"initText", "initNum"} => name = Starter
    /\ pc[p] = "initNum" => message[1] = Starter

\* All of it under the condition that nobody was hasty.
WholeInv == ~hasty => OneCreator /\ WrittenSoFar /\ RestingMessageIsWhole

\* The fields in the segment are written by one process at a time, the
\* creator or the owner of the lock.
LEMMA WholeInvHolds == Spec => []WholeInv
<1>1. Init => TypeOK /\ LockHasOneOwner /\ WholeInv
  BY TypeInit DEF Init, LockHasOneOwner, Critical, WholeInv, OneCreator,
     WrittenSoFar, RestingMessageIsWhole, Ready, Initializing
<1>2. TypeOK /\ LockHasOneOwner /\ WholeInv /\ [Next]_vars => WholeInv'
  <2> SUFFICES ASSUME TypeOK, LockHasOneOwner, WholeInv, [Next]_vars
               PROVE  WholeInv'
    OBVIOUS
  <2>0. LockHasOneOwner'
    BY LockStep
  <2> USE DEF WholeInv, OneCreator, Initializing, Ready
  <2>1. ASSUME NEW p \in Process, Create(p) PROVE WholeInv'
    BY <2>1 DEF Create, Step, TypeOK, WrittenSoFar, RestingMessageIsWhole
  <2>2. ASSUME NEW p \in Process, InitName(p) PROVE WholeInv'
    BY <2>2 DEF InitName, Step, TypeOK, WrittenSoFar, RestingMessageIsWhole
  <2>3. ASSUME NEW p \in Process, InitText(p) PROVE WholeInv'
    BY <2>3 DEF InitText, Step, TypeOK, WrittenSoFar, RestingMessageIsWhole
  <2>4. ASSUME NEW p \in Process, InitNum(p) PROVE WholeInv'
    BY <2>4 DEF InitNum, Step, TypeOK, WrittenSoFar, RestingMessageIsWhole
  <2>5. ASSUME NEW p \in Process, Attach(p) PROVE WholeInv'
    BY <2>5 DEF Attach, Step, TypeOK, WrittenSoFar, RestingMessageIsWhole,
       shm
  <2>6. ASSUME NEW p \in Process, StartReceiver(p) \/ Type(p) \/ Leave(p)
        PROVE  WholeInv'
    BY <2>6 DEF StartReceiver, Type, Leave, Step, TypeOK, WrittenSoFar,
       RestingMessageIsWhole, shm
  <2>7. ASSUME NEW p \in Process, Lock(p) PROVE WholeInv'
    BY <2>7 DEF Lock, Step, TypeOK, WrittenSoFar, RestingMessageIsWhole, shm
  <2>8. ASSUME NEW p \in Process, PutName(p) PROVE WholeInv'
    BY <2>0, <2>8 DEF PutName, Step, TypeOK, WrittenSoFar,
       RestingMessageIsWhole, LockHasOneOwner, Critical
  <2>9. ASSUME NEW p \in Process, PutText(p) PROVE WholeInv'
    BY <2>0, <2>9 DEF PutText, Step, TypeOK, WrittenSoFar,
       RestingMessageIsWhole, LockHasOneOwner, Critical
  <2>10. ASSUME NEW p \in Process, LoadNum(p) \/ StoreNum(p) PROVE WholeInv'
    <3>1. CASE LoadNum(p)
      BY <2>0, <3>1 DEF LoadNum, Step, TypeOK, WrittenSoFar,
         RestingMessageIsWhole, LockHasOneOwner, Critical, shm
    <3>2. CASE StoreNum(p)
      BY <2>0, <3>2 DEF StoreNum, Step, TypeOK, WrittenSoFar,
         RestingMessageIsWhole, LockHasOneOwner, Critical, shm
    <3> QED
      BY <2>10, <3>1, <3>2
  <2>11. ASSUME NEW p \in Process, Unlock(p) PROVE WholeInv'
    BY <2>0, <2>11 DEF Unlock, Step, TypeOK, WrittenSoFar,
       RestingMessageIsWhole, LockHasOneOwner, Critical, shm
  <2>12. CASE UNCHANGED <<shm, sem, pc>>
    BY <2>12 DEF WrittenSoFar, RestingMessageIsWhole, shm
  <2> QED
    BY <2>1, <2>2, <2>3, <2>4, <2>5, <2>6, <2>7, <2>8, <2>9, <2>10, <2>11,
       <2>12 DEF Next, Connect, Send, Die, Receive, Poll, CopyNum,
       ReadName, ReadText, vars, writer
<1> QED
  BY <1>1, <1>2, TypeStep, LockStep, PTL DEF Spec

\* A message nobody is writing is whole: its name is that of the process
\* that wrote its text.
THEOREM RestingMessageIsWholeHolds == Spec => []RestingMessageIsWhole
<1>1. WholeInv => RestingMessageIsWhole
  BY DEF WholeInv, RestingMessageIsWhole
<1> QED
  BY <1>1, WholeInvHolds, PTL
----------------------------------------------------------------------------
(* NumberCountsMessages, in the same case: the number in the segment, and  *)
(* the one its only writer has loaded, count the lines already numbered.   *)

Connecting == {"start", "initName", "initText", "initNum"}
Unnumbered == {"lock", "putName", "putText", "loadNum", "storeNum"}
Sent == {l \in Process \X (1..MAX_SENDS) :
           IF pc[l[1]] \in Unnumbered THEN l[2] < sends[l[1]]
                                      ELSE l[2] <= sends[l[1]]}
CountInv ==
  /\ \A p \in Process : pc[p] \in Connecting => sends[p] = 0
  /\ \A p \in Process : pc[p] \in {"loadNum", "storeNum"} => sends[p] > 0
  /\ ~hasty => /\ mess_num = Cardinality(Sent)
               /\ \A p \in Process : pc[p] = "storeNum" => reg[p] = mess_num

\* The lines that can be sent are finitely many.
LEMMA SentIsFinite == IsFiniteSet(Sent)
<1>1. IsFiniteSet(Process \X (1..MAX_SENDS))
  <2>1. IsFiniteSet(1..MAX_SENDS)
    BY ShmAssumption, FS_Interval
  <2> QED
    BY <2>1, ShmAssumption, FS_Product
<1> QED
  BY <1>1, FS_Subset DEF Sent

\* Every step numbers one line at most, and does so by one.
LEMMA CountStep ==
  ASSUME TypeOK, LockHasOneOwner, WholeInv, CountInv, [Next]_vars
  PROVE  CountInv'
<1> USE ShmAssumption
<1>t. /\ pc = [p \in Process |-> pc[p]] /\ sends \in [Process -> 0..MAX_SENDS]
      /\ reg \in [Process -> Nat] /\ mess_num \in Nat
  BY DEF TypeOK
<1>h. hasty \in BOOLEAN /\ (~hasty' => ~hasty)
  BY DEF TypeOK, Next, Connect, Create, InitName, InitText, InitNum, Attach,
     StartReceiver, Type, Send, Lock, PutName, PutText, LoadNum, StoreNum,
     Unlock, Leave, Die, Receive, Poll, CopyNum, ReadName, ReadText, vars, shm
<1>1. ASSUME NEW p \in Process, Type(p) PROVE CountInv'
  <2>1. /\ pc[p] = "type" /\ pc' = [pc EXCEPT ![p] = "lock"]
        /\ sends' = [sends EXCEPT ![p] = @ + 1]
        /\ UNCHANGED <<hasty, mess_num, reg>>
    BY <1>1 DEF Type, Step, shm
  <2>2. Sent' = Sent
    BY <1>t, <2>1 DEF Sent, Unnumbered
  <2> QED
    BY <1>t, <2>1, <2>2 DEF CountInv, Connecting
<1>2. ASSUME NEW p \in Process, StoreNum(p) PROVE CountInv'
  <2>1. /\ pc[p] = "storeNum" /\ pc' = [pc EXCEPT ![p] = "unlock"]
        /\ mess_num' = reg[p] + 1
        /\ UNCHANGED <<hasty, sends, reg>>
    BY <1>2 DEF StoreNum, Step
  <2>2. sends[p] \in 1..MAX_SENDS
    BY <1>t, <2>1 DEF CountInv
  <2> DEFINE l == <<p, sends[p]>>
  <2>3. Sent' = Sent \cup {l} /\ l \notin Sent
    BY <1>t, <2>1, <2>2 DEF Sent, Unnumbered
  <2>4. Cardinality(Sent') = Cardinality(Sent) + 1
    BY <2>3, SentIsFinite, FS_AddElement
  <2>5. \A q \in Process : q # p => pc[q] # "storeNum"
    BY <2>1 DEF LockHasOneOwner, Critical
  <2> QED
    BY <1>t, <2>1, <2>4, <2>5 DEF CountInv, Connecting
<1>3. ASSUME NEW p \in Process, LoadNum(p) PROVE CountInv'
  <2>1. /\ pc[p] = "loadNum" /\ pc' = [pc EXCEPT ![p] = "storeNum"]
        /\ reg' = [reg EXCEPT ![p] = mess_num]
        /\ UNCHANGED <<hasty, mess_num, sends>>
    BY <1>3 DEF LoadNum, Step, shm
  <2>2. Sent' = Sent
    BY <1>t, <2>1 DEF Sent, Unnumbered
  <2>3. sends[p] > 0
    BY <2>1 DEF CountInv
  <2> QED
    BY <1>t, <2>1, <2>2, <2>3 DEF CountInv, Connecting
<1>4. ASSUME NEW p \in Process, InitNum(p) PROVE CountInv'
  <2>1. /\ pc[p] = "initNum" /\ pc' = [pc EXCEPT ![p] = "attached"]
        /\ mess_num' = 0
        /\ UNCHANGED <<hasty, reg, sends>>
    BY <1>4 DEF InitNum, Step
  <2>2. ~hasty => \A q \in Process : q # p => pc[q] = "start"
    BY <2>1 DEF WholeInv, OneCreator, Initializing
  <2>3. ~hasty => \A q \in Process : sends[q] = 0
    BY <1>t, <2>1, <2>2 DEF CountInv, Connecting
  <2>4. ~hasty => Sent' = {}
    BY <1>t, <2>1, <2>3 DEF Sent
  <2> QED
    BY <1>t, <2>1, <2>2, <2>4, FS_EmptySet DEF CountInv, Connecting
<1>5. ASSUME NEW p \in Process,
             \/ Create(p) \/ InitName(p) \/ InitText(p) \/ Attach(p)
             \/ StartReceiver(p) \/ Lock(p) \/ PutName(p) \/ PutText(p)
             \/ Unlock(p) \/ Leave(p)
      PROVE  CountInv'
  <2>1. /\ UNCHANGED <<mess_num, reg, sends>>
        /\ pc' = [pc EXCEPT ![p] = pc'[p]]
        /\ pc'[p] # "storeNum"
        /\ pc'[p] = "loadNum" => pc[p] = "putText"
        /\ pc'[p] \in Connecting => pc[p] \in Connecting
        /\ pc'[p] \in Unnumbered <=> pc[p] \in Unnumbered
    BY <1>t, <1>5 DEF Create, InitName, InitText, Attach, StartReceiver, Lock,
       PutName, PutText, Unlock, Leave, Step, shm, Connecting, Unnumbered
  <2>2. Sent' = Sent
    BY <1>t, <2>1 DEF Sent
  <2>3. pc[p] = "putText" => sends[p] > 0
    BY DEF TypeOK
  <2> QED
    BY <1>t, <1>h, <2>1, <2>2, <2>3 DEF CountInv
<1>6. CASE UNCHANGED <<shm, writer>>
  BY <1>6 DEF CountInv, Sent, shm, writer
<1> QED
  BY <1>1, <1>2, <1>3, <1>4, <1>5, <1>6 DEF Next, Connect, Send, Die, Receive,
     Poll, CopyNum, ReadName, ReadText, vars

\* mess_num++ of send_mess(), a load and a store of its own, loses no message:
\* whenever nobody is sending, the number counts the lines sent.
THEOREM NumberCountsMessagesHolds == Spec => []NumberCountsMessages
<1>1. Init => CountInv
  <2> SUFFICES ASSUME Init PROVE CountInv
    OBVIOUS
  <2>1. Sent = {}
    BY ShmAssumption DEF Init, Sent, Unnumbered
  <2> QED
    BY <2>1, FS_EmptySet DEF Init, CountInv
<1>2. TypeOK /\ LockHasOneOwner /\ WholeInv /\ CountInv
        => NumberCountsMessages
  <2> SUFFICES ASSUME TypeOK, LockHasOneOwner, CountInv,
                      ~hasty, Ready, sem = 0
               PROVE  mess_num = Cardinality({l \in Process \X (1..MAX_SENDS) :
                              IF pc[l[1]] = "lock" THEN l[2] < sends[l[1]]
                                                   ELSE l[2] <= sends[l[1]]})
    BY DEF NumberCountsMessages
  <2>1. \A p \in Process : pc[p] \in Unnumbered <=> pc[p] = "lock"
    BY DEF LockHasOneOwner, Critical, Unnumbered
  <2>2. Sent = {l \in Process \X (1..MAX_SENDS) :
                  IF pc[l[1]] = "lock" THEN l[2] < sends[l[1]]
                                       ELSE l[2] <= sends[l[1]]}
    BY <2>1 DEF Sent
  <2> QED
    BY <2>2 DEF CountInv
<1> QED
  BY <1>1, <1>2, CountStep, WholeInvHolds, TypeCorrect, LockHasOneOwnerHolds,
     PTL DEF Spec
----------------------------------------------------------------------------
(* JobServerUDP: every request is at one place, as long as there is a      *)
(* queue.                                                                  *)

State == {"W_STATE", "H_STATE", "S_STATE", "E_STATE", "exited"}
Job   == [mtype : {MSG_TYPE}, client : Request, suffixes : {0}]
Buffer(n) == [mtype : {0, MSG_TYPE}, client : 0..n, suffixes : Nat]

JobTypeOK ==
  /\ main \in {"serve", "wait", "remove", "done", "failed"}
  /\ it \in 0..NUM_OF_REQUESTS
  /\ queue \in Seq(Job)
  /\ \A i \in DOMAIN queue : queue[i].client <= it
  /\ removed \in BOOLEAN /\ (removed <=> main = "done")
  /\ dropped \subseteq 1..it
  /\ statement \in [Worker -> State]
  /\ handled \in [Worker -> 0..HANDLE_REQUESTS]
  /\ job \in [Worker -> Buffer(it)]
  /\ failed \subseteq 1..it
  /\ replies \in [Request -> Seq(Nat)]

\* The worker has a job that is neither answered nor given up.
Holds(w) == statement[w] \in {"H_STATE", "S_STATE"}

InQueue(r)  == \E i \in DOMAIN queue : queue[i].client = r
InHands(r)  == \E w \in Worker : Holds(w) /\ job[w].client = r
Answered(r) == replies[r] # <<>>

\* A request that has come is somewhere, and nowhere else.
SomePlace(r) == \/ InQueue(r) \/ InHands(r) \/ Answered(r)
                \/ r \in dropped \/ r \in failed
OnePlaceOnly(r) ==
  /\ ~(InQueue(r) /\ InHands(r))
  /\ (InQueue(r) \/ InHands(r)) =>
       ~Answered(r) /\ r \notin dropped /\ r \notin failed
  /\ Answered(r) => r \notin dropped /\ r \notin failed
  /\ r \in dropped => r \notin failed

\* Until the queue is removed: no place holds a request twice, and the text of
\* a reply has grown once.
JobInv ==
  ~removed =>
    /\ \A i, j \in DOMAIN queue : queue[i].client = queue[j].client => i = j
    /\ \A w \in Worker : Holds(w) =>
         /\ job[w].client # 0
         /\ job[w].suffixes = IF statement[w] = "H_STATE" THEN 0 ELSE 1
    /\ \A v, w \in Worker :
         Holds(v) /\ Holds(w) /\ job[v].client = job[w].client => v = w
    /\ \A r \in Request : replies[r] \in {<<>>, <<1>>}
    /\ \A r \in Request : r > it => ~Answered(r)
    /\ \A r \in 1..it : SomePlace(r) /\ OnePlaceOnly(r)

\* The requests of the tester can be counted.
LEMMA NumOfRequests == NUM_OF_REQUESTS \in Nat
BY FS_CardinalityType, JobAssumption DEF NUM_OF_REQUESTS

\* What a message of the queue is.
LEMMA JobFields ==
  ASSUME NEW m \in Job
  PROVE  m.mtype = 1 /\ m.client \in Request /\ m.suffixes = 0
BY DEF Job, MSG_TYPE

\* The fields of the buffer of a worker.
LEMMA BufferFields ==
  ASSUME NEW n \in Nat, NEW b \in Buffer(n)
  PROVE  /\ b.client \in 0..n /\ b.suffixes \in Nat
         /\ \A k \in Nat : [b EXCEPT !.suffixes = k] \in Buffer(n)
BY DEF Buffer

\* A message that was received is a buffer.
LEMMA JobIsBuffer ==
  ASSUME NEW n \in Nat, NEW m \in Job, m.client <= n
  PROVE  m \in Buffer(n)
BY NumOfRequests DEF Job, Buffer, Request

\* The client of every message in a queue that a message is added to.
LEMMA AppendJob ==
  ASSUME NEW q \in Seq(Job), NEW n \in Nat, NEW m \in Job, m.client <= n,
         \A i \in DOMAIN q : q[i].client <= n
  PROVE  /\ Append(q, m) \in Seq(Job)
         /\ \A i \in DOMAIN Append(q, m) : Append(q, m)[i].client <= n
OBVIOUS

\* All jobs are of one type: the first of the queue is the one taken, and
\* the others move up.
LEMMA FirstIsTaken ==
  ASSUME NEW q \in Seq(Job), NEW i \in DOMAIN q, Selected(q, MSG_TYPE, i)
  PROVE  i = 1 /\ q # <<>> /\ RemoveAt(q, i) = Tail(q)
<1>1. \A j \in DOMAIN q : Accepts(MSG_TYPE, q[j])
  <2>1. \A j \in DOMAIN q : q[j] \in Job
    OBVIOUS
  <2> QED
    BY <2>1, JobFields DEF Accepts, MSG_TYPE
<1>2. i = 1 /\ q # <<>>
  BY <1>1 DEF Selected, MSG_TYPE
<1>3. RemoveAt(q, 1) = Tail(q)
  <2>1. SubSeq(q, 1, 0) = <<>> /\ SubSeq(q, 2, Len(q)) = Tail(q)
    BY <1>2
  <2>2. <<>> \o Tail(q) = Tail(q)
    BY <1>2
  <2> QED
    BY <2>1, <2>2 DEF RemoveAt
<1> QED
  BY <1>2, <1>3

\* The taking of a job, as both proofs below use it.
LEMMA Taking ==
  ASSUME JobTypeOK, NEW w \in Worker, ReceiveJob(w)
  PROVE  /\ statement[w] = "W_STATE" /\ handled[w] < HANDLE_REQUESTS
         /\ statement' = [statement EXCEPT ![w] = "H_STATE"]
         /\ \/ /\ queue # <<>> /\ queue' = Tail(queue)
               /\ queue[1] \in Job /\ queue[1].client \in 1..it
               /\ job' = [job EXCEPT ![w] = queue[1]]
            \/ removed /\ UNCHANGED <<job, queue>>
         /\ UNCHANGED <<parent, handled, failed, replies>>
<1>1. ASSUME NEW i \in DOMAIN queue, Selected(queue, MSG_TYPE, i)
      PROVE  i = 1 /\ queue # <<>> /\ RemoveAt(queue, i) = Tail(queue)
  BY <1>1, FirstIsTaken DEF JobTypeOK
<1>2. ASSUME queue # <<>>
      PROVE  queue[1] \in Job /\ queue[1].client \in 1..it
  <2>1. queue[1] \in Job /\ queue[1].client <= it
    BY <1>2 DEF JobTypeOK
  <2>2. queue[1].client \in Request
    BY <2>1, JobFields
  <2> QED
    BY <2>1, <2>2, NumOfRequests DEF Request, JobTypeOK
<1> QED
  BY <1>1, <1>2 DEF ReceiveJob, Busy

\* The server and its workers keep the ranges.
LEMMA JobTypeStep == JobTypeOK /\ [JobNext]_jobVars => JobTypeOK'
<1> SUFFICES ASSUME JobTypeOK, [JobNext]_jobVars PROVE JobTypeOK'
  OBVIOUS
<1> USE DEF parent, workers
<1>t. /\ it \in Nat /\ it <= NUM_OF_REQUESTS /\ NUM_OF_REQUESTS \in Nat
      /\ HANDLE_REQUESTS \in Nat
  BY NumOfRequests, JobAssumption DEF JobTypeOK
<1>1. CASE UNCHANGED jobVars
  BY <1>1 DEF jobVars, JobTypeOK
<1>2. CASE MainReceives
  <2>1. it' = it + 1 /\ it' \in 0..NUM_OF_REQUESTS
    BY <1>t, <1>2 DEF MainReceives
  <2> DEFINE new == [mtype |-> MSG_TYPE, client |-> it', suffixes |-> 0]
  <2>2. new \in Job /\ new.client = it'
    BY <1>t, <2>1 DEF Job, Request
  <2>3. queue' = queue \/ queue' = Append(queue, new)
    BY <1>2 DEF MainReceives
  <2> HIDE DEF new
  <2>4. /\ queue' \in Seq(Job)
        /\ \A i \in DOMAIN queue' : queue'[i].client <= it'
    <3>1. /\ queue \in Seq(Job)
          /\ \A i \in DOMAIN queue : queue[i].client <= it'
      <4>1. /\ queue \in Seq(Job)
            /\ \A i \in DOMAIN queue : /\ queue[i] \in Job
                                       /\ queue[i].client <= it
        BY DEF JobTypeOK
      <4> QED
        BY <1>t, <4>1, <2>1, JobFields DEF Request
    <3>2. it' \in Nat /\ new.client <= it'
      BY <2>1, <2>2
    <3>3. CASE queue' = Append(queue, new)
      BY <3>1, <3>2, <3>3, <2>2, AppendJob
    <3> QED
      BY <2>3, <3>1, <3>3
  <2>5. dropped' \subseteq 1..it' /\ failed \subseteq 1..it'
    <3>1. dropped \subseteq 1..it /\ failed \subseteq 1..it
      BY DEF JobTypeOK
    <3>2. dropped' = dropped \/ dropped' = dropped \cup {it'}
      BY <1>2 DEF MainReceives
    <3>3. 1..it \subseteq 1..it' /\ it' \in 1..it'
      BY <2>1, <1>t
    <3> QED
      BY <3>1, <3>2, <3>3
  <2>6. job' \in [Worker -> Buffer(it')]
    <3>1. Buffer(it) \subseteq Buffer(it')
      BY <1>t, <2>1 DEF Buffer
    <3> QED
      BY <3>1, <1>2 DEF MainReceives, JobTypeOK
  <2> QED
    BY <1>2, <2>1, <2>4, <2>5, <2>6 DEF MainReceives, JobTypeOK
<1>3. CASE MainWaits \/ MainFails
  <2>1. /\ main' \in {"wait", "remove", "failed"}
        /\ main # "done" /\ UNCHANGED <<it, removed, dropped, queue, workers>>
    BY <1>3 DEF MainWaits, MainFails
  <2> QED
    BY <2>1 DEF JobTypeOK
<1>4. CASE MainRemovesQueue
  <2>1. /\ queue' \in Seq(Job)
        /\ \A i \in DOMAIN queue' : queue'[i].client <= it
    BY <1>4 DEF MainRemovesQueue
  <2> QED
    BY <2>1, <1>4 DEF MainRemovesQueue, JobTypeOK
<1>5. ASSUME NEW w \in Worker, ReceiveJob(w) PROVE JobTypeOK'
  <2>1. job' \in [Worker -> Buffer(it)]
    <3>1. queue[1] \in Job /\ queue[1].client \in 1..it
            => queue[1] \in Buffer(it)
      BY <1>t, JobIsBuffer
    <3>2. job \in [Worker -> Buffer(it)]
      BY DEF JobTypeOK
    <3> QED
      BY <3>1, <3>2, <1>5, Taking
  <2>2. /\ queue' \in Seq(Job)
        /\ \A i \in DOMAIN queue' : queue'[i].client <= it
    <3>1. /\ queue \in Seq(Job)
          /\ \A i \in DOMAIN queue : queue[i].client <= it
      BY DEF JobTypeOK
    <3>2. queue # <<>> => /\ Tail(queue) \in Seq(Job)
                          /\ \A i \in DOMAIN Tail(queue) :
                               Tail(queue)[i].client <= it
      BY <3>1
    <3> QED
      BY <3>1, <3>2, <1>5, Taking
  <2>3. statement' \in [Worker -> State]
    BY <1>5, Taking DEF JobTypeOK, State
  <2> QED
    BY <2>1, <2>2, <2>3, <1>5, Taking DEF JobTypeOK
<1>6. ASSUME NEW w \in Worker, Handle(w) PROVE JobTypeOK'
  <2>1. job' \in [Worker -> Buffer(it)]
    <3>1. job \in [Worker -> Buffer(it)]
      BY DEF JobTypeOK
    <3>2. [job[w] EXCEPT !.suffixes = job[w].suffixes + 1] \in Buffer(it)
      <4>1. job[w] \in Buffer(it)
        BY <3>1
      <4>2. job[w].suffixes + 1 \in Nat
        BY <4>1, <1>t, BufferFields
      <4> QED
        BY <4>1, <4>2, <1>t, BufferFields
    <3>3. job' = [job EXCEPT ![w] =
                    [job[w] EXCEPT !.suffixes = job[w].suffixes + 1]]
      BY <1>6 DEF Handle
    <3> QED
      BY <3>1, <3>2, <3>3
  <2> QED
    BY <2>1, <1>6 DEF Handle, Busy, JobTypeOK, State
<1>7. ASSUME NEW w \in Worker, Reply(w) PROVE JobTypeOK'
  <2>1. job[w].client \in 0..it /\ job[w].suffixes \in Nat
    BY <1>t, BufferFields DEF JobTypeOK
  <2>2. replies' \in [Request -> Seq(Nat)]
    <3>1. replies \in [Request -> Seq(Nat)]
      BY DEF JobTypeOK
    <3>2. \A r \in Request : /\ replies[r] \in Seq(Nat)
                            /\ Append(replies[r], job[w].suffixes) \in Seq(Nat)
      BY <2>1, <3>1
    <3> QED
      BY <3>1, <3>2, <1>7 DEF Reply
  <2>3. failed' \subseteq 1..it
    <3>1. failed \subseteq 1..it
      BY DEF JobTypeOK
    <3>2. failed' = failed \/ failed' = failed \cup ({job[w].client} \ {0})
      BY <1>7 DEF Reply
    <3>3. {job[w].client} \ {0} \subseteq 1..it
      BY <1>t, <2>1
    <3> QED
      BY <3>1, <3>2, <3>3
  <2>4. handled' \in [Worker -> 0..HANDLE_REQUESTS]
    <3>1. handled \in [Worker -> 0..HANDLE_REQUESTS]
      BY DEF JobTypeOK
    <3> QED
      BY <1>t, <3>1, <1>7 DEF Reply, Busy
  <2>5. statement' \in [Worker -> State]
    BY <1>7 DEF Reply, JobTypeOK, State
  <2> QED
    BY <2>2, <2>3, <2>4, <2>5, <1>7 DEF Reply, JobTypeOK
<1>8. ASSUME NEW w \in Worker, Error(w) \/ Exit(w) PROVE JobTypeOK'
  <2>1. handled' \in [Worker -> 0..HANDLE_REQUESTS]
    <3>1. handled \in [Worker -> 0..HANDLE_REQUESTS]
      BY DEF JobTypeOK
    <3> QED
      BY <1>t, <3>1, <1>8 DEF Error, Exit, Busy
  <2>2. statement' \in [Worker -> State]
    BY <1>8 DEF Error, Exit, JobTypeOK, State
  <2>3. UNCHANGED <<parent, queue, job, failed, replies>>
    BY <1>8 DEF Error, Exit
  <2> QED
    BY <2>1, <2>2, <2>3 DEF JobTypeOK
<1> QED
  BY <1>1, <1>2, <1>3, <1>4, <1>5, <1>6, <1>7, <1>8 DEF JobNext, Main, Work

\* What a step of a worker does to who holds which request.
LEMMA JobStep == JobTypeOK /\ JobInv /\ [JobNext]_jobVars => JobInv'
<1> SUFFICES ASSUME JobTypeOK, JobInv, [JobNext]_jobVars, ~removed'
             PROVE  JobInv'
  BY DEF JobInv
<1> USE DEF parent, workers
<1>t. /\ it \in Nat /\ it <= NUM_OF_REQUESTS /\ NUM_OF_REQUESTS \in Nat
      /\ ~removed
  <2>1. ~removed
    BY DEF JobNext, Main, MainReceives, MainWaits, MainFails,
       MainRemovesQueue, Work,
           ReceiveJob, Handle, Reply, Error, Exit, jobVars, JobTypeOK
  <2> QED
    BY <2>1, NumOfRequests DEF JobTypeOK
<1>i. /\ \A i, j \in DOMAIN queue : queue[i].client = queue[j].client => i = j
      /\ \A w \in Worker : Holds(w) =>
           /\ job[w].client # 0
           /\ job[w].suffixes = IF statement[w] = "H_STATE" THEN 0 ELSE 1
      /\ \A v, w \in Worker :
           Holds(v) /\ Holds(w) /\ job[v].client = job[w].client => v = w
      /\ \A r \in Request : replies[r] \in {<<>>, <<1>>}
      /\ \A r \in Request : r > it => ~Answered(r)
      /\ \A r \in 1..it : SomePlace(r) /\ OnePlaceOnly(r)
  BY <1>t DEF JobInv
<1>j. /\ \A i \in DOMAIN queue : queue[i].client \in 1..it
      /\ \A w \in Worker : job[w].client \in 0..it
      /\ queue \in Seq(Job)
  <2>1. \A i \in DOMAIN queue : queue[i] \in Job /\ queue[i].client <= it
    BY DEF JobTypeOK
  <2> QED
    BY <1>t, <2>1, JobFields, BufferFields DEF JobTypeOK, Request
<1>1. CASE UNCHANGED jobVars
  BY <1>1, <1>t, <1>i DEF jobVars, JobInv, Holds, SomePlace, OnePlaceOnly,
     InQueue, InHands, Answered
<1>2. CASE MainReceives
  <2>1. /\ it' = it + 1 /\ it' \in Request
        /\ UNCHANGED <<statement, job, failed, replies, removed>>
    BY <1>t, <1>2 DEF MainReceives, Request
  <2> DEFINE new == [mtype |-> MSG_TYPE, client |-> it', suffixes |-> 0]
  <2>2. \/ queue' = queue /\ dropped' = dropped \cup {it'}
        \/ queue' = Append(queue, new) /\ dropped' = dropped
    BY <1>2 DEF MainReceives
  <2>3. new.client = it'
    OBVIOUS
  <2> HIDE DEF new
  <2>4. \A r \in 1..it' : r # it' => r \in 1..it
    BY <1>t, <2>1
  <2>5. \A w \in Worker : Holds(w)' <=> Holds(w)
    BY <2>1 DEF Holds
  <2>6. ~InHands(it') /\ ~InQueue(it') /\ ~Answered(it')
        /\ it' \notin failed /\ it' \notin dropped
    BY <1>t, <1>i, <1>j, <2>1 DEF InHands, InQueue, JobTypeOK
  <2>7. \A r \in 1..it' :
          /\ InHands(r)' <=> InHands(r)
          /\ Answered(r)' <=> Answered(r)
    BY <2>1 DEF InHands, Holds, Answered
  <2>8. CASE queue' = queue /\ dropped' = dropped \cup {it'}
    <3>1. \A r \in 1..it' : InQueue(r)' <=> InQueue(r)
      BY <2>8 DEF InQueue
    <3>2. \A r \in 1..it' : SomePlace(r)' /\ OnePlaceOnly(r)'
      BY <1>i, <2>1, <2>4, <2>6, <2>7, <2>8, <3>1 DEF SomePlace, OnePlaceOnly
    <3> QED
      BY <1>i, <1>t, <2>1, <2>8, <3>2 DEF JobInv, Holds, Answered
  <2>9. CASE queue' = Append(queue, new) /\ dropped' = dropped
    <3>1. /\ DOMAIN queue' = 1..(Len(queue) + 1)
          /\ \A i \in DOMAIN queue : i \in 1..Len(queue) /\ queue'[i] = queue[i]
          /\ queue'[Len(queue) + 1].client = it' /\ Len(queue) \in Nat
      BY <1>j, <2>3, <2>9
    <3>2. \A r \in 1..it' : InQueue(r)' <=> (InQueue(r) \/ r = it')
      BY <1>j, <3>1 DEF InQueue
    <3>3. \A r \in 1..it' : SomePlace(r)' /\ OnePlaceOnly(r)'
      BY <1>i, <2>1, <2>4, <2>6, <2>7, <2>9, <3>2 DEF SomePlace, OnePlaceOnly
    <3>4. \A i, j \in DOMAIN queue' :
             queue'[i].client = queue'[j].client => i = j
      <4>1. \A i \in DOMAIN queue : queue'[i].client # it'
        BY <1>j, <3>1, <2>1, <1>t
      <4>2. \A i \in DOMAIN queue' : i \in DOMAIN queue \/ i = Len(queue) + 1
        BY <1>j, <3>1
      <4> QED
        BY <1>i, <3>1, <4>1, <4>2
    <3> QED
      BY <1>i, <1>t, <2>1, <2>9, <3>3, <3>4 DEF JobInv, Holds, Answered
  <2> QED
    BY <2>2, <2>8, <2>9
<1>3. CASE MainWaits \/ MainFails
  BY <1>3, <1>t, <1>i DEF MainWaits, MainFails, JobInv, Holds, SomePlace,
     OnePlaceOnly, InQueue, InHands, Answered
<1>4. CASE MainRemovesQueue
  BY <1>4 DEF MainRemovesQueue
<1>5. ASSUME NEW w \in Worker, ReceiveJob(w) PROVE JobInv'
  <2> DEFINE c == queue[1].client
  <2>1. /\ statement[w] = "W_STATE"
        /\ statement' = [statement EXCEPT ![w] = "H_STATE"]
        /\ queue # <<>> /\ queue' = Tail(queue)
        /\ queue[1] \in Job /\ c \in 1..it
        /\ job' = [job EXCEPT ![w] = queue[1]]
        /\ UNCHANGED <<parent, failed, replies>>
    BY <1>5, <1>t, Taking
  <2>2. /\ \A v \in Worker : Holds(v)' <=> Holds(v) \/ v = w
        /\ \A v \in Worker : v # w => job'[v] = job[v]
                                      /\ statement'[v] = statement[v]
        /\ ~Holds(w) /\ statement'[w] = "H_STATE"
        /\ job'[w].client = c /\ job'[w].suffixes = 0
    BY <2>1, JobFields DEF Holds, JobTypeOK
  <2>3. /\ DOMAIN queue = 1..Len(queue) /\ Len(queue) \in Nat \ {0}
        /\ DOMAIN queue' = 1..(Len(queue) - 1)
        /\ \A i \in 1..(Len(queue) - 1) : queue'[i] = queue[i + 1]
    BY <1>j, <2>1
  <2> HIDE DEF c
  <2>4. \A r \in 1..it : /\ InQueue(r)' <=> (InQueue(r) /\ r # c)
                         /\ InHands(r)' <=> (InHands(r) \/ r = c)
    <3>1. ASSUME NEW r \in 1..it PROVE InQueue(r)' <=> (InQueue(r) /\ r # c)
      <4>1. ASSUME NEW i \in DOMAIN queue', queue'[i].client = r
            PROVE  i + 1 \in DOMAIN queue /\ queue[i + 1].client = r /\ r # c
        BY <1>i, <2>3, <4>1 DEF c
      <4>2. ASSUME NEW i \in DOMAIN queue, queue[i].client = r, r # c
            PROVE  i - 1 \in DOMAIN queue' /\ queue'[i - 1].client = r
        BY <2>3, <4>2 DEF c
      <4> QED
        BY <4>1, <4>2 DEF InQueue
    <3> QED
      BY <3>1, <2>2 DEF InHands
  <2>5. InQueue(c)
    BY <2>3 DEF InQueue, c
  <2>6. \A r \in 1..it : SomePlace(r)' /\ OnePlaceOnly(r)'
    BY <1>i, <2>1, <2>4, <2>5 DEF SomePlace, OnePlaceOnly, Answered
  <2>7. \A i, j \in DOMAIN queue' : queue'[i].client = queue'[j].client => i = j
    <3>1. \A i \in DOMAIN queue' : /\ i + 1 \in DOMAIN queue
                                   /\ queue'[i].client = queue[i + 1].client
      BY <2>3
    <3>2. \A i, j \in DOMAIN queue' : i + 1 = j + 1 => i = j
      BY <2>3
    <3> QED
      BY <1>i, <3>1, <3>2
  <2>8. \A u, v \in Worker :
          Holds(u)' /\ Holds(v)' /\ job'[u].client = job'[v].client => u = v
    <3>1. ~InHands(c)
      BY <1>i, <2>1, <2>5 DEF OnePlaceOnly
    <3> QED
      BY <1>i, <2>2, <3>1 DEF InHands
  <2>9. \A v \in Worker : Holds(v)' =>
           /\ job'[v].client # 0
           /\ job'[v].suffixes = IF statement'[v] = "H_STATE" THEN 0 ELSE 1
    BY <1>i, <2>1, <2>2
  <2> QED
    BY <1>i, <2>1, <2>6, <2>7, <2>8, <2>9 DEF JobInv, Answered
<1>6. ASSUME NEW w \in Worker, Handle(w) PROVE JobInv'
  <2>1. /\ statement[w] = "H_STATE"
        /\ statement' = [statement EXCEPT ![w] = "S_STATE"]
        /\ UNCHANGED <<parent, queue, failed, replies>>
    BY <1>6 DEF Handle, Busy
  <2>2. /\ \A v \in Worker : Holds(v)' <=> Holds(v)
        /\ Holds(w) /\ statement'[w] = "S_STATE"
        /\ \A v \in Worker : v # w => job'[v] = job[v]
                                      /\ statement'[v] = statement[v]
    BY <2>1, <1>6 DEF Holds, JobTypeOK, Handle
  <2>3. job'[w].client = job[w].client
        /\ job'[w].suffixes = job[w].suffixes + 1
    <3>1. job' = [job EXCEPT ![w] =
                    [job[w] EXCEPT !.suffixes = job[w].suffixes + 1]]
      BY <1>6 DEF Handle
    <3>2. job[w] \in Buffer(it) /\ w \in DOMAIN job
      BY DEF JobTypeOK
    <3> QED
      BY <3>1, <3>2 DEF Buffer
  <2>4. \A v \in Worker : job'[v].client = job[v].client
    BY <2>2, <2>3
  <2>5. \A r \in 1..it : SomePlace(r)' /\ OnePlaceOnly(r)'
    BY <1>i, <2>1, <2>2, <2>4 DEF SomePlace, OnePlaceOnly, InQueue, InHands,
       Answered
  <2>6. \A v \in Worker : Holds(v)' =>
           /\ job'[v].client # 0
           /\ job'[v].suffixes = IF statement'[v] = "H_STATE" THEN 0 ELSE 1
    BY <1>i, <2>1, <2>2, <2>3
  <2> QED
    BY <1>i, <2>1, <2>2, <2>4, <2>5, <2>6 DEF JobInv, Answered
<1>7. ASSUME NEW w \in Worker, Reply(w) PROVE JobInv'
  <2> DEFINE c == job[w].client
  <2>1. /\ statement[w] = "S_STATE" /\ UNCHANGED <<parent, queue, job>>
        /\ Holds(w) /\ c \in 1..it /\ c \in Request /\ job[w].suffixes = 1
        /\ statement'[w] \notin {"H_STATE", "S_STATE"}
        /\ \A v \in Worker : v # w => statement'[v] = statement[v]
    BY <1>7, <1>i, <1>j, <1>t DEF Reply, Busy, Holds, JobTypeOK, Request
  <2>2. \/ /\ replies' = [r \in Request |->
                            IF r = c THEN Append(replies[r], job[w].suffixes)
                                     ELSE replies[r]]
           /\ failed' = failed
        \/ replies' = replies /\ failed' = failed \cup ({c} \ {0})
    BY <1>7 DEF Reply
  <2> HIDE DEF c
  <2>3. \A v \in Worker : Holds(v)' <=> (Holds(v) /\ v # w)
    BY <2>1 DEF Holds
  <2>4. InHands(c)
    BY <2>1 DEF InHands, c
  <2>5. \A r \in 1..it : /\ InHands(r)' <=> (InHands(r) /\ r # c)
                         /\ InQueue(r)' <=> InQueue(r)
    BY <1>i, <2>1, <2>3 DEF InHands, InQueue, c
  <2>6. ~Answered(c) /\ ~InQueue(c) /\ c \notin dropped /\ c \notin failed
    BY <1>i, <2>1, <2>4 DEF OnePlaceOnly
  <2>7. /\ \A r \in Request : replies'[r] \in {<<>>, <<1>>}
        /\ \A r \in Request : r > it => ~Answered(r)'
        /\ \A r \in 1..it : SomePlace(r)' /\ OnePlaceOnly(r)'
    <3>0. 1..it \subseteq Request
      BY <1>t DEF Request
    <3>1. CASE /\ replies' = [r \in Request |->
                                IF r = c
                                THEN Append(replies[r], job[w].suffixes)
                                ELSE replies[r]]
               /\ failed' = failed
      <4>1. replies'[c] = <<1>> /\ \A r \in Request : r # c =>
                                      replies'[r] = replies[r]
        <5>1. Append(<<>>, 1) = <<1>>
          OBVIOUS
        <5>2. replies[c] = <<>>
          BY <2>6 DEF Answered
        <5> QED
          BY <2>1, <3>1, <5>1, <5>2
      <4>2. \A r \in Request : Answered(r)' <=> (Answered(r) \/ r = c)
        BY <4>1 DEF Answered
      <4> QED
        BY <1>i, <1>t, <2>1, <2>5, <2>6, <3>0, <3>1, <4>1, <4>2 DEF SomePlace,
           OnePlaceOnly
    <3>2. CASE replies' = replies /\ failed' = failed \cup ({c} \ {0})
      <4>1. \A r \in Request : Answered(r)' <=> Answered(r)
        BY <3>2 DEF Answered
      <4>2. \A r \in 1..it : r \in failed' <=> (r \in failed \/ r = c)
        BY <2>1, <3>2
      <4>3. \A r \in 1..it : SomePlace(r)' /\ OnePlaceOnly(r)'
        BY <1>i, <2>1, <2>5, <2>6, <3>0, <4>1, <4>2 DEF SomePlace,
           OnePlaceOnly
      <4> QED
        BY <1>i, <2>1, <3>2, <4>1, <4>3
    <3> QED
      BY <2>2, <3>1, <3>2
  <2> QED
    BY <1>i, <2>1, <2>3, <2>7 DEF JobInv
<1>8. ASSUME NEW w \in Worker, Error(w) \/ Exit(w) PROVE JobInv'
  <2>1. /\ UNCHANGED <<parent, queue, job, failed, replies>>
        /\ \A v \in Worker : /\ Holds(v)' <=> Holds(v)
                             /\ Holds(v) => statement'[v] = statement[v]
    BY <1>8 DEF Error, Exit, Busy, Holds, JobTypeOK
  <2> QED
    BY <2>1, <1>i DEF JobInv, SomePlace, OnePlaceOnly, InQueue, InHands,
       Answered
<1> QED
  BY <1>1, <1>2, <1>3, <1>4, <1>5, <1>6, <1>7, <1>8 DEF JobNext, Main, Work

\* It holds at the start.
LEMMA JobStart == JobInit => JobTypeOK /\ JobInv
<1> SUFFICES ASSUME JobInit PROVE JobTypeOK /\ JobInv
  OBVIOUS
<1>1. NUM_OF_REQUESTS \in Nat /\ HANDLE_REQUESTS \in Nat
  BY NumOfRequests, JobAssumption
<1>2. Garbage \in Buffer(0)
  BY DEF Garbage, Buffer
<1>3. JobTypeOK
  <2>1. /\ main = "serve" /\ removed = FALSE /\ it = 0
        /\ dropped = {} /\ failed = {}
    BY DEF JobInit
  <2>2. queue \in Seq(Job) /\ \A i \in DOMAIN queue : queue[i].client <= it
    BY DEF JobInit
  <2>3. /\ statement \in [Worker -> State]
        /\ handled \in [Worker -> 0..HANDLE_REQUESTS]
    BY <1>1 DEF JobInit, State
  <2>4. job \in [Worker -> Buffer(it)]
    BY <1>2, <2>1 DEF JobInit
  <2>5. replies \in [Request -> Seq(Nat)]
    BY DEF JobInit
  <2>6. removed \in BOOLEAN /\ (removed <=> main = "done")
    BY <2>1, Zenon
  <2>7. /\ main \in {"serve", "wait", "remove", "done", "failed"}
        /\ it \in 0..NUM_OF_REQUESTS
    BY <1>1, <2>1
  <2> QED
    BY <2>1, <2>2, <2>3, <2>4, <2>5, <2>6, <2>7 DEF JobTypeOK
<1>4. JobInv
  BY <1>1 DEF JobInit, JobInv, Holds, Answered
<1> QED
  BY <1>3, <1>4

\* Whatever the workers do, and however the queue fills up, every variable
\* keeps its range, and until the queue is removed no request is at two
\* places (main(), handle_server_main()).
THEOREM JobInvHolds == JobSpec => [](JobTypeOK /\ JobInv)
<1>1. JobTypeOK /\ JobInv /\ [JobNext]_jobVars => (JobTypeOK /\ JobInv)'
  BY JobTypeStep, JobStep
<1> QED
  BY <1>1, JobStart, PTL DEF JobSpec

\* As many places as are not empty.
LEMMA PlacesAreCounted ==
  ASSUME JobTypeOK, JobInv, ~removed, NEW r \in 1..it
  PROVE  Places(r) = 1
<1> DEFINE Q == {i \in DOMAIN queue : queue[i].client = r}
           W == {w \in Worker : /\ statement[w] \in {"H_STATE", "S_STATE"}
                                /\ job[w].client = r}
           D == {r} \cap dropped
           F == {r} \cap failed
<1>1. Cardinality(Q) = IF InQueue(r) THEN 1 ELSE 0
  <2>1. CASE InQueue(r)
    <3>1. PICK i \in DOMAIN queue : Q = {i}
      BY <2>1 DEF InQueue, JobInv
    <3> QED
      BY <2>1, <3>1, FS_Singleton
  <2>2. CASE ~InQueue(r)
    <3>1. Q = {}
      BY <2>2 DEF InQueue
    <3> QED
      BY <2>2, <3>1, FS_EmptySet
  <2> QED
    BY <2>1, <2>2
<1>2. Cardinality(W) = IF InHands(r) THEN 1 ELSE 0
  <2>1. CASE InHands(r)
    <3>1. PICK w \in Worker : W = {w}
      BY <2>1 DEF InHands, Holds, JobInv
    <3> QED
      BY <2>1, <3>1, FS_Singleton
  <2>2. CASE ~InHands(r)
    <3>1. W = {}
      BY <2>2 DEF InHands, Holds
    <3> QED
      BY <2>2, <3>1, FS_EmptySet
  <2> QED
    BY <2>1, <2>2
<1>3. /\ Cardinality(D) = IF r \in dropped THEN 1 ELSE 0
      /\ Cardinality(F) = IF r \in failed THEN 1 ELSE 0
  <2>1. /\ D = IF r \in dropped THEN {r} ELSE {}
        /\ F = IF r \in failed THEN {r} ELSE {}
    OBVIOUS
  <2> QED
    BY <2>1, FS_Singleton, FS_EmptySet
<1>4. Len(replies[r]) = IF Answered(r) THEN 1 ELSE 0
  <2>1. r \in Request
    BY NumOfRequests DEF JobTypeOK, Request
  <2>2. replies[r] \in {<<>>, <<1>>}
    BY <2>1 DEF JobInv
  <2>3. Len(<<>>) = 0 /\ Len(<<1>>) = 1 /\ <<1>> # <<>>
    OBVIOUS
  <2>4. CASE replies[r] = <<>>
    BY <2>3, <2>4 DEF Answered
  <2>5. CASE replies[r] = <<1>>
    BY <2>3, <2>5 DEF Answered
  <2> QED
    BY <2>2, <2>4, <2>5
<1> HIDE DEF Q, W, D, F
<1>5. Places(r) = Cardinality(Q) + Cardinality(W) + Len(replies[r])
                    + Cardinality(D) + Cardinality(F)
  BY DEF Places, Q, W, D, F
<1>6. SomePlace(r) /\ OnePlaceOnly(r)
  BY DEF JobInv
<1> QED
  BY <1>1, <1>2, <1>3, <1>4, <1>5, <1>6 DEF SomePlace, OnePlaceOnly

\* Until main() removes the queue every request received is at exactly one
\* place, and none is answered twice (handle_server_main(), main()).
THEOREM OneAnswerHolds == JobSpec => []OneAnswerWhileQueueLives
<1>1. JobTypeOK /\ JobInv => OneAnswerWhileQueueLives
  BY PlacesAreCounted DEF OneAnswerWhileQueueLives
<1> QED
  BY <1>1, JobInvHolds, PTL

\* As long as the queue is there no client is told ", client!" twice: a job
\* is handled once between its receipt and its reply (handle_server_main()).
THEOREM CleanRepliesHolds == JobSpec => []CleanReplies
<1>1. JobTypeOK /\ JobInv => CleanReplies
  <2> SUFFICES ASSUME JobInv, ~removed, NEW r \in Request,
                      NEW i \in DOMAIN replies[r]
               PROVE  replies[r][i] = 1
    BY DEF CleanReplies
  <2>1. replies[r] \in {<<>>, <<1>>}
    BY DEF JobInv
  <2> QED
    BY <2>1
<1> QED
  BY <1>1, JobInvHolds, PTL
=============================================================================
