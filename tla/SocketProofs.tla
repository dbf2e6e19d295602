---------------------------- MODULE SocketProofs ----------------------------
(***************************************************************************)
(* Theorems about two programs whose parties share numbers that tell too   *)
(* little of what they stand for: the job server over TCP (JobServerTCP),  *)
(* whose descriptors are given out again when they are closed, for every   *)
(* number of threads, jobs and descriptors; and ping and traceroute        *)
(* (IcmpTools), whose packets do not tell which probe they answer, for     *)
(* every way, every range of the ttl and any number of probes.             *)
(***************************************************************************)
EXTENDS JobServerTCP, IcmpTools, SequenceTheorems, FiniteSetTheorems, TLAPS

----------------------------------------------------------------------------
(* JobServerTCP                                                            *)

\* NUM_OF_REQUESTS is a number.
LEMMA RequestsNat == NUM_OF_REQUESTS \in Nat
BY JobAssumption, FS_CardinalityType DEF NUM_OF_REQUESTS

\* All jobs are of one type: the first of the queue is the one taken, and
\* the others move up.
LEMMA FirstIsTaken ==
  ASSUME NEW q \in Seq(Job), NEW i \in DOMAIN q, Selected(q, MSG_TYPE, i)
  PROVE  /\ i = 1 /\ q # <<>> /\ RemoveAt(q, i) = Tail(q)
         /\ q[1] \in Job /\ Tail(q) \in Seq(Job)
         /\ \A j \in DOMAIN Tail(q) :
              j + 1 \in DOMAIN q /\ Tail(q)[j] = q[j + 1] /\ j \in 1..Len(q)
<1>1. \A j \in DOMAIN q : Accepts(MSG_TYPE, q[j])
  <2>1. \A j \in DOMAIN q : q[j] \in Job
    OBVIOUS
  <2> QED
    BY <2>1 DEF Job, Accepts, MSG_TYPE
<1>2. i = 1 /\ q # <<>>
  BY <1>1 DEF Selected, MSG_TYPE
<1>3. RemoveAt(q, 1) = Tail(q)
  <2>1. SubSeq(q, 1, 0) = <<>> /\ SubSeq(q, 2, Len(q)) = Tail(q)
    BY <1>2
  <2>2. <<>> \o Tail(q) = Tail(q)
    BY <1>2
  <2> QED
    BY <2>1, <2>2 DEF RemoveAt
<1> QED
  BY <1>2, <1>3

\* No step takes a variable out of its range.
LEMMA TypeStep == TypeOK /\ [Next]_vars => TypeOK'
<1> SUFFICES ASSUME TypeOK, [Next]_vars PROVE TypeOK'
  OBVIOUS
<1> USE JobAssumption, RequestsNat DEF TypeOK, FD
<1>1. CASE Accept
  <2>1. PICK fd \in FD \ open :
          /\ open' = open \cup {fd}
          /\ \/ dropped' = dropped \cup {fd} /\ UNCHANGED queue
             \/ /\ queue' = Append(queue, [mtype |-> MSG_TYPE, socket |-> fd])
                /\ UNCHANGED dropped
    BY <1>1 DEF Accept
  <2>2. queue' \in Seq(Job)
    <3>1. [mtype |-> MSG_TYPE, socket |-> fd] \in Job
      BY DEF Job
    <3>2. Append(queue, [mtype |-> MSG_TYPE, socket |-> fd]) \in Seq(Job)
      BY <3>1, AppendProperties
    <3> QED
      BY <2>1, <3>2
  <2>3. open' \subseteq FD /\ dropped' \subseteq open'
    BY <2>1
  <2> QED
    BY <1>1, <2>2, <2>3 DEF Accept
<1>2. CASE AcceptFails
  BY <1>2 DEF AcceptFails, ProcessExits
<1>3. CASE Join
  BY <1>3 DEF Join
<1>4. CASE Restart
  BY <1>4 DEF Restart, NoSocket
<1>5. ASSUME NEW w \in Worker, Receive(w) PROVE TypeOK'
  <2>1. PICK i \in DOMAIN queue :
          /\ Selected(queue, MSG_TYPE, i)
          /\ socket' = [socket EXCEPT ![w] = queue[i].socket]
          /\ queue' = RemoveAt(queue, i)
    BY <1>5 DEF Receive
  <2>2. queue[i] \in Job /\ queue' \in Seq(Job)
    BY <2>1, FirstIsTaken
  <2>3. socket' \in [Worker -> FD \cup {NoSocket}]
    BY <2>1, <2>2 DEF Job
  <2> QED
    BY <1>5, <2>2, <2>3 DEF Receive, Goto
<1>6. ASSUME NEW w \in Worker, Read(w) \/ Handle(w) PROVE TypeOK'
  BY <1>6 DEF Read, Handle, Goto
<1>7. ASSUME NEW w \in Worker, Reply(w) \/ Error(w) PROVE TypeOK'
  <2>1. handled[w] + 1 \in 0..HANDLE_REQUESTS
    BY <1>7 DEF Reply, Error, Busy
  <2>2. handled' = handled \/ handled' = [handled EXCEPT ![w] = @ + 1]
    BY <1>7 DEF Reply, Error
  <2>3. open' \subseteq FD /\ dropped' \subseteq open'
    BY <1>7 DEF Reply, Error, Close
  <2>4. \E s \in {"W_STATE", "E_STATE"} : Goto(w, s)
    BY <1>7 DEF Reply, Error
  <2>5. UNCHANGED <<run, main, it, queue, socket>>
    BY <1>7 DEF Reply, Error
  <2> QED
    BY <2>1, <2>2, <2>3, <2>4, <2>5 DEF Goto
<1>8. ASSUME NEW w \in Worker, ThreadEnds(w) PROVE TypeOK'
  BY <1>8 DEF ThreadEnds, ProcessExits
<1>9. CASE UNCHANGED vars
  BY <1>9 DEF vars
<1> QED
  BY <1>1, <1>2, <1>3, <1>4, <1>5, <1>6, <1>7, <1>8, <1>9
     DEF Next, Work

\* The variables stay in their ranges.
THEOREM TypeCorrect == Spec => []TypeOK
<1>1. Init => TypeOK
  BY JobAssumption, RequestsNat DEF Init, TypeOK, NoSocket
<1> QED
  BY <1>1, TypeStep, PTL DEF Spec

\* In the first run every connection has one owner: a descriptor accept()
\* gives out is free, so neither the queue nor a worker has it, and a worker
\* closes the descriptor only when it is done with it.
THEOREM OneOwnerHolds == Spec => []OneOwner
<1> USE DEF OneOwner, Alive, Holds
<1>1. Init => OneOwner
  BY DEF Init
<1>2. TypeOK /\ OneOwner /\ [Next]_vars => OneOwner'
  <2> SUFFICES ASSUME TypeOK, OneOwner, [Next]_vars, run' = 1,
                      main' # "exited"
               PROVE  OneOwner'
    OBVIOUS
  <2>0. run = 1 /\ main # "exited" /\ ~Restart
    BY JobAssumption DEF Next, Accept, AcceptFails, Join, Restart, Work,
       Receive, Read, Handle, Reply, Error, ThreadEnds, ProcessExits, Busy,
       vars, TypeOK
  <2>1. CASE Accept
    <3>1. PICK fd \in FD \ open :
            /\ open' = open \cup {fd}
            /\ \/ dropped' = dropped \cup {fd} /\ UNCHANGED queue
               \/ /\ queue' = Append(queue,
                                     [mtype |-> MSG_TYPE, socket |-> fd])
                  /\ UNCHANGED dropped
      BY <2>1 DEF Accept
    <3>2. UNCHANGED <<statement, socket>>
      BY <2>1 DEF Accept
    <3>3. fd \notin dropped /\ open \ dropped \subseteq open' \ dropped'
      BY <3>1 DEF TypeOK
    <3>4. CASE UNCHANGED queue
      BY <2>0, <3>2, <3>3, <3>4
    <3>5. CASE /\ queue' = Append(queue, [mtype |-> MSG_TYPE, socket |-> fd])
               /\ UNCHANGED dropped
      <4>1. /\ DOMAIN queue' = 1..(Len(queue) + 1)
            /\ DOMAIN queue = 1..Len(queue) /\ Len(queue) \in Nat
            /\ queue'[Len(queue) + 1].socket = fd
            /\ \A i \in DOMAIN queue : queue'[i] = queue[i]
        BY <3>5 DEF TypeOK
      <4>2. \A i \in DOMAIN queue' : i \in DOMAIN queue \/ i = Len(queue) + 1
        BY <4>1
      <4>3. fd \in open' \ dropped'
        BY <3>1, <3>3, <3>5
      <4> QED
        BY <2>0, <3>1, <3>2, <3>3, <4>1, <4>2, <4>3
    <3> QED
      BY <3>1, <3>4, <3>5
  <2>2. ASSUME NEW w \in Worker, Receive(w) PROVE OneOwner'
    <3>1. /\ queue # <<>> /\ queue' = Tail(queue) /\ 1 \in DOMAIN queue
          /\ socket' = [socket EXCEPT ![w] = queue[1].socket]
          /\ \A j \in DOMAIN queue' :
               /\ j + 1 \in DOMAIN queue /\ queue'[j] = queue[j + 1]
               /\ j \in 1..Len(queue)
      <4>1. PICK i \in DOMAIN queue :
              /\ Selected(queue, MSG_TYPE, i)
              /\ socket' = [socket EXCEPT ![w] = queue[i].socket]
              /\ queue' = RemoveAt(queue, i)
        BY <2>2 DEF Receive
      <4>2. queue \in Seq(Job)
        BY DEF TypeOK
      <4>3. i = 1 /\ queue # <<>> /\ RemoveAt(queue, i) = Tail(queue)
        BY <4>1, <4>2, FirstIsTaken
      <4>4. \A j \in DOMAIN Tail(queue) :
               /\ j + 1 \in DOMAIN queue /\ Tail(queue)[j] = queue[j + 1]
               /\ j \in 1..Len(queue)
        BY <4>1, <4>2, FirstIsTaken
      <4> QED
        BY <4>1, <4>3, <4>4
    <3>2. \A j \in DOMAIN queue' : queue'[j].socket # queue[1].socket
      <4> SUFFICES ASSUME NEW j \in DOMAIN queue',
                          queue'[j].socket = queue[1].socket
                   PROVE  FALSE
        OBVIOUS
      <4>1. j + 1 = 1
        BY <2>0, <3>1
      <4> QED
        BY <3>1, <4>1
    <3>3. \A j, k \in DOMAIN queue' :
             queue'[j].socket = queue'[k].socket => j = k
      <4> SUFFICES ASSUME NEW j \in DOMAIN queue', NEW k \in DOMAIN queue',
                          queue'[j].socket = queue'[k].socket
                   PROVE  j = k
        OBVIOUS
      <4>1. j + 1 = k + 1
        BY <2>0, <3>1
      <4> QED
        BY <3>1, <4>1
    <3>4. UNCHANGED <<open, dropped>>
      BY <2>2 DEF Receive
    <3>5. \A v \in Worker : Holds(v)' =>
             \/ v = w /\ socket'[v] = queue[1].socket
             \/ v # w /\ Holds(v) /\ socket'[v] = socket[v]
      BY <2>2, <3>1 DEF Receive, Goto, TypeOK
    <3> QED
      BY <2>0, <3>1, <3>2, <3>3, <3>4, <3>5
  <2>3. ASSUME NEW w \in Worker, Read(w) \/ Handle(w) PROVE OneOwner'
    <3>1. \A v \in Worker : Holds(v)' => Holds(v)
      BY <2>3 DEF Read, Handle, Busy, Goto, TypeOK
    <3>2. UNCHANGED <<open, dropped, queue, socket>>
      BY <2>3 DEF Read, Handle
    <3> QED
      BY <2>0, <3>1, <3>2
  <2>4. ASSUME NEW w \in Worker, Reply(w) \/ Error(w) PROVE OneOwner'
    <3>1. /\ UNCHANGED <<queue, socket>>
          /\ Holds(w)
      BY <2>4 DEF Reply, Error, Busy
    <3>2. CASE UNCHANGED <<open, dropped>>
      <4>1. \A v \in Worker : Holds(v)' => Holds(v)
        BY <2>4, <3>1 DEF Reply, Error, Busy, Goto, TypeOK
      <4> QED
        BY <2>0, <3>1, <3>2, <4>1
    <3>3. CASE Close(socket[w]) /\ Goto(w, "W_STATE")
      <4>1. \A v \in Worker : Holds(v)' => Holds(v) /\ v # w
        BY <3>3 DEF Goto, TypeOK
      <4>2. \A fd \in open \ dropped :
               fd # socket[w] => fd \in open' \ dropped'
        BY <3>3 DEF Close
      <4> QED
        BY <2>0, <3>1, <4>1, <4>2
    <3> QED
      BY <2>4, <3>2, <3>3 DEF Reply, Error
  <2>5. CASE Join \/ UNCHANGED vars
    BY <2>0, <2>5 DEF Join, vars
  <2>6. ~AcceptFails /\ \A w \in Worker : ~ThreadEnds(w)
    BY DEF AcceptFails, ThreadEnds, ProcessExits
  <2> QED
    BY <2>0, <2>1, <2>2, <2>3, <2>4, <2>5, <2>6 DEF Next, Work
<1> QED
  BY <1>1, <1>2, TypeCorrect, PTL DEF Spec
----------------------------------------------------------------------------
(* IcmpTools: what is under way and what has come.                         *)

Packet == [type : {"reply", "exceeded", "unreachable", "echo", "none"},
           src : 0..DISTANCE + 1]
Probe  == [from : Tool, n : Nat, ttl : Nat]

IcmpTypeOK ==
  /\ setting \in Setting
  /\ pc \in [Tool -> {"send", "recv", "done", "failed"}]
  /\ \A p \in Tool : p \notin setting.running => pc[p] = "done"
  /\ ttl \in [Tracer -> Nat]
  /\ point \in [Tracer -> 0..DISTANCE + 1]
  /\ lines \in [Tool -> Seq(Packet)]
  /\ flight \subseteq Probe
  /\ inbox \in [Tool -> Seq(Packet)]
  /\ noise \in Nat

\* A traceroute running alone: the points it has sent its probes to, and
\* those its answers can tell of, lie no farther than the line it writes next;
\* and an answer that tells of no way comes from a router that refuses.
TraceOK(p) ==
  LET next == Len(lines[p]) + 1
  IN  /\ ttl[p] <= next /\ point[p] <= next
      /\ \A probe \in flight : probe.ttl <= next
      /\ \A i \in DOMAIN inbox[p] :
           \E t \in Nat : inbox[p][i] = AnswerTo(t) /\ Reach(t) <= next
      /\ \A k \in DOMAIN lines[p] : lines[p][k].src <= k
      /\ pc[p] = "done" =>
           /\ lines[p] # <<>>
           /\ lines[p][Len(lines[p])].src \in setting.refusing \cup {DISTANCE}
TraceInv == \A p \in Tracer : Alone(p) /\ Quiet => TraceOK(p)

\* Answers that come in time: a tool running alone has one probe under way,
\* or its answer, while it waits, and nothing else.
Awaited(p) == AnswerTo(IF p \in Tracer THEN ttl[p] ELSE PING_TTL)
OneOut(p) ==
  /\ pc[p] = "send" => flight = {} /\ inbox[p] = <<>>
  /\ pc[p] = "recv" =>
       \/ /\ inbox[p] = <<>>
          /\ \E probe \in Probe : /\ flight = {probe} /\ probe.from = p
                                  /\ AnswerTo(probe.ttl) = Awaited(p)
       \/ /\ flight = {} /\ inbox[p] = <<>>
          /\ Awaited(p).src \in setting.silent
       \/ /\ flight = {} /\ inbox[p] = <<Awaited(p)>>
          /\ Awaited(p).src \notin setting.silent

\* What a traceroute has seen of the points up to its k-th line.
TraceSoFar(p) ==
  /\ Open(p) /\ Len(lines[p]) + 1 < TTL_SPACE => ttl[p] = Len(lines[p]) + 1
  /\ Open(p) /\ Len(lines[p]) < TTL_SPACE =>
       LastUpTo(Len(lines[p]), point[p])
  /\ Open(p) => point[p] # FarEnd
  /\ \A k \in DOMAIN lines[p] :
       /\ k < TTL_SPACE => LastUpTo(k, lines[p][k].src)
       /\ Open(p) \/ k < Len(lines[p]) => lines[p][k].src # FarEnd

PingLine == IF AnswerTo(PING_TTL).src \in setting.silent
            THEN [type |-> "none", src |-> Garbage] ELSE AnswerTo(PING_TTL)
WayInv ==
  \A p \in Tool : setting.prompt /\ Alone(p) /\ Quiet =>
    /\ OneOut(p)
    /\ p \in Tracer => TraceSoFar(p)
    /\ p \in Pinger => \A k \in DOMAIN lines[p] : lines[p][k] = PingLine

----------------------------------------------------------------------------
\* How a probe's answer depends on its ttl: it tells of a point of the way,
\* no farther than the ttl, and of a refusal only where there is one.
LEMMA AnswerIsNear ==
  ASSUME IcmpTypeOK, NEW t \in Nat
  PROVE  /\ AnswerTo(t) \in Packet
         /\ AnswerTo(t).src \in 1..DISTANCE
         /\ AnswerTo(t).type \in {"reply", "exceeded", "unreachable"}
         /\ AnswerTo(t).src <= Reach(t)
         /\ Reach(t) \in 1..DISTANCE /\ Reach(t) \in Nat
         /\ Reach(t) <= t \/ Reach(t) = 1
         /\ AnswerTo(t).type = "unreachable" =>
              AnswerTo(t).src \in setting.refusing
<1>1. DISTANCE \in Nat /\ DISTANCE > 0
  BY IcmpAssumption
<1>2. Reach(t) \in 1..DISTANCE /\ (Reach(t) <= t \/ Reach(t) = 1)
  BY <1>1 DEF Reach
<1>3. \A b \in setting.refusing : b \in 1..DISTANCE - 1
  BY DEF IcmpTypeOK, Setting
<1>4. CASE Refuser(t) # {}
  <2> DEFINE b == CHOOSE b \in Refuser(t) : TRUE
  <2>1. b \in Refuser(t)
    BY <1>4
  <2>2. b \in setting.refusing /\ b \in 1..DISTANCE - 1 /\ b <= Reach(t)
    BY <1>3, <2>1 DEF Refuser
  <2>3. AnswerTo(t) = [type |-> "unreachable", src |-> b]
    BY <1>4 DEF AnswerTo
  <2> HIDE DEF b
  <2> QED
    BY <1>1, <1>2, <2>2, <2>3 DEF Packet
<1>5. CASE Refuser(t) = {}
  <2>1. AnswerTo(t) =
          [type |-> IF Reach(t) = DISTANCE THEN "reply" ELSE "exceeded",
           src |-> Reach(t)]
    BY <1>5 DEF AnswerTo
  <2> QED
    BY <1>1, <1>2, <2>1 DEF Packet
<1> QED
  BY <1>4, <1>5

\* A larger ttl brings an answer from no nearer point.
LEMMA AnswersMoveOn ==
  ASSUME IcmpTypeOK, NEW t \in Nat, NEW u \in Nat, t <= u
  PROVE  AnswerTo(t).src <= AnswerTo(u).src
<1>1. DISTANCE \in Nat /\ DISTANCE > 0
  BY IcmpAssumption
<1>2. Reach(t) \in Nat /\ Reach(u) \in Nat /\ Reach(t) <= Reach(u)
  BY <1>1 DEF Reach
<1>3. \A b \in setting.refusing : b \in Nat
  BY DEF IcmpTypeOK, Setting
<1>4. \A b \in Refuser(t) : b \in Refuser(u)
  BY <1>2, <1>3 DEF Refuser
<1>5. \A b, c \in Refuser(u) : b = c
  BY <1>2, <1>3 DEF Refuser
<1>6. \A b \in Refuser(u) : b \in Nat /\ (b \notin Refuser(t) => Reach(t) <= b)
  BY <1>2, <1>3 DEF Refuser
<1>7. \A x \in Nat : AnswerTo(x).src =
        IF Refuser(x) # {} THEN CHOOSE b \in Refuser(x) : TRUE ELSE Reach(x)
  BY DEF AnswerTo
<1>8. CASE Refuser(t) # {}
  <2>1. /\ (CHOOSE b \in Refuser(t) : TRUE) \in Refuser(t)
        /\ (CHOOSE b \in Refuser(u) : TRUE) \in Refuser(u)
    BY <1>4, <1>8
  <2> QED
    BY <1>4, <1>5, <1>6, <1>7, <1>8, <2>1
<1>9. CASE Refuser(t) = {} /\ Refuser(u) # {}
  <2>1. (CHOOSE b \in Refuser(u) : TRUE) \in Refuser(u)
    BY <1>9
  <2> QED
    BY <1>6, <1>7, <1>9, <2>1
<1>10. CASE Refuser(t) = {} /\ Refuser(u) = {}
  BY <1>2, <1>7, <1>10
<1> QED
  BY <1>4, <1>8, <1>9, <1>10

\* A packet that arrives is added to the sockets.
LEMMA Arriving ==
  ASSUME IcmpTypeOK, NEW packet \in Packet, Arrives(packet)
  PROVE  /\ inbox' \in [Tool -> Seq(Packet)]
         /\ \A p \in Tool : \A i \in DOMAIN inbox'[p] :
              \/ inbox'[p][i] = packet
              \/ i \in DOMAIN inbox[p] /\ inbox'[p][i] = inbox[p][i]
<1>1. inbox' = [p \in Tool |-> IF Open(p) THEN Append(inbox[p], packet)
                                          ELSE inbox[p]]
  BY DEF Arrives
<1>2. \A p \in Tool : inbox[p] \in Seq(Packet)
  BY DEF IcmpTypeOK
<1>3. \A q \in Seq(Packet) :
        /\ Append(q, packet) \in Seq(Packet)
        /\ \A i \in DOMAIN Append(q, packet) :
             \/ Append(q, packet)[i] = packet
             \/ i \in DOMAIN q /\ Append(q, packet)[i] = q[i]
  OBVIOUS
<1> QED
  BY <1>1, <1>2, <1>3

\* A tool that reads takes the first packet out of its socket.
LEMMA TakingOut ==
  ASSUME IcmpTypeOK, NEW p \in Tool, Takes(p)
  PROVE  /\ inbox' \in [Tool -> Seq(Packet)]
         /\ inbox[p] # <<>> /\ Head(inbox[p]) = inbox[p][1]
         /\ Head(inbox[p]) \in Packet
         /\ 1 \in DOMAIN inbox[p]
         /\ \A q \in Tool : \A i \in DOMAIN inbox'[q] :
              \E j \in DOMAIN inbox[q] : inbox'[q][i] = inbox[q][j]
<1>1. inbox' = [inbox EXCEPT ![p] = Tail(@)] /\ inbox[p] # <<>>
  BY DEF Takes
<1>2. \A q \in Tool : inbox[q] \in Seq(Packet)
  BY DEF IcmpTypeOK
<1>3. ASSUME NEW q \in Seq(Packet), q # <<>>
      PROVE  /\ Tail(q) \in Seq(Packet) /\ Head(q) \in Packet
             /\ Head(q) = q[1] /\ 1 \in DOMAIN q
             /\ \A i \in DOMAIN Tail(q) : \E j \in DOMAIN q : Tail(q)[i] = q[j]
  <2>1. \A i \in DOMAIN Tail(q) : i + 1 \in DOMAIN q /\ Tail(q)[i] = q[i + 1]
    BY <1>3
  <2> QED
    BY <1>3, <2>1
<1>4. inbox \in [Tool -> Seq(Packet)]
  BY DEF IcmpTypeOK
<1>5. inbox' \in [Tool -> Seq(Packet)]
  BY <1>1, <1>2, <1>3, <1>4
<1>6. ASSUME NEW q \in Tool, NEW i \in DOMAIN inbox'[q]
      PROVE  \E j \in DOMAIN inbox[q] : inbox'[q][i] = inbox[q][j]
  BY <1>1, <1>2, <1>3, <1>4, <1>6
<1> QED
  BY <1>1, <1>2, <1>3, <1>5, <1>6

\* A printed line is added to the others.
LEMMA Printing ==
  ASSUME IcmpTypeOK, NEW p \in Tool, NEW line \in Packet, Prints(p, line)
  PROVE  /\ lines' \in [Tool -> Seq(Packet)]
         /\ lines' = [lines EXCEPT ![p] = Append(lines[p], line)]
         /\ Len(lines[p]) \in Nat /\ Len(lines'[p]) = Len(lines[p]) + 1
         /\ lines'[p][Len(lines'[p])] = line
         /\ \A i \in DOMAIN lines'[p] :
              \/ i \in DOMAIN lines[p] /\ lines'[p][i] = lines[p][i]
              \/ i = Len(lines[p]) + 1 /\ lines'[p][i] = line
<1>1. lines' = [lines EXCEPT ![p] = Append(lines[p], line)]
  BY DEF Prints
<1>2. lines \in [Tool -> Seq(Packet)] /\ lines[p] \in Seq(Packet)
  BY DEF IcmpTypeOK
<1>3. lines'[p] = Append(lines[p], line)
  BY <1>1, <1>2
<1> QED
  BY <1>1, <1>2, <1>3

\* No step takes a variable out of its range.
LEMMA IcmpTypeStep == IcmpTypeOK /\ [IcmpNext]_icmpVars => IcmpTypeOK'
<1> SUFFICES ASSUME IcmpTypeOK, [IcmpNext]_icmpVars PROVE IcmpTypeOK'
  OBVIOUS
<1>t. /\ setting \in Setting
      /\ pc \in [Tool -> {"send", "recv", "done", "failed"}]
      /\ \A p \in Tool : p \notin setting.running => pc[p] = "done"
      /\ ttl \in [Tracer -> Nat]
      /\ point \in [Tracer -> 0..DISTANCE + 1]
      /\ lines \in [Tool -> Seq(Packet)]
      /\ flight \subseteq Probe
      /\ inbox \in [Tool -> Seq(Packet)]
      /\ noise \in Nat
      /\ \A p \in Tool : lines[p] \in Seq(Packet)
  BY DEF IcmpTypeOK
<1>c. /\ DISTANCE \in Nat /\ PING_TTL \in Nat /\ TTL_SPACE \in Nat
      /\ TTL_SPACE > 0 /\ Pinger \subseteq Tool /\ Tracer \subseteq Tool
  BY IcmpAssumption DEF Tool
<1>1. CASE Answer
  <2>1. PICK probe \in flight :
          /\ flight' = flight \ {probe}
          /\ UNCHANGED inbox \/ Arrives(AnswerTo(probe.ttl))
    BY <1>1 DEF Answer
  <2>2. probe.ttl \in Nat
    BY <1>t DEF Probe
  <2>3. inbox' \in [Tool -> Seq(Packet)]
    BY <1>t, <2>1, <2>2, AnswerIsNear, Arriving
  <2> QED
    BY <1>1, <1>t, <2>1, <2>3 DEF Answer, IcmpTypeOK
<1>2. CASE Lose
  BY <1>2, <1>t DEF Lose, IcmpTypeOK
<1>3. CASE Noise
  <2>1. PICK type \in {"echo", "unreachable"} :
          Arrives([type |-> type, src |-> Stranger])
    BY <1>3 DEF Noise
  <2>2. [type |-> type, src |-> Stranger] \in Packet
    BY <1>c DEF Packet, Stranger
  <2>3. inbox' \in [Tool -> Seq(Packet)]
    BY <2>1, <2>2, Arriving
  <2> QED
    BY <1>3, <1>t, <2>3 DEF Noise, IcmpTypeOK
<1>4. ASSUME NEW p \in Tool, NEW t \in Nat, Sends(p, t) PROVE IcmpTypeOK'
  <2>1. [from |-> p, n |-> Len(lines[p]) + 1, ttl |-> t] \in Probe
    BY <1>t DEF Probe
  <2>2. flight' \subseteq Probe
    BY <1>4, <1>t, <2>1 DEF Sends
  <2> QED
    BY <1>4, <1>t, <2>2 DEF Sends, IcmpTypeOK
<1>5. ASSUME NEW p \in Tool, Takes(p), UNCHANGED <<lines, pc, ttl>>,
             \/ UNCHANGED point
             \/ point' = [point EXCEPT ![p] = Head(inbox[p]).src]
      PROVE  IcmpTypeOK'
  <2>1. Head(inbox[p]).src \in 0..DISTANCE + 1
    BY <1>5, TakingOut DEF Packet
  <2>2. point' \in [Tracer -> 0..DISTANCE + 1]
    BY <1>5, <1>t, <2>1
  <2>3. inbox' \in [Tool -> Seq(Packet)]
    BY <1>5, TakingOut
  <2> QED
    BY <1>5, <1>t, <2>2, <2>3 DEF Takes, IcmpTypeOK
<1>6. ASSUME NEW p \in Tool, NEW line \in Packet, Prints(p, line),
             pc[p] = "recv",
             pc' \in {[pc EXCEPT ![p] = s] : s \in {"send", "done"}},
             ttl' \in [Tracer -> Nat],
             point' \in [Tracer -> 0..DISTANCE + 1],
             inbox' \in [Tool -> Seq(Packet)],
             UNCHANGED <<setting, flight, noise>>
      PROVE  IcmpTypeOK'
  <2>1. lines' \in [Tool -> Seq(Packet)]
    BY <1>6, Printing
  <2> QED
    BY <1>6, <1>t, <2>1 DEF IcmpTypeOK
<1>7. ASSUME NEW p \in Pinger, PingReceives(p) PROVE IcmpTypeOK'
  <2>1. Takes(p) /\ pc[p] = "recv" /\ UNCHANGED <<setting, flight, noise>>
    BY <1>7 DEF PingReceives, Takes
  <2>2. Head(inbox[p]) \in Packet /\ inbox' \in [Tool -> Seq(Packet)]
    BY <1>c, <2>1, TakingOut
  <2> QED
    BY <1>7, <1>5, <1>6, <1>c, <1>t, <2>1, <2>2 DEF PingReceives, NextPing
<1>8. ASSUME NEW p \in Pinger, PingTimesOut(p) PROVE IcmpTypeOK'
  <2>1. [type |-> "none", src |-> Garbage] \in Packet
    BY <1>c DEF Packet, Garbage
  <2> QED
    BY <1>8, <1>6, <1>c, <1>t, <2>1 DEF PingTimesOut, NextPing, TimesOut,
       network
<1>9. ASSUME NEW p \in Tracer, TraceReceives(p) PROVE IcmpTypeOK'
  <2> DEFINE input == Head(inbox[p])
  <2>1. /\ Takes(p) /\ pc[p] = "recv" /\ UNCHANGED <<setting, flight, noise>>
        /\ point' = [point EXCEPT ![p] = input.src]
    BY <1>9 DEF TraceReceives, Takes
  <2>2. input \in Packet /\ inbox' \in [Tool -> Seq(Packet)]
    BY <1>c, <2>1, TakingOut
  <2>3. point' \in [Tracer -> 0..DISTANCE + 1]
    BY <1>t, <2>1, <2>2 DEF Packet
  <2>4. [ttl EXCEPT ![p] = NextTtl(@)] \in [Tracer -> Nat]
    BY <1>c, <1>t DEF NextTtl
  <2>5. \/ UNCHANGED <<lines, pc, ttl>>
        \/ /\ Prints(p, input)
           /\ pc' \in {[pc EXCEPT ![p] = s] : s \in {"send", "done"}}
           /\ ttl' = ttl \/ ttl' = [ttl EXCEPT ![p] = NextTtl(@)]
    BY <1>9 DEF TraceReceives
  <2> QED
    BY <1>5, <1>6, <1>c, <1>t, <2>1, <2>2, <2>3, <2>4, <2>5
<1>10. ASSUME NEW p \in Tracer, TraceTimesOut(p) PROVE IcmpTypeOK'
  <2>1. [type |-> "none", src |-> point[p]] \in Packet
    BY <1>c, <1>t DEF Packet
  <2>2. [ttl EXCEPT ![p] = NextTtl(@)] \in [Tracer -> Nat]
    BY <1>c, <1>t DEF NextTtl
  <2> QED
    BY <1>10, <1>6, <1>c, <1>t, <2>1, <2>2 DEF TraceTimesOut, TimesOut,
       network
<1>11. ASSUME NEW p \in Tool, Fail(p) PROVE IcmpTypeOK'
  BY <1>11, <1>t DEF Fail, Open, network, IcmpTypeOK
<1>12. CASE UNCHANGED icmpVars
  BY <1>12, <1>t DEF icmpVars, network, IcmpTypeOK
<1>13. ASSUME NEW p \in Tool, Run(p) PROVE IcmpTypeOK'
  BY <1>4, <1>7, <1>8, <1>9, <1>10, <1>13, <1>c, <1>t
     DEF Run, SendPing, SendProbe, PingReceives, PingTimesOut, TraceReceives,
         TraceTimesOut
<1> QED
  BY <1>1, <1>2, <1>3, <1>11, <1>12, <1>13 DEF IcmpNext

\* The variables begin in their ranges.
LEMMA IcmpTypeInit == IcmpInit => IcmpTypeOK
<1> SUFFICES ASSUME IcmpInit PROVE IcmpTypeOK
  OBVIOUS
<1>1. setting \in Setting /\ DISTANCE \in Nat
  BY IcmpAssumption DEF IcmpInit
<1>2. /\ pc \in [Tool -> {"send", "recv", "done", "failed"}]
      /\ \A p \in Tool : p \notin setting.running => pc[p] = "done"
  BY DEF IcmpInit
<1>3. ttl \in [Tracer -> Nat] /\ point \in [Tracer -> 0..DISTANCE + 1]
  BY <1>1 DEF IcmpInit, Garbage
<1>4. lines \in [Tool -> Seq(Packet)] /\ inbox \in [Tool -> Seq(Packet)]
  BY DEF IcmpInit
<1>5. flight = {} /\ noise = 0
  BY DEF IcmpInit
<1> QED
  BY <1>1, <1>2, <1>3, <1>4, <1>5 DEF IcmpTypeOK

\* Only the tool that runs alone acts.
LEMMA LonelyStep ==
  ASSUME IcmpTypeOK, NEW p \in Tool, Alone(p)', noise' = 0,
         [IcmpNext]_icmpVars
  PROVE  /\ noise = 0 /\ UNCHANGED setting /\ Alone(p)
         /\ Answer \/ Lose \/ Run(p) \/ Fail(p) \/ UNCHANGED icmpVars
<1>1. noise \in Nat
  BY DEF IcmpTypeOK
<1>2. UNCHANGED setting
  BY DEF IcmpNext, Answer, Lose, Noise, Run, Fail, SendPing, SendProbe, Sends,
     PingReceives, TraceReceives, Takes, PingTimesOut, TraceTimesOut,
     TimesOut, icmpVars
<1>3. ~Noise
  BY <1>1 DEF Noise
<1>4. noise = 0
  BY <1>3 DEF IcmpNext, Answer, Lose, Run, Fail, SendPing, SendProbe, Sends,
     PingReceives, TraceReceives, Takes, PingTimesOut, TraceTimesOut,
     TimesOut, icmpVars, network
<1>5. \A q \in Tool : Open(q) => q = p
  BY <1>2 DEF Alone, Open, IcmpTypeOK
<1>6. \A q \in Tool : Run(q) \/ Fail(q) => Open(q)
  BY DEF Open, Run, Fail, SendPing, SendProbe, Sends, PingReceives,
     TraceReceives, Takes, PingTimesOut, TraceTimesOut, TimesOut
<1> QED
  BY <1>2, <1>3, <1>4, <1>5, <1>6 DEF Alone, IcmpNext

\* Whatever is late or lost.
LEMMA TraceStep ==
  IcmpTypeOK /\ TraceInv /\ [IcmpNext]_icmpVars => TraceInv'
<1> SUFFICES ASSUME IcmpTypeOK, TraceInv, [IcmpNext]_icmpVars,
                    NEW p \in Tracer, Alone(p)', noise' = 0
             PROVE  TraceOK(p)'
  BY DEF TraceInv, Quiet
<1>0. p \in Tool /\ p \notin Pinger
  BY IcmpAssumption DEF Tool
<1>1. /\ noise = 0 /\ UNCHANGED setting /\ Alone(p)
      /\ Answer \/ Lose \/ Run(p) \/ Fail(p) \/ UNCHANGED icmpVars
  BY <1>0, LonelyStep
<1>i. TraceOK(p)
  BY <1>1 DEF TraceInv, Quiet
<1>t. /\ pc \in [Tool -> {"send", "recv", "done", "failed"}]
      /\ ttl \in [Tracer -> Nat] /\ point \in [Tracer -> 0..DISTANCE + 1]
      /\ lines[p] \in Seq(Packet) /\ Len(lines[p]) \in Nat
      /\ DISTANCE \in Nat /\ TTL_SPACE \in Nat /\ TTL_SPACE > 0
  BY <1>0, IcmpAssumption DEF IcmpTypeOK
<1>a. \A t \in Nat : AnswerTo(t)' = AnswerTo(t) /\ Reach(t)' = Reach(t)
  BY <1>1 DEF AnswerTo, Refuser, Reach
<1>2. CASE Answer
  <2>1. PICK probe \in flight :
          /\ flight' = flight \ {probe}
          /\ UNCHANGED inbox \/ Arrives(AnswerTo(probe.ttl))
          /\ UNCHANGED <<pc, ttl, point, lines>>
    BY <1>2 DEF Answer
  <2>2. probe.ttl \in Nat
    BY DEF IcmpTypeOK, Probe
  <2>3. Reach(probe.ttl) <= Len(lines[p]) + 1
    <3>1. probe.ttl <= Len(lines[p]) + 1
      BY <1>i, <2>1 DEF TraceOK
    <3>2. /\ Reach(probe.ttl) <= probe.ttl \/ Reach(probe.ttl) = 1
          /\ Reach(probe.ttl) \in Nat
      BY <2>2, AnswerIsNear
    <3> QED
      BY <1>t, <2>2, <3>1, <3>2
  <2>4. \A i \in DOMAIN inbox'[p] :
          \/ inbox'[p][i] = AnswerTo(probe.ttl)
          \/ i \in DOMAIN inbox[p] /\ inbox'[p][i] = inbox[p][i]
    BY <1>0, <2>1, <2>2, AnswerIsNear, Arriving
  <2>5. \A i \in DOMAIN inbox'[p] :
          \E t \in Nat : /\ inbox'[p][i] = AnswerTo(t)
                         /\ Reach(t) <= Len(lines[p]) + 1
    BY <1>i, <2>2, <2>3, <2>4 DEF TraceOK
  <2> QED
    BY <1>1, <1>a, <1>i, <2>1, <2>5 DEF TraceOK
<1>3. CASE Lose
  <2>1. flight' \subseteq flight /\ UNCHANGED <<pc, ttl, point, lines, inbox>>
    BY <1>3 DEF Lose
  <2> QED
    BY <1>1, <1>a, <1>i, <2>1 DEF TraceOK
<1>4. CASE SendProbe(p)
  <2>1. /\ UNCHANGED <<ttl, point, lines, inbox>>
        /\ pc' = [pc EXCEPT ![p] = "recv"]
        /\ flight' = flight \cup
             {[from |-> p, n |-> Len(lines[p]) + 1, ttl |-> ttl[p]]}
    BY <1>4 DEF SendProbe, Sends
  <2>2. \A probe \in flight' : probe \in flight \/ probe.ttl = ttl[p]
    BY <2>1
  <2>3. pc'[p] = "recv"
    BY <1>0, <1>t, <2>1
  <2> QED
    BY <1>1, <1>a, <1>i, <2>1, <2>2, <2>3 DEF TraceOK
<1>p. ASSUME NEW line \in Packet, Prints(p, line), pc[p] = "recv",
             line.src <= Len(lines[p]) + 1,
             pc'[p] = "done" => line.src \in setting.refusing \cup {DISTANCE},
             ttl'[p] <= ttl[p] + 1, ttl'[p] \in Nat,
             point'[p] = line.src,
             UNCHANGED flight,
             \A i \in DOMAIN inbox'[p] :
               \E j \in DOMAIN inbox[p] : inbox'[p][i] = inbox[p][j]
      PROVE  TraceOK(p)'
  <2>1. /\ Len(lines'[p]) = Len(lines[p]) + 1
        /\ lines'[p] \in Seq(Packet) /\ lines'[p] # <<>>
        /\ lines'[p][Len(lines'[p])] = line
        /\ \A i \in DOMAIN lines'[p] :
             \/ i \in DOMAIN lines[p] /\ lines'[p][i] = lines[p][i]
             \/ i = Len(lines[p]) + 1 /\ lines'[p][i] = line
    <3>1. Len(<<>>) = 0
      OBVIOUS
    <3> QED
      BY <1>0, <1>p, <1>t, <3>1, Printing
  <2>2. line.src \in Nat /\ ttl[p] \in Nat
    BY <1>p, <1>t DEF Packet
  <2>3. ttl'[p] <= Len(lines'[p]) + 1 /\ point'[p] <= Len(lines'[p]) + 1
    BY <1>i, <1>p, <1>t, <2>1, <2>2, SMTT(30) DEF TraceOK
  <2>4. \A probe \in flight' : probe.ttl <= Len(lines'[p]) + 1
    BY <1>i, <1>p, <1>t, <2>1, SMTT(30) DEF TraceOK, IcmpTypeOK, Probe
  <2>5. \A i \in DOMAIN inbox'[p] : \E t \in Nat :
          inbox'[p][i] = AnswerTo(t) /\ Reach(t) <= Len(lines'[p]) + 1
    <3>1. ASSUME NEW i \in DOMAIN inbox'[p]
          PROVE  \E t \in Nat : /\ inbox'[p][i] = AnswerTo(t)
                                /\ Reach(t) <= Len(lines[p]) + 1
      BY <1>i, <1>p DEF TraceOK
    <3>2. \A t \in Nat : Reach(t) \in Nat
      BY AnswerIsNear
    <3> QED
      BY <1>t, <2>1, <3>1, <3>2
  <2>6. \A k \in DOMAIN lines'[p] : lines'[p][k].src <= k
    BY <1>i, <1>p, <2>1 DEF TraceOK
  <2> QED
    BY <1>1, <1>a, <1>p, <2>1, <2>3, <2>4, <2>5, <2>6 DEF TraceOK
<1>n. NextTtl(ttl[p]) \in Nat /\ NextTtl(ttl[p]) <= ttl[p] + 1
  <2>1. ASSUME NEW m \in Nat, m > 0, NEW t \in Nat
        PROVE  t % m \in Nat /\ t % m <= t
    <3>1. t % m \in 0..m - 1
      BY <2>1
    <3>2. t < m => t % m = t
      BY <2>1
    <3> QED
      BY <2>1, <3>1, <3>2
  <2>2. ttl[p] + 1 \in Nat
    BY <1>t
  <2> QED
    BY <1>t, <2>1, <2>2 DEF NextTtl
<1>5. CASE TraceReceives(p)
  <2> DEFINE input == Head(inbox[p])
  <2>1. Takes(p) /\ pc[p] = "recv" /\ UNCHANGED flight
    BY <1>5 DEF TraceReceives, Takes
  <2>2. /\ input \in Packet /\ 1 \in DOMAIN inbox[p] /\ input = inbox[p][1]
        /\ \A i \in DOMAIN inbox'[p] :
             \E j \in DOMAIN inbox[p] : inbox'[p][i] = inbox[p][j]
    BY <1>0, <2>1, TakingOut
  <2>3. PICK t \in Nat :
          input = AnswerTo(t) /\ Reach(t) <= Len(lines[p]) + 1
    BY <1>i, <2>2 DEF TraceOK
  <2>4. /\ input.src <= Len(lines[p]) + 1
        /\ input.type = "unreachable" => input.src \in setting.refusing
        /\ CheckRes(input) # 0
        /\ CheckRes(input) = 2 => input.type = "unreachable"
    <3> HIDE DEF input
    <3>1. /\ AnswerTo(t).src \in 1..DISTANCE
          /\ AnswerTo(t).type \in {"reply", "exceeded", "unreachable"}
          /\ AnswerTo(t).src <= Reach(t) /\ Reach(t) \in Nat
          /\ AnswerTo(t).type = "unreachable" =>
               AnswerTo(t).src \in setting.refusing
      BY AnswerIsNear
    <3> QED
      BY <1>t, <2>3, <3>1 DEF CheckRes
  <2>5. point'[p] = input.src
    BY <1>5, <1>t DEF TraceReceives
  <2>6. /\ Prints(p, input)
        /\ ttl' = ttl \/ ttl' = [ttl EXCEPT ![p] = NextTtl(@)]
        /\ \/ /\ pc' = [pc EXCEPT ![p] = IF IsDestination(input) THEN "done"
                                         ELSE "send"]
           \/ CheckRes(input) = 2
    BY <1>5, <2>4 DEF TraceReceives
  <2>7. ttl'[p] <= ttl[p] + 1 /\ ttl'[p] \in Nat
    BY <1>n, <1>t, <2>6
  <2>8. pc'[p] = "done" => input.src \in setting.refusing \cup {DISTANCE}
    BY <1>0, <1>t, <2>4, <2>6 DEF IsDestination
  <2> QED
    BY <1>p, <2>1, <2>2, <2>4, <2>5, <2>6, <2>7, <2>8
<1>6. CASE TraceTimesOut(p)
  <2> DEFINE line == [type |-> "none", src |-> point[p]]
  <2>1. /\ Prints(p, line) /\ pc[p] = "recv"
        /\ ttl' = [ttl EXCEPT ![p] = NextTtl(@)]
        /\ pc' = [pc EXCEPT ![p] = "send"]
        /\ UNCHANGED <<point, flight, inbox>>
    BY <1>6 DEF TraceTimesOut, TimesOut, network
  <2>2. line \in Packet /\ line.src = point[p]
    BY <1>t DEF Packet
  <2>3. line.src <= Len(lines[p]) + 1
    BY <1>i, <2>2 DEF TraceOK
  <2>4. pc'[p] = "send" /\ ttl'[p] = NextTtl(ttl[p])
    BY <1>0, <1>t, <2>1
  <2> HIDE DEF line
  <2> QED
    BY <1>n, <1>p, <2>1, <2>2, <2>3, <2>4
<1>7. CASE Fail(p)
  <2>1. pc'[p] = "failed" /\ UNCHANGED <<ttl, point, lines, flight, inbox>>
    BY <1>0, <1>7, <1>t DEF Fail, network
  <2> QED
    BY <1>1, <1>a, <1>i, <2>1 DEF TraceOK
<1>8. CASE UNCHANGED icmpVars
  BY <1>1, <1>8, <1>a, <1>i DEF icmpVars, network, TraceOK
<1> QED
  BY <1>0, <1>1, <1>2, <1>3, <1>4, <1>5, <1>6, <1>7, <1>8
     DEF Run, SendPing, PingReceives, PingTimesOut

\* A point that answers to the ttl k is the last up to there.
LEMMA AnswerIsLast ==
  ASSUME IcmpTypeOK, NEW k \in Nat \ {0},
         AnswerTo(k).src \notin setting.silent
  PROVE  LastUpTo(k, AnswerTo(k).src)
<1>1. \A j \in 1..k : AnswerTo(j).src <= AnswerTo(k).src
  BY AnswersMoveOn
<1>2. k \in 1..k
  OBVIOUS
<1> QED
  BY <1>1, <1>2 DEF LastUpTo, AnsweredBy

\* When it is silent the last is the one before.
LEMMA SilentIsPassedOver ==
  ASSUME NEW k \in Nat, NEW src, LastUpTo(k, src),
         AnswerTo(k + 1).src \in setting.silent
  PROVE  LastUpTo(k + 1, src)
<1>1. 1..(k + 1) = 1..k \cup {k + 1}
  OBVIOUS
<1>2. AnsweredBy(k + 1) = AnsweredBy(k)
  BY <1>1 DEF AnsweredBy
<1> QED
  BY <1>2 DEF LastUpTo

\* The far end is where traceroute ends.
LEMMA FarEndIsTheEnd ==
  ASSUME IcmpTypeOK, NEW t \in Nat, AnswerTo(t).src = FarEnd
  PROVE  AnswerTo(t).type = "unreachable" \/ IsDestination(AnswerTo(t))
<1>1. DISTANCE \in Nat /\ DISTANCE > 0
  BY IcmpAssumption
<1>2. Reach(DISTANCE) = DISTANCE /\ Reach(t) \in 1..DISTANCE
  BY <1>1 DEF Reach
<1>3. CASE Refuser(DISTANCE) = {}
  <2>1. FarEnd = DISTANCE
    BY <1>2, <1>3 DEF FarEnd, AnswerTo
  <2> QED
    BY <2>1 DEF IsDestination
<1>4. CASE Refuser(DISTANCE) # {} /\ Refuser(t) = {}
  <2> DEFINE b == CHOOSE b \in Refuser(DISTANCE) : TRUE
  <2>1. b \in Refuser(DISTANCE)
    BY <1>4
  <2>2. FarEnd = b
    BY <1>4 DEF FarEnd, AnswerTo
  <2>3. AnswerTo(t).src = Reach(t)
    BY <1>4 DEF AnswerTo
  <2> HIDE DEF b
  <2>4. b \in setting.refusing /\ \A c \in setting.refusing : b <= c
    BY <2>1 DEF Refuser
  <2>5. b \in Refuser(t)
    BY <1>2, <2>2, <2>3, <2>4 DEF Refuser
  <2> QED
    BY <1>4, <2>5
<1>5. CASE Refuser(t) # {}
  BY <1>5 DEF AnswerTo
<1> QED
  BY <1>3, <1>4, <1>5

\* When the answers come in time.
LEMMA WayStep ==
  IcmpTypeOK /\ WayInv /\ [IcmpNext]_icmpVars => WayInv'
<1> SUFFICES ASSUME IcmpTypeOK, WayInv, [IcmpNext]_icmpVars, NEW p \in Tool,
                    setting.prompt', Alone(p)', noise' = 0
             PROVE  /\ OneOut(p)'
                    /\ p \in Tracer => TraceSoFar(p)'
                    /\ p \in Pinger =>
                         \A k \in DOMAIN lines'[p] : lines'[p][k] = PingLine'
  BY DEF WayInv, Quiet
<1>0. (p \in Tracer <=> p \notin Pinger) /\ (p \in Tracer \/ p \in Pinger)
  BY IcmpAssumption DEF Tool
<1>1. /\ noise = 0 /\ UNCHANGED setting /\ Alone(p) /\ setting.prompt
      /\ Answer \/ Lose \/ Run(p) \/ Fail(p) \/ UNCHANGED icmpVars
  BY LonelyStep
<1>i. /\ OneOut(p)
      /\ p \in Tracer => TraceSoFar(p)
      /\ p \in Pinger => \A k \in DOMAIN lines[p] : lines[p][k] = PingLine
  BY <1>1 DEF WayInv, Quiet
<1>t. /\ pc \in [Tool -> {"send", "recv", "done", "failed"}]
      /\ ttl \in [Tracer -> Nat] /\ point \in [Tracer -> 0..DISTANCE + 1]
      /\ lines[p] \in Seq(Packet) /\ Len(lines[p]) \in Nat
      /\ inbox \in [Tool -> Seq(Packet)]
      /\ DISTANCE \in Nat /\ TTL_SPACE \in Nat /\ TTL_SPACE > 1
      /\ PING_TTL \in Nat /\ PING_TTL >= DISTANCE /\ DISTANCE > 0
  BY IcmpAssumption DEF IcmpTypeOK
<1>a. /\ \A t : AnswerTo(t)' = AnswerTo(t)
      /\ PingLine' = PingLine
      /\ \A k, src : LastUpTo(k, src)' <=> LastUpTo(k, src)
      /\ FarEnd' = FarEnd
  BY <1>1 DEF AnswerTo, Refuser, Reach, PingLine, LastUpTo, AnsweredBy, FarEnd
<1>w. UNCHANGED ttl => Awaited(p)' = Awaited(p)
  BY <1>a DEF Awaited
<1>s. ASSUME UNCHANGED <<lines, ttl, point>>, Open(p)' => Open(p)
      PROVE  /\ p \in Tracer => TraceSoFar(p)'
             /\ p \in Pinger =>
                  \A k \in DOMAIN lines'[p] : lines'[p][k] = PingLine'
  BY <1>a, <1>i, <1>s DEF TraceSoFar
<1>2. CASE Answer
  <2>1. PICK probe \in flight :
          /\ flight' = flight \ {probe}
          /\ IF AnswerTo(probe.ttl).src \in setting.silent
             THEN UNCHANGED inbox ELSE Arrives(AnswerTo(probe.ttl))
          /\ UNCHANGED <<pc, ttl, point, lines>>
    BY <1>2 DEF Answer
  <2>2. OneOut(p)'
    <3>1. CASE pc[p] = "recv"
      <4>1. /\ flight = {probe} /\ inbox[p] = <<>>
            /\ AnswerTo(probe.ttl) = Awaited(p)
        BY <1>i, <2>1, <3>1 DEF OneOut
      <4>2. flight' = {}
        BY <2>1, <4>1
      <4>3. CASE Awaited(p).src \in setting.silent
        BY <1>1, <1>w, <2>1, <3>1, <4>1, <4>2, <4>3 DEF OneOut
      <4>4. CASE Awaited(p).src \notin setting.silent
        <5>1. inbox'[p] = Append(<<>>, Awaited(p))
          BY <2>1, <3>1, <4>1, <4>4 DEF Arrives, Open
        <5>2. Append(<<>>, Awaited(p)) = <<Awaited(p)>>
          OBVIOUS
        <5> QED
          BY <1>1, <1>w, <2>1, <3>1, <4>2, <4>4, <5>1, <5>2 DEF OneOut
      <4> QED
        BY <4>3, <4>4
    <3>2. CASE pc[p] # "recv"
      BY <1>i, <2>1, <3>2 DEF OneOut
    <3> QED
      BY <3>1, <3>2
  <2> QED
    BY <1>s, <2>1, <2>2 DEF Open
<1>3. ~Lose
  BY <1>1 DEF Lose
<1>4. CASE SendPing(p) \/ SendProbe(p)
  <2> DEFINE probe == [from |-> p, n |-> Len(lines[p]) + 1,
                       ttl |-> IF p \in Tracer THEN ttl[p] ELSE PING_TTL]
  <2>1. /\ pc[p] = "send" /\ flight' = flight \cup {probe}
        /\ pc' = [pc EXCEPT ![p] = "recv"]
        /\ UNCHANGED <<ttl, point, lines, inbox>>
    BY <1>0, <1>4 DEF SendPing, SendProbe, Sends
  <2>2. flight' = {probe} /\ inbox'[p] = <<>>
    BY <1>i, <2>1 DEF OneOut
  <2>3. probe \in Probe /\ probe.from = p /\ AnswerTo(probe.ttl) = Awaited(p)
    BY <1>t DEF Probe, Awaited
  <2>4. pc'[p] = "recv"
    BY <1>t, <2>1
  <2> HIDE DEF probe
  <2>5. OneOut(p)'
    BY <1>a, <1>w, <2>1, <2>2, <2>3, <2>4 DEF OneOut
  <2> QED
    BY <1>s, <2>1, <2>4, <2>5 DEF Open
<1>r. ASSUME Takes(p)
      PROVE  /\ pc[p] = "recv" /\ Head(inbox[p]) = Awaited(p)
             /\ Awaited(p).src \notin setting.silent
             /\ flight' = {} /\ inbox'[p] = <<>>
  <2>1. /\ pc[p] = "recv" /\ inbox[p] # <<>> /\ UNCHANGED flight
        /\ inbox' = [inbox EXCEPT ![p] = Tail(@)]
    BY <1>r DEF Takes
  <2>2. /\ flight = {} /\ inbox[p] = <<Awaited(p)>>
        /\ Awaited(p).src \notin setting.silent
    BY <1>i, <2>1 DEF OneOut
  <2>3. Head(<<Awaited(p)>>) = Awaited(p) /\ Tail(<<Awaited(p)>>) = <<>>
    OBVIOUS
  <2>4. inbox'[p] = Tail(inbox[p])
    BY <1>t, <2>1
  <2> QED
    BY <2>1, <2>2, <2>3, <2>4
<1>o. ASSUME TimesOut(p)
      PROVE  /\ pc[p] = "recv" /\ Awaited(p).src \in setting.silent
             /\ flight' = {} /\ inbox'[p] = <<>>
  <2>1. /\ pc[p] = "recv" /\ inbox[p] = <<>>
        /\ \A probe \in flight : probe.from # p
        /\ UNCHANGED <<flight, inbox>>
    BY <1>1, <1>o DEF TimesOut, network
  <2>2. <<Awaited(p)>> # <<>>
    OBVIOUS
  <2>3. flight = {} /\ Awaited(p).src \in setting.silent
    BY <1>i, <2>1, <2>2 DEF OneOut
  <2> QED
    BY <2>1, <2>3
<1>5. CASE PingReceives(p) \/ PingTimesOut(p)
  <2>1. p \in Pinger /\ p \notin Tracer /\ Awaited(p) = AnswerTo(PING_TTL)
    BY <1>0, <1>5 DEF PingReceives, PingTimesOut, Awaited
  <2>2. IsPingPacket(AnswerTo(PING_TTL))
    BY <1>t DEF AnswerTo, Reach, IsPingPacket
  <2>3. flight' = {} /\ inbox'[p] = <<>> /\ Prints(p, PingLine)
    BY <1>5, <1>o, <1>r, <2>1, <2>2 DEF PingReceives, PingTimesOut, PingLine
  <2>4. pc'[p] \in {"send", "done"}
    BY <1>5, <1>o, <1>r, <1>t, <2>1, <2>2 DEF PingReceives, PingTimesOut,
       NextPing
  <2>5. OneOut(p)'
    BY <2>3, <2>4 DEF OneOut
  <2>6. PingLine \in Packet
    BY <1>t, AnswerIsNear DEF PingLine, Packet, Garbage
  <2>7. \A k \in DOMAIN lines'[p] : lines'[p][k] = PingLine
    BY <1>i, <2>1, <2>3, <2>6, Printing
  <2> QED
    BY <1>a, <2>1, <2>5, <2>7
<1>p. ASSUME p \in Tracer, NEW line \in Packet, Prints(p, line),
             pc[p] = "recv",
             pc'[p] \in {"send", "done"},
             pc'[p] = "send" => ttl'[p] = NextTtl(ttl[p]),
             point'[p] = line.src,
             pc'[p] = "send" => line.src # FarEnd,
             Len(lines[p]) + 1 < TTL_SPACE =>
               LastUpTo(Len(lines[p]) + 1, line.src)
      PROVE  TraceSoFar(p)'
  <2>1. /\ Len(lines'[p]) = Len(lines[p]) + 1
        /\ \A i \in DOMAIN lines'[p] :
             \/ i \in DOMAIN lines[p] /\ lines'[p][i] = lines[p][i]
             \/ i = Len(lines[p]) + 1 /\ lines'[p][i] = line
    BY <1>p, Printing
  <2>2. ASSUME Open(p)', Len(lines'[p]) + 1 < TTL_SPACE
        PROVE  ttl'[p] = Len(lines'[p]) + 1
    <3>1. ttl[p] = Len(lines[p]) + 1
      BY <1>i, <1>p, <1>t, <2>1, <2>2 DEF TraceSoFar, Open
    <3>2. ttl'[p] = NextTtl(ttl[p])
      BY <1>p, <2>2 DEF Open
    <3>3. ASSUME NEW m \in Nat, NEW t \in Nat, t < m PROVE t % m = t
      BY <3>3
    <3>4. ttl[p] + 1 \in Nat /\ ttl[p] + 1 < TTL_SPACE
      BY <1>t, <2>1, <2>2, <3>1
    <3> QED
      BY <1>t, <2>1, <3>1, <3>2, <3>3, <3>4 DEF NextTtl
  <2>3. Len(lines'[p]) < TTL_SPACE => LastUpTo(Len(lines'[p]), point'[p])
    BY <1>p, <2>1
  <2>4. \A k \in DOMAIN lines'[p] :
          k < TTL_SPACE => LastUpTo(k, lines'[p][k].src)
    BY <1>i, <1>p, <2>1 DEF TraceSoFar
  <2>5. \A k \in DOMAIN lines[p] : lines[p][k].src # FarEnd
    BY <1>i, <1>p DEF TraceSoFar, Open
  <2>6. \A k \in DOMAIN lines'[p] :
          Open(p)' \/ k < Len(lines'[p]) => lines'[p][k].src # FarEnd
    <3> SUFFICES ASSUME NEW k \in DOMAIN lines'[p],
                        Open(p)' \/ k < Len(lines'[p])
                 PROVE  lines'[p][k].src # FarEnd
      OBVIOUS
    <3>1. CASE k \in DOMAIN lines[p] /\ lines'[p][k] = lines[p][k]
      BY <2>5, <3>1
    <3>2. CASE k = Len(lines'[p]) /\ lines'[p][k] = line
      <4>1. pc'[p] = "send"
        BY <1>p, <1>t, <3>2 DEF Open
      <4> QED
        BY <1>p, <3>2, <4>1
    <3> QED
      BY <2>1, <3>1, <3>2
  <2>7. Open(p)' => point'[p] # FarEnd
    BY <1>p DEF Open
  <2> QED
    BY <1>a, <2>2, <2>3, <2>4, <2>6, <2>7 DEF TraceSoFar
<1>6. CASE TraceReceives(p)
  <2>1. p \in Tracer /\ Takes(p) /\ Awaited(p) = AnswerTo(ttl[p])
    BY <1>6 DEF TraceReceives, Awaited
  <2>2. /\ pc[p] = "recv" /\ Head(inbox[p]) = Awaited(p)
        /\ flight' = {} /\ inbox'[p] = <<>>
    BY <1>r, <2>1
  <2>3. ttl[p] \in Nat
    BY <1>t, <2>1
  <2>4. /\ Awaited(p) \in Packet
        /\ Awaited(p).type \in {"reply", "exceeded", "unreachable"}
    BY <2>1, <2>3, AnswerIsNear
  <2>5. CheckRes(Awaited(p)) # 0
    BY <2>4 DEF CheckRes
  <2>6. /\ Prints(p, Awaited(p))
        /\ point' = [point EXCEPT ![p] = Awaited(p).src]
        /\ \/ /\ ttl' = [ttl EXCEPT ![p] = NextTtl(@)]
              /\ pc' = [pc EXCEPT ![p] = IF IsDestination(Awaited(p))
                                         THEN "done" ELSE "send"]
           \/ pc' = [pc EXCEPT ![p] = "done"]
    BY <1>6, <2>2, <2>5 DEF TraceReceives
  <2>e. pc'[p] = "send" => Awaited(p).src # FarEnd
    <3>1. SUFFICES ASSUME Awaited(p).src = FarEnd PROVE pc'[p] # "send"
      OBVIOUS
    <3>2. \/ Awaited(p).type = "unreachable"
          \/ IsDestination(Awaited(p))
      BY <2>1, <2>3, <3>1, FarEndIsTheEnd
    <3>3. CASE Awaited(p).type = "unreachable"
      <4>1. CheckRes(Awaited(p)) = 2
        BY <3>3 DEF CheckRes
      <4>2. pc' = [pc EXCEPT ![p] = "done"]
        BY <1>6, <2>2, <4>1 DEF TraceReceives
      <4> QED
        BY <1>t, <4>2
    <3>4. CASE IsDestination(Awaited(p))
      BY <1>t, <2>6, <3>4
    <3> QED
      BY <3>2, <3>3, <3>4
  <2>7. /\ point'[p] = Awaited(p).src /\ pc'[p] \in {"send", "done"}
        /\ pc'[p] = "send" => ttl'[p] = NextTtl(ttl[p])
    BY <1>t, <2>1, <2>6
  <2>8. Len(lines[p]) + 1 < TTL_SPACE =>
          LastUpTo(Len(lines[p]) + 1, Awaited(p).src)
    <3>1. Len(lines[p]) + 1 < TTL_SPACE => ttl[p] = Len(lines[p]) + 1
      BY <1>i, <2>1, <2>2 DEF TraceSoFar, Open
    <3>2. Awaited(p).src \notin setting.silent
      BY <1>r, <2>1
    <3>3. Len(lines[p]) + 1 \in Nat \ {0}
      BY <1>t
    <3> QED
      BY <2>1, <3>1, <3>2, <3>3, AnswerIsLast
  <2>9. TraceSoFar(p)'
    BY <1>p, <2>1, <2>2, <2>4, <2>6, <2>7, <2>8, <2>e
  <2>10. OneOut(p)'
    BY <2>2, <2>7 DEF OneOut
  <2> QED
    BY <1>0, <2>1, <2>9, <2>10
<1>7. CASE TraceTimesOut(p)
  <2> DEFINE line == [type |-> "none", src |-> point[p]]
  <2>1. /\ p \in Tracer /\ Prints(p, line) /\ TimesOut(p)
        /\ ttl' = [ttl EXCEPT ![p] = NextTtl(@)]
        /\ pc' = [pc EXCEPT ![p] = "send"]
        /\ UNCHANGED point
    BY <1>7 DEF TraceTimesOut
  <2>2. line \in Packet /\ line.src = point[p]
    BY <1>t, <2>1 DEF Packet
  <2>3. pc'[p] = "send" /\ ttl'[p] = NextTtl(ttl[p])
    BY <1>t, <2>1
  <2>4. /\ pc[p] = "recv" /\ Awaited(p).src \in setting.silent
        /\ flight' = {} /\ inbox'[p] = <<>>
    BY <1>o, <2>1
  <2>5. Len(lines[p]) + 1 < TTL_SPACE =>
          LastUpTo(Len(lines[p]) + 1, point[p])
    <3> SUFFICES ASSUME Len(lines[p]) + 1 < TTL_SPACE
                 PROVE  LastUpTo(Len(lines[p]) + 1, point[p])
      OBVIOUS
    <3>1. /\ ttl[p] = Len(lines[p]) + 1
          /\ LastUpTo(Len(lines[p]), point[p])
      BY <1>i, <1>t, <2>1, <2>4 DEF TraceSoFar, Open
    <3>2. AnswerTo(Len(lines[p]) + 1).src \in setting.silent
      BY <2>1, <2>4, <3>1 DEF Awaited
    <3> QED
      BY <1>t, <3>1, <3>2, SilentIsPassedOver
  <2>8. point[p] # FarEnd /\ point'[p] = point[p]
    BY <1>i, <2>1, <2>4 DEF TraceSoFar, Open
  <2> HIDE DEF line
  <2>6. TraceSoFar(p)'
    BY <1>p, <2>1, <2>2, <2>3, <2>4, <2>5, <2>8
  <2>7. OneOut(p)'
    BY <2>3, <2>4 DEF OneOut
  <2> QED
    BY <1>0, <2>1, <2>6, <2>7
<1>8. CASE Fail(p)
  <2>1. pc'[p] = "failed" /\ UNCHANGED <<ttl, point, lines, flight, inbox>>
    BY <1>8, <1>t DEF Fail, network
  <2> QED
    BY <1>s, <2>1 DEF OneOut, Open
<1>9. CASE UNCHANGED icmpVars
  <2>1. UNCHANGED <<pc, ttl, point, lines, flight, inbox>>
    BY <1>9 DEF icmpVars, network
  <2>2. Awaited(p)' = Awaited(p)
    BY <1>w, <2>1
  <2>3. OneOut(p)'
    BY <1>1, <1>a, <1>i, <2>1, <2>2 DEF OneOut
  <2> QED
    BY <1>s, <2>1, <2>3 DEF Open
<1> QED
  BY <1>1, <1>2, <1>3, <1>4, <1>5, <1>6, <1>7, <1>8, <1>9 DEF Run

\* What all of them say holds when the tools start.
LEMMA IcmpStart == IcmpInit => TraceInv /\ WayInv
<1> SUFFICES ASSUME IcmpInit PROVE TraceInv /\ WayInv
  OBVIOUS
<1>0. FarEnd # Garbage
  BY IcmpTypeInit, AnswerIsNear, IcmpAssumption DEF FarEnd, Garbage
<1>1. /\ flight = {} /\ \A p \in Tool : inbox[p] = <<>> /\ lines[p] = <<>>
      /\ \A p \in Tracer : ttl[p] = 1 /\ point[p] = 0
      /\ \A p \in Tool : Alone(p) => pc[p] = "send"
  BY DEF IcmpInit, Garbage, Alone
<1>2. Len(<<>>) = 0 /\ DOMAIN <<>> = {}
  OBVIOUS
<1>3. Tracer \subseteq Tool
  BY DEF Tool
<1>4. TraceInv
  BY <1>1, <1>2, <1>3 DEF TraceInv, TraceOK
<1>5. LastUpTo(0, 0)
  BY DEF LastUpTo, AnsweredBy, Garbage
<1>6. WayInv
  BY <1>0, <1>1, <1>2, <1>3, <1>5 DEF WayInv, OneOut, TraceSoFar, Garbage
<1> QED
  BY <1>4, <1>6

\* However the answers come, the variables keep their ranges, and every line,
\* answer and probe of a lonely traceroute is within its distance.
THEOREM IcmpInvHolds == IcmpSpec => [](IcmpTypeOK /\ TraceInv /\ WayInv)
BY IcmpTypeInit, IcmpTypeStep, IcmpStart, TraceStep, WayStep, PTL DEF IcmpSpec

\* traceroute takes any answer for that to its last probe; still it never
\* prints a point before its distance, be the answers late, lost or mixed up
\* (main() of traceroute.c), on a way of any length.
THEOREM NoLineIsAheadHolds == IcmpSpec => []NoLineIsAhead
<1>1. TraceInv => NoLineIsAhead
  BY DEF TraceInv, TraceOK, NoLineIsAhead
<1> QED
  BY <1>1, IcmpInvHolds, PTL

\* And it ends at the destination or at a router that refuses.
THEOREM EndsAtTheEndHolds == IcmpSpec => []EndsAtTheEnd
<1>1. TraceInv => EndsAtTheEnd
  BY DEF TraceInv, TraceOK, EndsAtTheEnd
<1> QED
  BY <1>1, IcmpInvHolds, PTL

\* When answers come in time line k of traceroute is the last of the first k
\* points of the way that answered, nothing follows the far end, and the lines
\* of ping say what has become of the destination.
THEOREM LinesAreTheWayHolds == IcmpSpec => []LinesAreTheWay
<1>1. IcmpTypeOK /\ WayInv => LinesAreTheWay
  <2> SUFFICES ASSUME IcmpTypeOK, WayInv, setting.prompt, Quiet
               PROVE  LinesAreTheWay
    BY DEF LinesAreTheWay
  <2>1. Pinger \subseteq Tool /\ Tracer \subseteq Tool
    BY DEF Tool
  <2>2. ASSUME NEW p \in Tracer, Alone(p), NEW k \in DOMAIN lines[p]
        PROVE  /\ k < TTL_SPACE => LastUpTo(k, lines[p][k].src)
               /\ k < Len(lines[p]) => lines[p][k].src # FarEnd
    BY <2>1, <2>2 DEF WayInv, TraceSoFar
  <2>3. ASSUME NEW p \in Pinger, Alone(p), NEW k \in DOMAIN lines[p]
        PROVE  lines[p][k] = PingLine
    BY <2>1, <2>3 DEF WayInv
  <2> QED
    BY <2>2, <2>3 DEF LinesAreTheWay, PingLine
<1> QED
  BY <1>1, IcmpInvHolds, PTL
=============================================================================
