-------------------------- MODULE MultiplexProofs --------------------------
(***************************************************************************)
(* Theorems about Multiplex, for each of the three servers, any number of  *)
(* clients and of turns, and buffers and queues of any size.               *)
(***************************************************************************)
EXTENDS Multiplex, FiniteSetTheorems, TLAPS

\* What appending and taking the first do to a sequence.
LEMMA Appending ==
  ASSUME NEW S, NEW s \in Seq(S), NEW e \in S
  PROVE  /\ Append(s, e) \in Seq(S)
         /\ DOMAIN Append(s, e) = DOMAIN s \cup {Len(s) + 1}
         /\ Append(s, e)[Len(s) + 1] = e
         /\ \A i \in DOMAIN s : Append(s, e)[i] = s[i] /\ i # Len(s) + 1
OBVIOUS

\* Taking the first of a sequence leaves the others, in order.
LEMMA Taking ==
  ASSUME NEW S, NEW s \in Seq(S), s # <<>>
  PROVE  /\ Tail(s) \in Seq(S) /\ Head(s) = s[1] /\ s[1] \in S
         /\ 1 \in DOMAIN s
         /\ DOMAIN Tail(s) \subseteq Int
         /\ \A i \in DOMAIN Tail(s) :
              i + 1 \in DOMAIN s /\ i + 1 # 1 /\ Tail(s)[i] = s[i + 1]
OBVIOUS

\* No step takes a variable out of its range.
LEMMA TypeStep == TypeOK /\ [Next]_vars => TypeOK'
<1> SUFFICES ASSUME TypeOK, [Next]_vars PROVE TypeOK'
  OBVIOUS
<1> USE MultiplexAssumption DEF TypeOK, kernel, clients
<1>0. UdpClient \subseteq Client /\ TcpClient \subseteq Client
  BY DEF Client
<1>1. CASE UNCHANGED vars
  BY <1>1 DEF vars
<1>2. ASSUME NEW c \in Client, SendDatagram(c) PROVE TypeOK'
  <2>1. c \in UdpClient => Append(udp, c) \in Seq(UdpClient)
    BY Appending
  <2>2. udp' \in Seq(UdpClient)
    BY <1>2, <2>1 DEF SendDatagram
  <2>3. /\ told' \subseteq Client /\ dropped' \subseteq UdpClient
        /\ client' \in [Client -> {"new", "connected", "waiting", "gone"}]
    BY <1>2 DEF SendDatagram
  <2> QED
    BY <1>2, <2>2, <2>3 DEF SendDatagram
<1>3. ASSUME NEW c \in Client, Connect(c) PROVE TypeOK'
  <2>1. pending' \in Seq(TcpClient)
    BY <1>3, Appending DEF Connect
  <2>2. client' \in [Client -> {"new", "connected", "waiting", "gone"}]
    BY <1>3 DEF Connect
  <2> QED
    BY <1>3, <2>1, <2>2 DEF Connect
<1>4. ASSUME NEW c \in Client, SendMessage(c) \/ Vanish(c) PROVE TypeOK'
  BY <1>4 DEF SendMessage, Vanish
<1>5. CASE Wait
  <2>1. set' \subseteq Sockets /\ set' # {}
    BY <1>5 DEF Wait, SelectReturns, PollReturns, EpollReturns, Ready
  <2>2. it' \in 0..NUM_OF_REQUESTS
    BY <1>5 DEF Wait
  <2>3. /\ pc' \in {"recvfrom", "accept"}
        /\ UNCHANGED <<poller, peer, buffer, kernel, clients, replies>>
    BY <1>5 DEF Wait
  <2> QED
    BY <2>1, <2>2, <2>3
<1>6. CASE RecvFrom
  <2>1. Head(udp) \in Client /\ udp' \in Seq(UdpClient)
    BY <1>0, <1>6, Taking DEF RecvFrom
  <2>2. buffer' \in Text
    BY <1>6, <2>1 DEF RecvFrom, Text
  <2> QED
    BY <1>6, <2>1, <2>2 DEF RecvFrom, TypeOK
<1>7. CASE SendTo \/ Send
  <2>1. \A c \in Client : Append(replies[c], buffer) \in Seq(Text)
    BY Appending
  <2>2. replies' = [replies EXCEPT ![peer] = Append(@, buffer)]
    BY <1>7 DEF SendTo, Send
  <2>3. replies' \in [Client -> Seq(Text)]
    BY <2>1, <2>2
  <2> QED
    BY <1>7, <2>3 DEF SendTo, Send
<1>8. CASE Accept
  <2>1. Head(pending) \in Client /\ pending' \in Seq(TcpClient)
    BY <1>0, <1>8, Taking DEF Accept
  <2> QED
    BY <1>8, <2>1 DEF Accept
<1>9. CASE Recv
  <2>1. buffer' \in Text
    <3>1. buffer.from \in Client \cup {Nobody} /\ buffer.suffixes \in Nat
      BY DEF Text
    <3>2. CASE buffer' = [from |-> peer, suffixes |-> 1]
      BY <3>2 DEF Text
    <3>3. CASE buffer' = [buffer EXCEPT !.suffixes = @ + 1]
      <4>1. buffer' = [from |-> buffer.from, suffixes |-> buffer.suffixes + 1]
        BY <3>3 DEF Text
      <4> QED
        BY <3>1, <4>1 DEF Text
    <3> QED
      BY <1>9, <3>2, <3>3 DEF Recv
  <2> QED
    BY <1>9, <2>1 DEF Recv
<1>10. CASE Fail \/ Finish
  BY <1>10 DEF Fail, Finish
<1> QED
  BY <1>1, <1>2, <1>3, <1>4, <1>5, <1>6, <1>7, <1>8, <1>9, <1>10
     DEF Next, Server

\* The variables stay in their ranges.
THEOREM TypeCorrect == Spec => []TypeOK
<1>1. Init => TypeOK
  BY MultiplexAssumption DEF Init, TypeOK, Sockets, Client, Text
<1> QED
  BY <1>1, TypeStep, PTL DEF Spec

----------------------------------------------------------------------------
(* A request is at one place: in a queue of the kernel, in the hands of    *)
(* the server, or answered.                                                *)

Awaited(c) == client[c] # "new" /\ c # peer /\ replies[c] = <<>>

Queued(q) ==
  /\ \A i \in DOMAIN q : Awaited(q[i])
  /\ \A i, j \in DOMAIN q : q[i] = q[j] => i = j

\* The same after the step.
StillQueued(q) ==
  /\ \A i \in DOMAIN q :
       client'[q[i]] # "new" /\ q[i] # peer' /\ replies'[q[i]] = <<>>
  /\ \A i, j \in DOMAIN q : q[i] = q[j] => i = j

Own(c) == [from |-> c, suffixes |-> 1]

PlaceInv ==
  /\ Queued(udp) /\ Queued(pending)
  /\ pc \in {"wait", "recvfrom", "accept"} => peer = Nobody
  /\ pc = "sendto" => peer \in UdpClient /\ buffer = Own(peer)
  /\ pc \in {"recv", "send"} => peer \in TcpClient
  /\ pc = "send" => buffer = Own(peer) \/ client[peer] = "gone"
  /\ peer \in Client => client[peer] # "new" /\ replies[peer] = <<>>
  /\ \A c \in Client : client[c] = "new" => replies[c] = <<>>
  /\ OwnReply

\* A request moves from one place to the next, and is at one only.
LEMMA PlaceStep == TypeOK /\ PlaceInv /\ [Next]_vars => PlaceInv'
<1> SUFFICES ASSUME TypeOK, PlaceInv, [Next]_vars PROVE PlaceInv'
  OBVIOUS
<1> USE MultiplexAssumption DEF PlaceInv, kernel, clients
<1>0. /\ udp \in Seq(UdpClient) /\ pending \in Seq(TcpClient)
      /\ \A i \in DOMAIN udp : udp[i] \in UdpClient
      /\ \A i \in DOMAIN pending : pending[i] \in TcpClient
      /\ UdpClient \subseteq Client /\ TcpClient \subseteq Client
      /\ client \in [Client -> {"new", "connected", "waiting", "gone"}]
      /\ replies \in [Client -> Seq(Text)]
      /\ Nobody \notin Client /\ UdpClient \cap TcpClient = {}
  BY DEF TypeOK, Client
<1>1. CASE UNCHANGED vars \/ Wait \/ Fail \/ Finish
  <2>1. /\ UNCHANGED <<udp, pending, buffer, client, replies>>
        /\ peer' = peer
        /\ \/ pc' = pc \/ pc' = "exited"
           \/ pc = "wait" /\ pc' \in {"recvfrom", "accept"}
    BY <1>1 DEF vars, Wait, Fail, Finish
  <2> QED
    BY <2>1 DEF Queued, Awaited, OwnReply
<1>2. ASSUME NEW c \in Client, SendDatagram(c) \/ Connect(c) PROVE PlaceInv'
  <2>1. /\ client[c] = "new" /\ UNCHANGED <<pc, peer, buffer, replies>>
        /\ client'[c] # "new"
        /\ \A d \in Client : d # c => client'[d] = client[d]
        /\ client'[c] # "gone"
    BY <1>0, <1>2 DEF SendDatagram, Connect
  <2>2. c # peer /\ replies'[c] = <<>>
    BY <2>1
  <2>3. ASSUME NEW S, S \subseteq Client, NEW q \in Seq(S), Queued(q)
        PROVE  StillQueued(q) /\ (c \in S => StillQueued(Append(q, c)))
    <3>1. \A i \in DOMAIN q : q[i] \in Client /\ q[i] # c /\ Awaited(q[i])
      BY <2>1, <2>3 DEF Queued, Awaited
    <3>2. StillQueued(q)
      BY <2>1, <2>3, <3>1 DEF StillQueued, Queued, Awaited
    <3>3. ASSUME c \in S PROVE StillQueued(Append(q, c))
      BY <2>1, <2>2, <2>3, <3>1, <3>3, Appending
         DEF StillQueued, Queued, Awaited
    <3> QED
      BY <3>2, <3>3
  <2>4. Queued(udp)' /\ Queued(pending)'
    <3>1. /\ udp' = udp \/ (c \in UdpClient /\ udp' = Append(udp, c))
          /\ pending' = pending
             \/ (c \in TcpClient /\ pending' = Append(pending, c))
      BY <1>2 DEF SendDatagram, Connect
    <3>2. /\ StillQueued(udp)
          /\ c \in UdpClient => StillQueued(Append(udp, c))
      BY <1>0, <2>3
    <3>3. /\ StillQueued(pending)
          /\ c \in TcpClient => StillQueued(Append(pending, c))
      BY <1>0, <2>3
    <3>4. StillQueued(udp') /\ StillQueued(pending')
      BY <3>1, <3>2, <3>3
    <3> QED
      BY <3>4 DEF StillQueued, Queued, Awaited
  <2>5. peer' \in Client => client'[peer'] # "new" /\ replies'[peer'] = <<>>
    BY <2>1
  <2>6. OwnReply'
    BY <2>1 DEF OwnReply
  <2>7. (/\ pc \in {"wait", "recvfrom", "accept"} => peer = Nobody
         /\ pc = "sendto" => peer \in UdpClient /\ buffer = Own(peer)
         /\ pc \in {"recv", "send"} => peer \in TcpClient)'
    BY <2>1 DEF Own
  <2>8. (pc = "send" => buffer = Own(peer) \/ client[peer] = "gone")'
    BY <1>0, <2>1 DEF Own
  <2>9. \A d \in Client : client'[d] = "new" => replies'[d] = <<>>
    BY <2>1
  <2> QED
    BY <2>4, <2>5, <2>6, <2>7, <2>8, <2>9
<1>3. ASSUME NEW c \in Client, SendMessage(c) \/ Vanish(c) PROVE PlaceInv'
  <2>1. /\ UNCHANGED <<pc, peer, buffer, udp, pending, replies>>
        /\ client[c] # "new" /\ client'[c] # "new"
        /\ \A d \in Client : d # c => client'[d] = client[d]
        /\ client[c] # "gone"
    BY <1>0, <1>3 DEF SendMessage, Vanish
  <2>2. Queued(udp)' /\ Queued(pending)'
    BY <1>0, <2>1 DEF Queued, Awaited
  <2>3. OwnReply'
    BY <2>1 DEF OwnReply
  <2>4. pc' = "send" => buffer' = Own(peer) \/ client'[peer] = "gone"
    BY <1>0, <2>1
  <2> QED
    BY <1>0, <2>1, <2>2, <2>3, <2>4 DEF Own
<1>4. CASE RecvFrom
  <2>1. /\ peer' = udp[1] /\ 1 \in DOMAIN udp /\ buffer' = Own(udp[1])
        /\ pc' = "sendto" /\ UNCHANGED <<pending, client, replies>>
        /\ DOMAIN udp' \subseteq Int
        /\ \A i \in DOMAIN udp' :
             i + 1 \in DOMAIN udp /\ i + 1 # 1 /\ udp'[i] = udp[i + 1]
    BY <1>0, <1>4, Taking DEF RecvFrom, Own
  <2>2. Queued(udp)'
    BY <1>0, <2>1 DEF Queued, Awaited
  <2>3. Queued(pending)'
    BY <1>0, <2>1 DEF Queued, Awaited
  <2>4. client[udp[1]] # "new" /\ replies[udp[1]] = <<>>
    BY <2>1 DEF Queued, Awaited
  <2> QED
    BY <1>0, <2>1, <2>2, <2>3, <2>4 DEF Own, OwnReply
<1>5. CASE Accept
  <2>1. /\ peer' = pending[1] /\ 1 \in DOMAIN pending
        /\ pc' = "recv" /\ UNCHANGED <<udp, buffer, client, replies>>
        /\ DOMAIN pending' \subseteq Int
        /\ \A i \in DOMAIN pending' :
             /\ i + 1 \in DOMAIN pending /\ i + 1 # 1
             /\ pending'[i] = pending[i + 1]
    BY <1>0, <1>5, Taking DEF Accept
  <2>2. Queued(pending)'
    BY <1>0, <2>1 DEF Queued, Awaited
  <2>3. Queued(udp)'
    BY <1>0, <2>1 DEF Queued, Awaited
  <2>4. client[pending[1]] # "new" /\ replies[pending[1]] = <<>>
    BY <2>1 DEF Queued, Awaited
  <2> QED
    BY <1>0, <2>1, <2>2, <2>3, <2>4 DEF OwnReply
<1>6. CASE Recv
  <2>1. /\ UNCHANGED <<peer, udp, pending, client, replies>>
        /\ pc = "recv" /\ pc' = "send"
        /\ buffer' = Own(peer) \/ client[peer] = "gone"
    BY <1>6 DEF Recv, Own
  <2>2. Queued(udp)' /\ Queued(pending)'
    BY <2>1 DEF Queued, Awaited
  <2> QED
    BY <2>1, <2>2 DEF Own, OwnReply
<1>7. CASE SendTo \/ Send
  <2>1. /\ peer \in Client /\ client[peer] # "new" /\ replies[peer] = <<>>
        /\ buffer = Own(peer) \/ client[peer] = "gone"
        /\ peer' = Nobody /\ pc' = "wait"
        /\ UNCHANGED <<udp, pending, client>>
    BY <1>0, <1>7 DEF SendTo, Send
  <2>2. replies' = [replies EXCEPT ![peer] = Append(@, buffer)]
    BY <1>7 DEF SendTo, Send
  <2>3. /\ replies'[peer] = <<buffer>>
        /\ \A d \in Client : d # peer => replies'[d] = replies[d]
    BY <1>0, <2>1, <2>2
  <2>4. Queued(udp)' /\ Queued(pending)'
    BY <1>0, <2>1, <2>3 DEF Queued, Awaited
  <2>5. OwnReply'
    BY <1>0, <2>1, <2>3 DEF OwnReply, Own
  <2>6. \A d \in Client : client'[d] = "new" => replies'[d] = <<>>
    BY <2>1, <2>3
  <2> QED
    BY <1>0, <2>1, <2>4, <2>5, <2>6
<1> QED
  BY <1>1, <1>2, <1>3, <1>4, <1>5, <1>6, <1>7 DEF Next, Server

\* Every request is in a queue, in the hands of the server, or answered.
LEMMA PlaceInvHolds == Spec => [](TypeOK /\ PlaceInv)
<1>1. Init => PlaceInv
  BY MultiplexAssumption DEF Init, PlaceInv, Queued, OwnReply
<1> QED
  BY <1>1, TypeCorrect, PlaceStep, PTL DEF Spec

\* A client gets its own text back, and once.
THEOREM OwnReplyHolds == Spec => []OwnReply
<1>1. PlaceInv => OwnReply
  BY DEF PlaceInv
<1> QED
  BY <1>1, PlaceInvHolds, PTL

----------------------------------------------------------------------------
(* Turns.  The turn under way has been counted and not been answered.      *)

Answered == {c \in Client : replies[c] # <<>>}

TurnInv ==
  /\ IsFiniteSet(Answered)
  /\ pc = "wait" => it = Cardinality(Answered)
  /\ pc \in {"recvfrom", "sendto", "accept", "recv", "send"} =>
       it = Cardinality(Answered) + 1

\* A turn ends when its client has been answered, and no sooner.
LEMMA TurnStep == TypeOK /\ PlaceInv /\ TurnInv /\ [Next]_vars => TurnInv'
<1> SUFFICES ASSUME TypeOK, PlaceInv, TurnInv, [Next]_vars PROVE TurnInv'
  OBVIOUS
<1> USE DEF TurnInv, kernel, clients
<1>0. it \in Nat /\ UdpClient \subseteq Client /\ TcpClient \subseteq Client
  BY MultiplexAssumption DEF TypeOK, Client
<1>1. CASE SendTo \/ Send
  <2>1. /\ peer \in Client /\ replies[peer] = <<>>
        /\ pc' = "wait" /\ it' = it /\ it = Cardinality(Answered) + 1
        /\ replies' = [replies EXCEPT ![peer] = Append(@, buffer)]
    BY <1>0, <1>1 DEF SendTo, Send, PlaceInv
  <2>2. Answered' = Answered \cup {peer} /\ peer \notin Answered
    BY <2>1 DEF Answered, TypeOK
  <2> QED
    BY <2>1, <2>2, FS_AddElement
<1>2. CASE Wait \/ RecvFrom \/ Accept \/ Recv \/ Finish \/ Fail
  <2>1. Answered' = Answered
    BY <1>2 DEF Wait, RecvFrom, Accept, Recv, Finish, Fail, Answered
  <2> QED
    BY <1>0, <1>2, <2>1 DEF Wait, RecvFrom, Accept, Recv, Finish, Fail
<1>3. CASE \/ UNCHANGED vars
           \/ \E c \in Client : SendDatagram(c) \/ Connect(c) \/ SendMessage(c)
                              \/ Vanish(c)
  <2>1. UNCHANGED <<pc, it, replies>>
    BY <1>3 DEF vars, SendDatagram, Connect, SendMessage, Vanish
  <2> QED
    BY <2>1 DEF Answered
<1> QED
  BY <1>1, <1>2, <1>3 DEF Next, Server

\* Every turn that has ended has answered one client.
THEOREM OneRequestPerTurnHolds == Spec => []OneRequestPerTurn
<1>1. Init => TurnInv
  <2> SUFFICES ASSUME Init PROVE TurnInv
    OBVIOUS
  <2>1. Answered = {}
    BY DEF Init, Answered
  <2> QED
    BY <2>1, FS_EmptySet DEF Init, TurnInv
<1>2. TurnInv => OneRequestPerTurn
  BY DEF TurnInv, OneRequestPerTurn, Answered
<1> QED
  BY <1>1, <1>2, PlaceInvHolds, TurnStep, PTL DEF Spec
=============================================================================
