------------------------- MODULE EchoServersProofs -------------------------
(***************************************************************************)
(* Theorems about EchoServers, for each of its programs, any number of     *)
(* clients and children, and whatever runs out.                            *)
(***************************************************************************)
EXTENDS EchoServers, TLAPS

\* What appending and taking the first do to a sequence.
LEMMA Appending ==
  ASSUME NEW S, NEW s \in Seq(S), NEW e \in S
  PROVE  /\ Append(s, e) \in Seq(S)
         /\ DOMAIN Append(s, e) = DOMAIN s \cup {Len(s) + 1}
         /\ Append(s, e)[Len(s) + 1] = e
         /\ \A i \in DOMAIN s : Append(s, e)[i] = s[i]
OBVIOUS

\* Taking the first of a sequence leaves the others, in order.
LEMMA Taking ==
  ASSUME NEW S, NEW s \in Seq(S), s # <<>>
  PROVE  /\ Tail(s) \in Seq(S) /\ Head(s) = s[1] /\ s[1] \in S
         /\ 1 \in DOMAIN s
         /\ \A i \in DOMAIN Tail(s) :
              i + 1 \in DOMAIN s /\ Tail(s)[i] = s[i + 1]
OBVIOUS

Sent(c) == [of |-> c, suffixes |-> 0]
Returned(c) == [of |-> c, suffixes |-> 1]

\* A reply is the text received, changed once.
LEMMA Texts ==
  /\ Garbage \in Text
  /\ \A c \in Client : Sent(c) \in Text /\ Answer(Sent(c)) = Returned(c)
  /\ \A text \in Text :
       /\ Answer(text) \in Text
       /\ Answer(text).of = text.of /\ Answer(text).suffixes = 1
BY DEF Text, Garbage, Sent, Returned, Answer

\* What is sent is a request, or a packet, that may be sent.
LEMMA Packets ==
  /\ \A c \in Client :
       /\ [src |-> Address(c), text |-> Sent(c)] \in Request
       /\ [src |-> Address(c), dst |-> PORT, text |-> Sent(c)] \in Packet
  /\ \A to \in Peer, text \in Text :
       [src |-> PORT, dst |-> to, text |-> text] \in Packet
  /\ \A packet \in Packet : packet.text \in Text
  /\ \A request \in Request :
       request.text \in Text /\ request.src \in Client \cup {CLIENT_PORT}
BY Texts DEF Request, Packet, Peer, Address

----------------------------------------------------------------------------
\* What a delivery adds to the sockets is the packet, where it belongs.
Belongs(c, packet) == pc[c] # "gone" /\ (Raw(c) \/ packet.dst = c)

\* A delivered packet is the last of the clients it belongs to.
LEMMA Delivery ==
  ASSUME inbox \in [Client -> Seq(Packet)],
         NEW packet \in Packet, Delivered(packet)
  PROVE  /\ inbox' \in [Client -> Seq(Packet)]
         /\ \A c \in Client : \A i \in DOMAIN inbox'[c] :
              \/ i \in DOMAIN inbox[c] /\ inbox'[c][i] = inbox[c][i]
              \/ inbox'[c][i] = packet /\ Belongs(c, packet)
<1>1. \A c \in Client :
        \/ inbox'[c] = inbox[c]
        \/ inbox'[c] = Append(inbox[c], packet) /\ Belongs(c, packet)
  BY DEF Delivered, Belongs
<1>2. \A c \in Client :
        /\ Append(inbox[c], packet) \in Seq(Packet)
        /\ DOMAIN Append(inbox[c], packet)
             = DOMAIN inbox[c] \cup {Len(inbox[c]) + 1}
        /\ Append(inbox[c], packet)[Len(inbox[c]) + 1] = packet
        /\ \A i \in DOMAIN inbox[c] :
             Append(inbox[c], packet)[i] = inbox[c][i]
  BY Appending
<1>3. ASSUME NEW c \in Client PROVE inbox'[c] \in Seq(Packet)
  BY <1>1, <1>2
<1>4. DOMAIN inbox' = Client /\ inbox' = [c \in Client |-> inbox'[c]]
  BY DEF Delivered
<1>5. inbox' \in [Client -> Seq(Packet)]
  BY <1>3, <1>4
<1>6. ASSUME NEW c \in Client, NEW i \in DOMAIN inbox'[c]
      PROVE  \/ i \in DOMAIN inbox[c] /\ inbox'[c][i] = inbox[c][i]
             \/ inbox'[c][i] = packet /\ Belongs(c, packet)
  BY <1>1, <1>2
<1> QED
  BY <1>5, <1>6
----------------------------------------------------------------------------
\* No step takes a variable out of its range.
LEMMA TypeStep == TypeOK /\ [Next]_vars => TypeOK'
<1> SUFFICES ASSUME TypeOK, [Next]_vars PROVE TypeOK'
  OBVIOUS
<1> USE DEF TypeOK, setting, serverSide, network
<1>0. /\ server.buffer \in Text /\ server.peer \in Peer
      /\ Client \subseteq Peer /\ Nobody \in Peer
      /\ \A c \in Client : child[c].buffer \in Text /\ child[c].peer \in Peer
      /\ \A c \in Client : Sent(c) \in Text
      /\ server \in Serving /\ child \in [Client -> Served]
  BY Texts DEF Peer, Serving, Served
<1>1. CASE UNCHANGED vars
  BY <1>1 DEF vars
<1>2. ASSUME NEW c \in Client,
             \/ Open(c) \/ Send(c) \/ ForkWaiter(c) \/ Leave(c) \/ Reset(c)
             \/ Killed(c)
      PROVE  TypeOK'
  <2>1. \E place \in Place : pc' = pc \/ pc' = [pc EXCEPT ![c] = place]
    BY <1>2 DEF Open, Send, ForkWaiter, Leave, Reset, Killed, Goto, Place,
                AfterSend
  <2>2. pc' \in [Client -> Place]
    BY <2>1
  <2>3. /\ tester' \in {"run", "ended"} /\ wire' \subseteq Client
        /\ UNCHANGED <<setting, serverSide, child, inbox, got, queue, backlog,
                       lost>>
    BY <1>2 DEF Open, Send, ForkWaiter, Leave, Reset, Killed, TesterStops
  <2> QED
    BY <2>2, <2>3
<1>3. ASSUME NEW c \in Client, Connect(c) PROVE TypeOK'
  <2>1. backlog' \in Seq(Client)
    <3>1. backlog' = backlog \/ backlog' = Append(backlog, c)
      BY <1>3 DEF Connect
    <3>2. Append(backlog, c) \in Seq(Client)
      BY Appending
    <3> QED
      BY <3>1, <3>2
  <2>2. pc' \in [Client -> Place]
    BY <1>3 DEF Connect, Goto, Place
  <2>3. tester' \in {"run", "ended"}
    BY <1>3 DEF Connect, TesterStops
  <2> QED
    BY <1>3, <2>1, <2>2, <2>3 DEF Connect
<1>4. ASSUME NEW c \in Client, SendTo(c) PROVE TypeOK'
  <2>1. /\ Delivered([src |-> Address(c), dst |-> PORT, text |-> Sent(c)])
        /\ \/ queue' = queue
           \/ queue' = Append(queue, [src |-> Address(c), text |-> Sent(c)])
    BY <1>4 DEF SendTo, Sent
  <2>2. inbox' \in [Client -> Seq(Packet)]
    BY <2>1, Packets, Delivery
  <2>3. queue' \in Seq(Request)
    <3>1. [src |-> Address(c), text |-> Sent(c)] \in Request
      BY Packets
    <3>2. Append(queue, [src |-> Address(c), text |-> Sent(c)])
            \in Seq(Request)
      BY <3>1, Appending
    <3> QED
      BY <2>1, <3>2
  <2>4. pc' \in [Client -> Place]
    BY <1>4 DEF SendTo, Goto, Place, AfterSend
  <2>5. lost' \subseteq Peer
    BY <1>0, <1>4 DEF SendTo
  <2> QED
    BY <1>4, <2>2, <2>3, <2>4, <2>5 DEF SendTo
<1>5. ASSUME NEW c \in Client, Receive(c) PROVE TypeOK'
  <2>1. Tail(inbox[c]) \in Seq(Packet) /\ Head(inbox[c]).text \in Text
    BY <1>5, Taking, Packets DEF Receive
  <2>2. inbox' \in [Client -> Seq(Packet)] /\ got' \in [Client -> Text]
    BY <1>5, <2>1 DEF Receive
  <2>3. pc' \in [Client -> Place]
    BY <1>5 DEF Receive, Goto, Place
  <2> QED
    BY <1>5, <2>2, <2>3 DEF Receive
<1>6. CASE RecvFrom \/ Message
  <2>1. /\ Tail(queue) \in Seq(Request) /\ Head(queue).text \in Text
        /\ Head(queue).src \in Peer
    BY <1>6, Taking, Packets DEF RecvFrom, Message, Peer
  <2>2. \/ server' = [server EXCEPT !.pc = "ended"]
        \/ \E place \in {"fork", "send"} :
             server' = [pc |-> place, buffer |-> Head(queue).text,
                        peer |-> Head(queue).src]
    BY <1>6 DEF RecvFrom, Message
  <2>3. queue' \in Seq(Request)
    BY <1>6, <2>1 DEF RecvFrom, Message
  <2>4. server' \in Serving
    <3> HIDE DEF TypeOK
    <3> QED
      BY <1>0, <2>1, <2>2 DEF Serving
  <2> QED
    BY <1>6, <2>3, <2>4 DEF RecvFrom, Message, Serving
<1>7. CASE Accept \/ AcceptOrAlarm
  <2>1. CASE Ends
    <3>1. server' \in Serving
      <4> HIDE DEF TypeOK
      <4> QED
        BY <1>0, <2>1 DEF Serving, Ends
    <3> QED
      BY <1>7, <2>1, <3>1 DEF Accept, AcceptOrAlarm, Ends, Serving
  <2>2. CASE \E place \in {"fork", "recv"} : Accepts(place)
    <3>1. Head(backlog) \in Client /\ Tail(backlog) \in Seq(Client)
      BY <2>2, Taking DEF Accepts
    <3>2. server' \in Serving
      <4> HIDE DEF TypeOK
      <4> QED
        BY <1>0, <2>2, <3>1 DEF Serving, Accepts
    <3> QED
      BY <1>7, <2>2, <3>1, <3>2 DEF Accept, AcceptOrAlarm, Accepts, Serving
  <2> QED
    BY <1>7, <2>1, <2>2 DEF Accept, AcceptOrAlarm
<1>8. CASE Recv \/ RecvOrAlarm
  <2>1. server.peer \in wire => Sent(server.peer) \in Text
    BY <1>0
  <2>2. Received(server.peer, server.buffer) \in Text
    BY <1>0, <2>1 DEF Received, Sent
  <2>3. \/ server' = [server EXCEPT !.pc = "ended"]
        \/ server' = [server EXCEPT !.pc = "send", !.buffer =
                                       Received(server.peer, server.buffer)]
    BY <1>8 DEF Recv, RecvOrAlarm
  <2>4. server' \in Serving
    <3> HIDE DEF TypeOK
    <3> QED
      BY <1>0, <2>2, <2>3 DEF Serving
  <2> QED
    BY <1>8, <2>4 DEF Recv, RecvOrAlarm, Serving
<1>9. ASSUME NEW c \in Client, ChildRecv(c) PROVE TypeOK'
  <2>1. Received(c, child[c].buffer) \in Text
    BY <1>0 DEF Received, Sent
  <2>2. child' \in [Client -> Served]
    <3> HIDE DEF TypeOK
    <3> QED
      <4>1. child' = [child EXCEPT ![c].pc = "send",
                        ![c].buffer = Received(c, child[c].buffer)]
        BY <1>9 DEF ChildRecv
      <4>2. [child[c] EXCEPT !.pc = "send",
                             !.buffer = Received(c, child[c].buffer)]
              \in Served
        <5>1. ASSUME NEW r \in Served, NEW text \in Text
              PROVE  [r EXCEPT !.pc = "send", !.buffer = text] \in Served
          BY <5>1 DEF Served
        <5> QED
          BY <1>0, <2>1, <5>1
      <4>3. child' = [child EXCEPT ![c] =
              [child[c] EXCEPT !.pc = "send",
                               !.buffer = Received(c, child[c].buffer)]]
        BY <1>0, <4>1
      <4> QED
        BY <1>0, <4>2, <4>3
  <2>3. /\ wire' \subseteq Client
        /\ UNCHANGED <<setting, serverSide, tester, pc, got, inbox, queue,
                       backlog, lost>>
    BY <1>9 DEF ChildRecv
  <2> QED
    BY <2>2, <2>3 DEF Served
<1>10. CASE ReplyAndExit \/ ReplyOrAlarm
  <2>1. inbox' \in [Client -> Seq(Packet)]
    BY <1>0, <1>10, Texts, Packets, Delivery
       DEF ReplyAndExit, ReplyOrAlarm, Reply
  <2>2. \E place \in {"wait", "ended"} :
          server' = [server EXCEPT !.pc = place]
    BY <1>10 DEF ReplyAndExit, ReplyOrAlarm
  <2>3. server' \in Serving
    <3> HIDE DEF TypeOK
    <3> QED
      BY <1>0, <2>2 DEF Serving
  <2> QED
    BY <1>10, <2>1, <2>3 DEF ReplyAndExit, ReplyOrAlarm, Serving
<1>11. ASSUME NEW c \in Client, ChildSend(c) PROVE TypeOK'
  <2>1. inbox' \in [Client -> Seq(Packet)]
    BY <1>0, <1>11, Texts, Packets, Delivery DEF ChildSend, Reply
  <2>2. \E place \in {"sleep", "zombie"} :
          child' = [child EXCEPT ![c].pc = place]
    BY <1>11 DEF ChildSend
  <2>3. child' \in [Client -> Served]
    <3> HIDE DEF TypeOK
    <3> QED
      BY <1>0, <2>2 DEF Served
  <2>4. UNCHANGED <<setting, serverSide, tester, pc, got, queue, backlog, wire,
                    lost>>
    BY <1>11 DEF ChildSend
  <2> QED
    BY <2>1, <2>3, <2>4
<1>12. ASSUME NEW c \in Client, ChildExits(c) PROVE TypeOK'
  <2>1. child' \in [Client -> Served]
    <3> HIDE DEF TypeOK
    <3> QED
      BY <1>0, <1>12 DEF ChildExits, Served
  <2> QED
    BY <1>12, <2>1 DEF ChildExits
<1>13. CASE Fork
  <2>1. server' = [server EXCEPT !.pc = "wait"]
    BY <1>13 DEF Fork
  <2>2. child' = child \/ child' = [child EXCEPT ![server.peer] = Forked]
    BY <1>13 DEF Fork
  <2>3. Forked \in Served
    BY <1>0 DEF Forked, Served
  <2>4. server' \in Serving /\ child' \in [Client -> Served]
    <3> HIDE DEF TypeOK
    <3> QED
      BY <1>0, <2>1, <2>2, <2>3 DEF Serving
  <2>5. lost' \subseteq Peer
    BY <1>0, <1>13 DEF Fork
  <2> QED
    BY <1>13, <2>4, <2>5 DEF Fork, Serving, Served
<1>14. CASE ServerFails
  <2>1. server' = [server EXCEPT !.pc = "ended"]
    BY <1>14 DEF ServerFails
  <2>2. server' \in Serving
    <3> HIDE DEF TypeOK
    <3> QED
      BY <1>0, <2>1 DEF Serving
  <2>3. {queue[i].text.of : i \in DOMAIN queue} \subseteq Peer
    BY Packets DEF Peer, Text
  <2>4. server.buffer.of \in Peer
    BY <1>0 DEF Peer, Text
  <2>5. lost' \subseteq Peer
    BY <1>14, <2>3, <2>4 DEF ServerFails
  <2> QED
    BY <1>14, <2>2, <2>5 DEF ServerFails, Serving
<1>15. ASSUME NEW c \in Client, ChildFails(c) PROVE TypeOK'
  <2>1. child' \in [Client -> Served]
    <3> HIDE DEF TypeOK
    <3> QED
      BY <1>0, <1>15 DEF ChildFails, Served
  <2>2. lost' \subseteq Peer
    BY <1>0, <1>15 DEF ChildFails
  <2> QED
    BY <1>15, <2>1, <2>2 DEF ChildFails
<1> QED
  BY <1>1, <1>2, <1>3, <1>4, <1>5, <1>6, <1>7, <1>8, <1>9, <1>10, <1>11,
     <1>12, <1>13, <1>14, <1>15
     DEF Next, ServerStep, ClientStep, ChildStep

\* The variables stay in their ranges.
THEOREM TypeCorrect == Spec => []TypeOK
<1>1. Init => TypeOK
  BY EchoAssumption, Texts DEF Init, TypeOK, Peer, Place, Serving, Served
<1> QED
  BY <1>1, TypeStep, PTL DEF Spec

----------------------------------------------------------------------------
(* What is under way to a client, wherever it is, is the client's own.     *)

\* A text that may be answered to a peer.  After the end of a connection the
\* buffer holds what it held before, but then its client has gone.
Right(text, peer) ==
  /\ peer \in Client => text = Sent(peer) \/ pc[peer] = "gone"
  /\ peer = CLIENT_PORT => text.of \in RawClient

\* A packet that may be in the socket of a client.
Owed(c, packet) ==
  IF Raw(c)
  THEN IsServerPacket(packet) =>
         packet.text.of \in RawClient /\ packet.text.suffixes = 1
  ELSE packet.text = Returned(c)

InboxInv == \A c \in Client : \A i \in DOMAIN inbox[c] : Owed(c, inbox[c][i])

QueueInv == \A i \in DOMAIN queue : Right(queue[i].text, queue[i].src)

ServerInv ==
  /\ server.pc = "recv" \/ (server.pc = "fork" /\ ~Datagrams) =>
       server.peer \in Client
  /\ server.pc = "send" \/ (server.pc = "fork" /\ Datagrams) =>
       Right(server.buffer, server.peer)

ChildInv ==
  \A c \in Client :
    /\ child[c].pc # "none" => child[c].peer = c
    /\ child[c].pc = "send" => Right(child[c].buffer, child[c].peer)

GotInv == OwnReply /\ RawTakesAnswers

TextInv == InboxInv /\ QueueInv /\ ServerInv /\ ChildInv /\ GotInv

\* Who has gone does not come back.
LEMMA GoneStaysGone ==
  TypeOK /\ [Next]_vars =>
    \A c \in Client : pc[c] = "gone" => pc'[c] = "gone"
<1> SUFFICES ASSUME TypeOK, [Next]_vars, NEW c \in Client, pc[c] = "gone"
             PROVE  pc'[c] = "gone"
  OBVIOUS
<1>0. pc \in [Client -> Place]
  BY DEF TypeOK
<1>1. CASE UNCHANGED vars \/ ServerStep \/ ServerFails
  BY <1>1 DEF vars, ServerStep, ServerFails, RecvFrom, Accept, Recv, ReplyAndExit, Fork,
              Message, AcceptOrAlarm, RecvOrAlarm, ReplyOrAlarm
<1>2. ASSUME NEW d \in Client, ChildStep(d) \/ ChildFails(d)
      PROVE  pc'[c] = "gone"
  BY <1>2 DEF ChildStep, ChildRecv, ChildSend, ChildExits, ChildFails
<1>3. ASSUME NEW d \in Client, Open(d) \/ ClientStep(d) \/ Killed(d)
      PROVE  pc'[c] = "gone"
  <2>1. \/ pc' = pc
        \/ pc[d] # "gone" /\ \E place : pc' = [pc EXCEPT ![d] = place]
    BY <1>3 DEF Open, ClientStep, Connect, SendTo, Send, ForkWaiter, Receive,
                Leave, Reset, Killed, Goto, Starting
  <2> QED
    BY <1>0, <2>1
<1> QED
  BY <1>1, <1>2, <1>3 DEF Next

\* A right text stays right.
StillRight(text, peer) ==
  /\ peer \in Client => text = Sent(peer) \/ pc'[peer] = "gone"
  /\ peer = CLIENT_PORT => text.of \in RawClient

\* A text that is right for its receiver stays so, or he has gone.
LEMMA RightStaysRight ==
  ASSUME TypeOK, [Next]_vars
  PROVE  \A text, peer : Right(text, peer) => StillRight(text, peer)
BY GoneStaysGone DEF Right, StillRight

\* A reply with a right text is owed to whom it reaches.
LEMMA RepliesAreOwed ==
  ASSUME NEW text \in Text, NEW peer \in Peer, Right(text, peer),
         NEW c \in Client,
         Belongs(c, [src |-> PORT, dst |-> peer, text |-> Answer(text)])
  PROVE  Owed(c, [src |-> PORT, dst |-> peer, text |-> Answer(text)])
BY EchoAssumption, Texts DEF Belongs, Owed, Right, IsServerPacket

\* Nobody but a raw client sees a request, which is not from the server.
LEMMA RequestsAreOwed ==
  ASSUME NEW d \in Client, NEW c \in Client,
         Belongs(c, [src |-> Address(d), dst |-> PORT, text |-> Sent(d)])
  PROVE  Owed(c, [src |-> Address(d), dst |-> PORT, text |-> Sent(d)])
BY EchoAssumption DEF Belongs, Owed, IsServerPacket, PORT, CLIENT_PORT

\* No step puts a text at a place where it is not right.
LEMMA TextStep == TypeOK /\ TextInv /\ [Next]_vars => TextInv'
<1> SUFFICES ASSUME TypeOK, TextInv, [Next]_vars PROVE TextInv'
  OBVIOUS
<1> USE DEF TextInv, setting, serverSide, network
<1>0. /\ pc \in [Client -> Place] /\ inbox \in [Client -> Seq(Packet)]
      /\ queue \in Seq(Request) /\ backlog \in Seq(Client)
      /\ got \in [Client -> Text] /\ wire \subseteq Client
      /\ server \in Serving /\ child \in [Client -> Served]
      /\ server.buffer \in Text /\ server.peer \in Peer
      /\ \A c \in Client : child[c].buffer \in Text /\ child[c].peer \in Peer
  BY DEF TypeOK, Serving, Served
<1>r. \A text, peer : Right(text, peer) => StillRight(text, peer)
  BY RightStaysRight
\* What holds of the parts a step leaves alone.
<1>a. program' = program
  BY DEF Next, vars, ServerStep, ClientStep, ChildStep, Open, Connect, SendTo,
         Send, ForkWaiter, Receive, Leave, Reset, Killed, RecvFrom, Accept,
         Recv, ReplyAndExit, Fork, Message, AcceptOrAlarm, RecvOrAlarm,
         ReplyOrAlarm, ChildRecv, ChildSend, ChildExits, ChildFails,
         ServerFails
<1>b. ASSUME UNCHANGED inbox PROVE InboxInv'
  BY <1>a, <1>b DEF InboxInv, Owed, Raw
<1>c. ASSUME UNCHANGED queue PROVE QueueInv'
  BY <1>r, <1>c DEF QueueInv, Right, StillRight
<1>d. ASSUME UNCHANGED server PROVE ServerInv'
  BY <1>r, <1>a, <1>d DEF ServerInv, Right, StillRight, Datagrams
<1>e. ASSUME UNCHANGED child PROVE ChildInv'
  BY <1>r, <1>e DEF ChildInv, Right, StillRight
<1>f. ASSUME UNCHANGED got,
             \A c \in Client : pc'[c] \in {"got", "done"} =>
                                pc[c] \in {"got", "done"}
      PROVE  GotInv'
  BY <1>a, <1>f, EchoAssumption
     DEF GotInv, OwnReply, RawTakesAnswers, Raw
<1>g. ASSUME NEW text \in Text, NEW peer \in Peer, Right(text, peer),
             Delivered([src |-> PORT, dst |-> peer, text |-> Answer(text)])
      PROVE  InboxInv'
  <2>1. [src |-> PORT, dst |-> peer, text |-> Answer(text)] \in Packet
    BY Texts, Packets
  <2>2. \A c \in Client : \A i \in DOMAIN inbox'[c] : Owed(c, inbox'[c][i])
    <3>1. \A c \in Client : \A i \in DOMAIN inbox'[c] :
            \/ i \in DOMAIN inbox[c] /\ inbox'[c][i] = inbox[c][i]
            \/ /\ inbox'[c][i] = [src |-> PORT, dst |-> peer,
                                  text |-> Answer(text)]
               /\ Belongs(c, [src |-> PORT, dst |-> peer,
                              text |-> Answer(text)])
      BY <1>0, <1>g, <2>1, Delivery
    <3> QED
      BY <1>g, <3>1, RepliesAreOwed DEF InboxInv
  <2> QED
    BY <1>a, <2>2 DEF InboxInv, Owed, Raw
<1>11. CASE UNCHANGED vars
  BY <1>11, <1>b, <1>c, <1>d, <1>e, <1>f DEF vars
<1>1. ASSUME NEW c \in Client,
             \/ Open(c) \/ Connect(c) \/ Send(c) \/ ForkWaiter(c) \/ Leave(c)
             \/ Reset(c) \/ Killed(c)
      PROVE  TextInv'
  <2>1. /\ UNCHANGED <<inbox, queue, server, child, got>>
        /\ \/ pc' = pc
           \/ /\ pc[c] = "got"
              /\ \E place \in Place : pc' = [pc EXCEPT ![c] = place]
           \/ \E place \in Place \ {"got", "done"} :
                pc' = [pc EXCEPT ![c] = place]
    BY <1>1 DEF Open, Connect, Send, ForkWaiter, Leave, Reset, Killed,
                Goto, Place, AfterSend
  <2> QED
    BY <1>0, <1>b, <1>c, <1>d, <1>e, <1>f, <2>1
<1>2. ASSUME NEW c \in Client, SendTo(c) PROVE TextInv'
  <2>1. /\ Delivered([src |-> Address(c), dst |-> PORT, text |-> Sent(c)])
        /\ \/ queue' = queue
           \/ queue' = Append(queue, [src |-> Address(c), text |-> Sent(c)])
        /\ UNCHANGED <<server, child, got>>
        /\ \E place \in Place \ {"got", "done"} :
             pc' = [pc EXCEPT ![c] = place]
    BY <1>2 DEF SendTo, Sent, Goto, Place, AfterSend
  <2>2. InboxInv'
    <3>1. [src |-> Address(c), dst |-> PORT, text |-> Sent(c)] \in Packet
      BY Packets
    <3>2. \A d \in Client : \A i \in DOMAIN inbox'[d] : Owed(d, inbox'[d][i])
      <4>1. \A d \in Client : \A i \in DOMAIN inbox'[d] :
              \/ i \in DOMAIN inbox[d] /\ inbox'[d][i] = inbox[d][i]
              \/ /\ inbox'[d][i] = [src |-> Address(c), dst |-> PORT,
                                    text |-> Sent(c)]
                 /\ Belongs(d, [src |-> Address(c), dst |-> PORT,
                                text |-> Sent(c)])
        BY <1>0, <2>1, <3>1, Delivery
      <4> QED
        BY <4>1, RequestsAreOwed DEF InboxInv
    <3> QED
      BY <1>a, <3>2 DEF InboxInv, Owed, Raw
  <2>3. QueueInv'
    <3>1. Right(Sent(c), Address(c))
      BY EchoAssumption DEF Right, Sent, Address, Raw
    <3>2. CASE queue' = Append(queue, [src |-> Address(c), text |-> Sent(c)])
      <4>1. [src |-> Address(c), text |-> Sent(c)] \in Request
        BY Packets
      <4>2. /\ DOMAIN queue' = DOMAIN queue \cup {Len(queue) + 1}
            /\ queue'[Len(queue) + 1] = [src |-> Address(c), text |-> Sent(c)]
            /\ \A i \in DOMAIN queue : queue'[i] = queue[i]
        BY <1>0, <3>2, <4>1, Appending
      <4>3. \A i \in DOMAIN queue' : Right(queue'[i].text, queue'[i].src)
        BY <3>1, <4>2 DEF QueueInv
      <4> QED
        BY <1>r, <4>3 DEF QueueInv, Right, StillRight
    <3> QED
      BY <1>c, <2>1, <3>2
  <2>4. GotInv'
    BY <1>0, <1>f, <2>1
  <2> QED
    BY <1>d, <1>e, <2>1, <2>2, <2>3, <2>4
<1>3. ASSUME NEW c \in Client, Receive(c) PROVE TextInv'
  <2>1. /\ Head(inbox[c]) = inbox[c][1] /\ 1 \in DOMAIN inbox[c]
        /\ \A i \in DOMAIN Tail(inbox[c]) :
             i + 1 \in DOMAIN inbox[c] /\ Tail(inbox[c])[i] = inbox[c][i + 1]
    BY <1>0, <1>3, Taking DEF Receive
  <2>2. InboxInv'
    <3>1. inbox' = [inbox EXCEPT ![c] = Tail(inbox[c])]
      BY <1>3 DEF Receive
    <3>2. \A d \in Client : \A i \in DOMAIN inbox'[d] : Owed(d, inbox'[d][i])
      <4>1. /\ inbox'[c] = Tail(inbox[c])
            /\ \A d \in Client : d # c => inbox'[d] = inbox[d]
        BY <1>0, <3>1
      <4>2. ASSUME NEW i \in DOMAIN Tail(inbox[c])
            PROVE  Owed(c, Tail(inbox[c])[i])
        <5>1. Owed(c, inbox[c][i + 1])
          BY <2>1 DEF InboxInv
        <5> QED
          BY <2>1, <5>1
      <4>3. ASSUME NEW d \in Client, d # c, NEW i \in DOMAIN inbox'[d]
            PROVE  Owed(d, inbox'[d][i])
        BY <4>1, <4>3 DEF InboxInv
      <4> QED
        BY <4>1, <4>2, <4>3
    <3> QED
      BY <1>a, <3>2 DEF InboxInv, Owed, Raw
  <2>3. Owed(c, Head(inbox[c]))
    BY <2>1 DEF InboxInv
  <2>4. GotInv'
    <3>1. CASE UNCHANGED <<got, pc>>
      BY <1>f, <3>1
    <3>2. CASE /\ Raw(c) => IsServerPacket(Head(inbox[c]))
               /\ got' = [got EXCEPT ![c] = Head(inbox[c]).text]
               /\ pc' = [pc EXCEPT ![c] = "got"]
      BY <1>0, <1>a, <2>3, <3>2, EchoAssumption
         DEF GotInv, OwnReply, RawTakesAnswers, Raw, Owed, Returned
    <3> QED
      BY <1>3, <3>1, <3>2 DEF Receive, Goto
  <2> QED
    BY <1>3, <1>c, <1>d, <1>e, <2>2, <2>4 DEF Receive
<1>4. CASE RecvFrom \/ Message
  <2>1. /\ queue # <<>> /\ queue' = Tail(queue)
        /\ UNCHANGED <<inbox, child, got, pc>>
        /\ \/ server' = [server EXCEPT !.pc = "ended"]
           \/ \E place \in {"fork", "send"} :
                server' = [pc |-> place, buffer |-> Head(queue).text,
                           peer |-> Head(queue).src]
        /\ Datagrams
    BY <1>4 DEF RecvFrom, Message, Datagrams
  <2>2. /\ Head(queue) = queue[1] /\ 1 \in DOMAIN queue
        /\ \A i \in DOMAIN Tail(queue) :
             i + 1 \in DOMAIN queue /\ Tail(queue)[i] = queue[i + 1]
    BY <1>0, <2>1, Taking
  <2>3. \A i \in DOMAIN queue' : Right(queue'[i].text, queue'[i].src)
    BY <2>1, <2>2 DEF QueueInv
  <2>4. Right(Head(queue).text, Head(queue).src)
    BY <2>2 DEF QueueInv
  <2>5. QueueInv'
    BY <1>r, <2>3 DEF QueueInv, Right, StillRight
  <2>6. ServerInv'
    BY <1>r, <1>0, <1>a, <2>1, <2>4
       DEF ServerInv, Right, StillRight, Datagrams, Serving
  <2> QED
    BY <1>b, <1>e, <1>f, <2>1, <2>5, <2>6
<1>5. CASE Accept \/ AcceptOrAlarm
  <2>1. UNCHANGED <<inbox, queue, child, got, pc>> /\ ~Datagrams
    BY <1>5 DEF Accept, AcceptOrAlarm, Accepts, Ends
  <2>2. ServerInv'
    <3>1. CASE Ends
      BY <1>0, <3>1 DEF ServerInv, Ends, Serving
    <3>2. CASE \E place \in {"fork", "recv"} : Accepts(place)
      <4>1. Head(backlog) \in Client
        BY <1>0, <3>2, Taking DEF Accepts
      <4> QED
        BY <1>0, <1>a, <2>1, <3>2, <4>1
           DEF ServerInv, Accepts, Serving, Datagrams
    <3> QED
      BY <1>5, <3>1, <3>2 DEF Accept, AcceptOrAlarm
  <2> QED
    BY <1>b, <1>c, <1>e, <1>f, <2>1, <2>2
<1>6. CASE Recv \/ RecvOrAlarm
  <2>1. UNCHANGED <<inbox, queue, child, got, pc>>
    BY <1>6 DEF Recv, RecvOrAlarm
  <2>2. \/ server' = [server EXCEPT !.pc = "ended"]
        \/ /\ server.peer \in wire \/ pc[server.peer] = "gone"
           /\ server' = [server EXCEPT !.pc = "send",
                !.buffer = Received(server.peer, server.buffer)]
    BY <1>6 DEF Recv, RecvOrAlarm, CanRecv
  <2>3. server.pc = "recv"
    BY <1>6 DEF Recv, RecvOrAlarm
  <2>4. server.peer \in wire \/ pc[server.peer] = "gone" =>
          Right(Received(server.peer, server.buffer), server.peer)
    BY <2>3, EchoAssumption DEF ServerInv, Right, Received, Sent
  <2>5. ServerInv'
    <3>1. CASE server' = [server EXCEPT !.pc = "ended"]
      BY <1>0, <3>1 DEF ServerInv, Serving
    <3>2. CASE /\ server.peer \in wire \/ pc[server.peer] = "gone"
               /\ server' = [server EXCEPT !.pc = "send",
                    !.buffer = Received(server.peer, server.buffer)]
      <4>1. /\ server'.pc = "send" /\ server'.peer = server.peer
            /\ server'.buffer = Received(server.peer, server.buffer)
        BY <1>0, <3>2 DEF Serving
      <4>2. Right(server'.buffer, server'.peer)
        BY <2>4, <3>2, <4>1
      <4> QED
        BY <1>r, <4>1, <4>2 DEF ServerInv, Right, StillRight
    <3> QED
      BY <2>2, <3>1, <3>2
  <2> QED
    BY <1>b, <1>c, <1>e, <1>f, <2>1, <2>5
<1>7. CASE ReplyAndExit \/ ReplyOrAlarm
  <2>1. /\ UNCHANGED <<queue, child, got, pc>>
        /\ server.pc = "send"
        /\ \E place \in {"wait", "ended"} :
             server' = [server EXCEPT !.pc = place]
        /\ Reply(server.peer, server.buffer)
    BY <1>7 DEF ReplyAndExit, ReplyOrAlarm
  <2>2. InboxInv'
    BY <1>0, <1>g, <2>1 DEF ServerInv, Reply
  <2>3. ServerInv'
    BY <1>0, <2>1 DEF ServerInv, Serving
  <2> QED
    BY <1>c, <1>e, <1>f, <2>1, <2>2, <2>3
<1>8. CASE Fork
  <2>1. /\ UNCHANGED <<inbox, queue, got, pc>> /\ server.pc = "fork"
        /\ server' = [server EXCEPT !.pc = "wait"]
        /\ child' = child \/ child' = [child EXCEPT ![server.peer] = Forked]
    BY <1>8 DEF Fork
  <2>2. ServerInv'
    BY <1>0, <2>1 DEF ServerInv, Serving
  <2>3. CASE child' = [child EXCEPT ![server.peer] = Forked]
    <3>1. /\ Forked.peer = server.peer
          /\ Forked.pc = "send" => Right(Forked.buffer, Forked.peer)
      BY <2>1 DEF Forked, ServerInv
    <3>2. \A c \in Client :
            /\ child'[c].pc # "none" => child'[c].peer = c
            /\ child'[c].pc = "send" => Right(child'[c].buffer, child'[c].peer)
      BY <1>0, <2>3, <3>1 DEF ChildInv
    <3>3. ChildInv'
      BY <1>r, <3>2 DEF ChildInv, Right, StillRight
    <3> QED
      BY <1>b, <1>c, <1>f, <2>1, <2>2, <3>3
  <2> QED
    BY <1>b, <1>c, <1>e, <1>f, <2>1, <2>2, <2>3
<1>9. ASSUME NEW c \in Client, ChildRecv(c) PROVE TextInv'
  <2>1. /\ UNCHANGED <<inbox, queue, got, pc, server>>
        /\ child[c].pc = "recv" /\ (c \in wire \/ pc[c] = "gone")
        /\ child' = [child EXCEPT ![c].pc = "send",
                         ![c].buffer = Received(c, child[c].buffer)]
    BY <1>9 DEF ChildRecv, CanRecv
  <2>2. Right(Received(c, child[c].buffer), c)
    BY <2>1, EchoAssumption DEF Right, Received, Sent
  <2>3. /\ child'[c].peer = child[c].peer
        /\ child'[c].buffer = Received(c, child[c].buffer)
        /\ \A d \in Client : d # c => child'[d] = child[d]
    BY <1>0, <2>1 DEF Served
  <2>4. \A d \in Client :
          /\ child'[d].pc # "none" => child'[d].peer = d
          /\ child'[d].pc = "send" => Right(child'[d].buffer, child'[d].peer)
    BY <2>1, <2>2, <2>3 DEF ChildInv
  <2>5. ChildInv'
    BY <1>r, <2>4 DEF ChildInv, Right, StillRight
  <2> QED
    BY <1>b, <1>c, <1>d, <1>f, <2>1, <2>5
<1>10. ASSUME NEW c \in Client, ChildSend(c) \/ ChildExits(c) \/ ChildFails(c)
       PROVE  TextInv'
  <2>1. /\ UNCHANGED <<queue, got, pc, server>>
        /\ child[c].pc # "none"
        /\ \E place \in {"sleep", "zombie"} :
             child' = [child EXCEPT ![c].pc = place]
        /\ \/ UNCHANGED inbox
           \/ child[c].pc = "send" /\ Reply(child[c].peer, child[c].buffer)
    BY <1>10 DEF ChildSend, ChildExits, ChildFails
  <2>2. /\ child'[c].peer = child[c].peer /\ child'[c].pc # "send"
        /\ \A d \in Client : d # c => child'[d] = child[d]
    BY <1>0, <2>1 DEF Served
  <2>3. InboxInv'
    BY <1>0, <1>b, <1>g, <2>1 DEF ChildInv, Reply
  <2>4. ChildInv'
    BY <1>r, <2>1, <2>2 DEF ChildInv, Right, StillRight
  <2> QED
    BY <1>c, <1>d, <1>f, <2>1, <2>3, <2>4
<1>12. CASE ServerFails
  <2>1. /\ UNCHANGED <<inbox, queue, child, got, pc>>
        /\ server' = [server EXCEPT !.pc = "ended"]
    BY <1>12 DEF ServerFails
  <2>2. ServerInv'
    BY <1>0, <2>1 DEF ServerInv, Serving
  <2> QED
    BY <1>b, <1>c, <1>e, <1>f, <2>1, <2>2
<1> QED
  BY <1>1, <1>2, <1>3, <1>4, <1>5, <1>6, <1>7, <1>8, <1>9, <1>10,
     <1>11, <1>12
     DEF Next, ServerStep, ClientStep, ChildStep

\* Wherever a text is on its way to a client, it is right for that client.
LEMMA TextInvHolds == Spec => [](TypeOK /\ TextInv)
<1>1. Init => TextInv
  <2> SUFFICES ASSUME Init PROVE TextInv
    OBVIOUS
  <2>1. InboxInv /\ QueueInv
    BY DEF Init, InboxInv, QueueInv
  <2>2. ServerInv /\ ChildInv
    BY DEF Init, ServerInv, ChildInv
  <2>3. GotInv
    BY EchoAssumption DEF Init, GotInv, OwnReply, RawTakesAnswers
  <2> QED
    BY <2>1, <2>2, <2>3 DEF TextInv
<1> QED
  BY <1>1, TypeCorrect, TextStep, PTL DEF Spec

\* However many children answer while their parents go on: a client of any of
\* the servers gets the answer to its own text.
THEOREM OwnReplyHolds == Spec => []OwnReply
<1>1. TextInv => OwnReply
  BY DEF TextInv, GotInv
<1> QED
  BY <1>1, TextInvHolds, PTL

\* is_server_packet() lets through nothing but answers to raw clients.
THEOREM RawTakesAnswersHolds == Spec => []RawTakesAnswers
<1>1. TextInv => RawTakesAnswers
  BY DEF TextInv, GotInv
<1> QED
  BY <1>1, TextInvHolds, PTL
=============================================================================
