---------------------------- MODULE EchoServers ----------------------------
(***************************************************************************)
(* The echo servers on port 48240 and their clients.  `program' tells      *)
(* which pair runs:                                                        *)
(*   "udp"       one request, lesson 24 and the servers of lessons 29-31;  *)
(*               clients with a UDP socket or, RawClient, with a raw one   *)
(*   "tcp"       one connection, lesson 24                                 *)
(*   "udp_fork"  a child for every datagram, lesson 25                     *)
(*   "tcp_fork"  a child for every connection, lesson 25                   *)
(*   "erl_udp", "erl_tcp", "erl_web"  one after the other, until somebody  *)
(*               says stop, lesson 6 of the Erlang course                  *)
(* In lesson 25 one tester opens a socket for every client, sends, and     *)
(* forks a child that waits for the answer.  Neither the tester nor the    *)
(* servers close the descriptors they collect, or wait for their children. *)
(***************************************************************************)
EXTENDS Integers, Sequences, FiniteSets

CONSTANTS
  Client,
  RawClient,   \* those of lessons 29-31
  Stopper,     \* those that say "stop()." to an Erlang server, or ask
               \* the web server for a file there is not
  Mortal,      \* those that may be killed
  Nobody,      \* whose text an uninitialised buffer holds
  Programs,    \* the programs to look at
  QUEUE_SIZE,  \* the backlog of listen()
  RCVBUF,      \* datagrams the server's socket can hold
  FD_LIMITS,   \* the limits to look at
  PROC_LIMIT   \* children, dead ones included, the user may have

PORT == "48240"
CLIENT_PORT == "48241"

ASSUME EchoAssumption ==
  /\ RawClient \subseteq Client /\ Mortal \subseteq Client
  /\ Stopper \subseteq Client
  /\ Nobody \notin Client /\ {PORT, CLIENT_PORT} \cap Client = {}
  /\ Programs \subseteq
       {"udp", "tcp", "udp_fork", "tcp_fork", "erl_udp", "erl_tcp", "erl_web"}
  /\ QUEUE_SIZE \in Nat \ {0} /\ RCVBUF \in Nat \ {0}
  /\ FD_LIMITS \subseteq {n \in Nat : n > 4}
  /\ PROC_LIMIT \in Nat

VARIABLES
  program,
  fdLimit, \* descriptors of a process, 0 to 2 included
  server,   \* the server, the parent of lesson 25: [pc, buffer, peer]
  held,     \* the connections in its descriptor table
  child,    \* [Client -> the child that serves it: [pc, buffer, peer, held]]
  tester,   \* "run" or "ended"
  pc,       \* [Client -> its place]
  inbox,    \* [Client -> the packets in its socket: [src, dst, text]]
  got,      \* [Client -> the text it took for the answer]
  queue,    \* datagrams in the socket of the server
  backlog,  \* connections nobody has accepted
  wire,     \* the connections with a text to be received
  lost      \* clients whose request was dropped, or whose server failed

setting == <<program, fdLimit>>
serverSide == <<server, held>>
network == <<inbox, queue, backlog, wire>>
vars == <<setting, serverSide, child, tester, pc, got, network, lost>>

Forks == program \in {"udp_fork", "tcp_fork"}
Erlang == program \in {"erl_udp", "erl_tcp", "erl_web"}
Datagrams == program \in {"udp", "udp_fork", "erl_udp"}
Stops(c) == Erlang /\ c \in Stopper
Raw(c) == program = "udp" /\ c \in RawClient

Address(c) == IF Raw(c) THEN CLIENT_PORT ELSE c

Text == [of : Client \cup {Nobody}, suffixes : {0, 1}]
Garbage == [of |-> Nobody, suffixes |-> 0]
Answer(text) == [text EXCEPT !.suffixes = 1] \* strcat(buffer, ", client!")

Init ==
  /\ program \in Programs /\ fdLimit \in FD_LIMITS
  /\ server = [pc |-> "wait", buffer |-> Garbage, peer |-> Nobody]
  /\ held = {} /\ lost = {} /\ wire = {}
  /\ child = [c \in Client |->
       [pc |-> "none", buffer |-> Garbage, peer |-> Nobody, held |-> {}]]
  /\ tester = "run"
  /\ pc = [c \in Client |-> "new"]
  /\ inbox = [c \in Client |-> <<>>]
  /\ got = [c \in Client |-> Garbage]
  /\ queue = <<>> /\ backlog = <<>>

----------------------------------------------------------------------------
(* Descriptors and processes.                                              *)

Runs == server.pc # "ended"
Living(c) == child[c].pc \in {"recv", "send", "sleep"}

Room(used) == used < fdLimit

\* Whoever is forked has the listening socket and what was accepted before.
Listening == Runs \/ (program = "tcp_fork" /\ \E c \in Client : Living(c))

Connected(c) ==
  \/ Listening /\ (\E i \in DOMAIN backlog : backlog[i] = c)
  \/ Runs /\ c \in held
  \/ \E d \in Client : Living(d) /\ c \in child[d].held

\* A dead child counts until its parent has waited for it, which never
\* happens, or has ended.
Processes ==
  Cardinality({c \in Client : Living(c) \/ (Runs /\ child[c].pc = "zombie")})
  + Cardinality({c \in Client :
      /\ Forks
      /\ \/ pc[c] \in {"waiting", "got"}
         \/ tester = "run" /\ pc[c] \in {"done", "error", "gone"}})

\* Every raw socket of the host has a copy of every datagram.
Delivered(packet) ==
  inbox' = [c \in Client |->
    IF /\ pc[c] \notin {"new", "error", "done", "gone"}
       /\ Raw(c) \/ packet.dst = c
    THEN Append(inbox[c], packet) ELSE inbox[c]]

----------------------------------------------------------------------------
(* The clients, and the tester that starts them one after the other.       *)

Starting(c) == pc[c] \in {"opened", "connected", "sent"}

Goto(c, place) == pc' = [pc EXCEPT ![c] = place]

\* The tester exits when a call fails, and with it who it was starting.
TesterStops(c) == tester' = IF Forks /\ Starting(c) THEN "ended" ELSE tester

Open(c) ==
  /\ pc[c] = "new" /\ tester = "run"
  /\ Forks => ~\E d \in Client : Starting(d)
  /\ IF Forks => Room(3 + Cardinality({d \in Client : pc[d] # "new"}))
     THEN Goto(c, "opened") /\ UNCHANGED tester
     ELSE tester' = "ended" /\ UNCHANGED pc
  /\ UNCHANGED <<setting, serverSide, child, got, network, lost>>

Connect(c) ==
  /\ pc[c] = "opened" /\ ~Datagrams
  /\ \/ /\ Listening /\ Len(backlog) < QUEUE_SIZE
        /\ backlog' = Append(backlog, c)
        /\ Goto(c, "connected") /\ UNCHANGED tester
     \/ /\ ~Listening
        /\ Goto(c, "error") /\ TesterStops(c) /\ UNCHANGED backlog
  /\ UNCHANGED <<setting, serverSide, child, got, inbox, queue, wire, lost>>

\* Who says stop over TCP closes the socket at once.
AfterSend(c) ==
  IF Forks THEN "sent"
  ELSE IF Stops(c) /\ program = "erl_tcp" THEN "gone" ELSE "waiting"

\* A datagram for a full socket or a server that has gone disappears.
SendTo(c) ==
  LET text == [of |-> c, suffixes |-> 0]
  IN  /\ pc[c] = "opened" /\ Datagrams
      /\ IF Runs /\ Len(queue) < RCVBUF
         THEN /\ queue' = Append(queue, [src |-> Address(c), text |-> text])
              /\ UNCHANGED lost
         ELSE lost' = lost \cup {c} /\ UNCHANGED queue
      /\ Delivered([src |-> Address(c), dst |-> PORT, text |-> text])
      /\ Goto(c, AfterSend(c))
      /\ UNCHANGED <<setting, serverSide, child, tester, got, backlog, wire>>

Send(c) ==
  /\ pc[c] = "connected"
  /\ wire' = wire \cup {c}
  /\ Goto(c, AfterSend(c))
  /\ UNCHANGED <<setting, serverSide, child, tester, got, inbox, queue,
                 backlog, lost>>

\* Without a process to be had the tester goes on, and nobody receives.
ForkWaiter(c) ==
  /\ pc[c] = "sent"
  /\ Goto(c, IF Processes < PROC_LIMIT THEN "waiting" ELSE "unheard")
  /\ UNCHANGED <<setting, serverSide, child, tester, got, network, lost>>

\* Mutant: any answer of the server will do.
IsFromServer(packet) == packet.src = PORT

IsServerPacket(packet) == packet.src = PORT /\ packet.dst = CLIENT_PORT

Receive(c) ==
  /\ pc[c] = "waiting" /\ inbox[c] # <<>>
  /\ inbox' = [inbox EXCEPT ![c] = Tail(@)]
  /\ IF Raw(c) => IsServerPacket(Head(inbox[c]))
     THEN /\ got' = [got EXCEPT ![c] = Head(inbox[c]).text]
          /\ Goto(c, "got")
     ELSE UNCHANGED <<got, pc>>
  /\ UNCHANGED <<setting, serverSide, child, tester, queue, backlog, wire,
                 lost>>

Leave(c) ==
  /\ pc[c] = "got"
  /\ Goto(c, "done")
  /\ UNCHANGED <<setting, serverSide, child, tester, got, network, lost>>

\* send() or recv() report that the other side has gone.  (Where it is an end
\* of file the client prints what is in its buffer, and is done as well.)
Reset(c) ==
  /\ pc[c] \in {"connected", "waiting"} /\ ~Datagrams
  /\ ~Connected(c) /\ inbox[c] = <<>>
  /\ Goto(c, "error") /\ TesterStops(c)
  /\ UNCHANGED <<setting, serverSide, child, got, network, lost>>

Killed(c) ==
  /\ c \in Mortal /\ (Starting(c) \/ pc[c] = "waiting")
  /\ Goto(c, "gone") /\ TesterStops(c)
  /\ UNCHANGED <<setting, serverSide, child, got, network, lost>>

----------------------------------------------------------------------------
(* The servers.                                                            *)

RecvFrom ==
  /\ server.pc = "wait" /\ Datagrams /\ ~Erlang /\ queue # <<>>
  /\ server' = [pc |-> IF Forks THEN "fork" ELSE "send",
                buffer |-> Head(queue).text, peer |-> Head(queue).src]
  /\ queue' = Tail(queue)
  /\ UNCHANGED <<setting, held, child, tester, pc, got, inbox, backlog, wire,
                 lost>>

Accepts(place) ==
  /\ backlog # <<>>
  /\ server' = [server EXCEPT !.pc = place, !.peer = Head(backlog)]
  /\ held' = held \cup {Head(backlog)}
  /\ backlog' = Tail(backlog)

Ends ==
  /\ server' = [server EXCEPT !.pc = "ended"]
  /\ UNCHANGED <<held, backlog>>

\* accept() takes a free descriptor before it looks for a connection.
Accept ==
  /\ server.pc = "wait" /\ ~Datagrams /\ ~Erlang
  /\ \/ Room(4 + Cardinality(held)) /\ Accepts(IF Forks THEN "fork" ELSE "recv")
     \/ ~Room(4 + Cardinality(held)) /\ Ends
  /\ UNCHANGED <<setting, child, tester, pc, got, inbox, queue, wire, lost>>

\* What recv() leaves in the buffer: the text, or after the end of the
\* connection what was there before.
Received(c, buffer) ==
  IF c \in wire THEN [of |-> c, suffixes |-> 0] ELSE buffer

CanRecv(c) == c \in wire \/ pc[c] = "gone"

Recv ==
  /\ server.pc = "recv" /\ ~Erlang /\ CanRecv(server.peer)
  /\ server' = [server EXCEPT !.pc = "send",
                              !.buffer = Received(server.peer, @)]
  /\ wire' = wire \ {server.peer}
  /\ UNCHANGED <<setting, held, child, tester, pc, got, inbox, queue, backlog,
                 lost>>

Reply(to, buffer) ==
  Delivered([src |-> PORT, dst |-> to, text |-> Answer(buffer)])

\* The servers of one request exit after it.
ReplyAndExit ==
  /\ server.pc = "send" /\ ~Erlang
  /\ Reply(server.peer, server.buffer)
  /\ server' = [server EXCEPT !.pc = "ended"]
  /\ UNCHANGED <<setting, held, child, tester, pc, got, queue, backlog, wire,
                 lost>>

Forked == [pc |-> IF Datagrams THEN "send" ELSE "recv",
           buffer |-> server.buffer, peer |-> server.peer, held |-> held]

\* Mutant: an error of fork() ends the server.
ForkOrExit ==
  /\ server.pc = "fork"
  /\ IF Processes < PROC_LIMIT
     THEN /\ child' = [child EXCEPT ![server.peer] = Forked]
          /\ server' = [server EXCEPT !.pc = "wait"]
     ELSE server' = [server EXCEPT !.pc = "ended"] /\ UNCHANGED child
  /\ UNCHANGED <<setting, held, tester, pc, got, network, lost>>

\* The child has copies of the buffer, the address and the descriptors.
\* When fork() fails the parent goes on with the next client.
Fork ==
  /\ server.pc = "fork"
  /\ server' = [server EXCEPT !.pc = "wait"]
  /\ IF Processes < PROC_LIMIT
     THEN /\ child' = [child EXCEPT ![server.peer] = Forked]
          /\ UNCHANGED lost
     ELSE lost' = lost \cup {server.peer} /\ UNCHANGED child
  /\ UNCHANGED <<setting, held, tester, pc, got, network>>

ChildRecv(c) ==
  /\ child[c].pc = "recv" /\ CanRecv(c)
  /\ child' = [child EXCEPT ![c].pc = "send", ![c].buffer = Received(c, @)]
  /\ wire' = wire \ {c}
  /\ UNCHANGED <<setting, serverSide, tester, pc, got, inbox, queue, backlog,
                 lost>>

\* Mutant: the child is a thread, and the buffer that of its parent.
ChildSendsShared(c) ==
  /\ child[c].pc = "send"
  /\ Reply(child[c].peer, server.buffer)
  /\ child' = [child EXCEPT ![c].pc = IF Datagrams THEN "zombie" ELSE "sleep"]
  /\ UNCHANGED <<setting, serverSide, tester, pc, got, queue, backlog, wire,
                 lost>>

\* A child of the UDP server exits at once, the other one after sleep(10),
\* or when send() finds nobody there.
ChildSend(c) ==
  /\ child[c].pc = "send"
  /\ Reply(child[c].peer, child[c].buffer)
  /\ \E place \in {"sleep", "zombie"} :
       /\ place = "sleep" => ~Datagrams
       /\ place = "zombie" => Datagrams \/ pc[c] = "gone"
       /\ child' = [child EXCEPT ![c].pc = place]
  /\ UNCHANGED <<setting, serverSide, tester, pc, got, queue, backlog, wire,
                 lost>>

\* Mutant: no exit(), the child is one more server.
ChildGoesOn(c) ==
  /\ child[c].pc = "sleep"
  /\ child' = [child EXCEPT ![c].pc = "recv"]
  /\ UNCHANGED <<setting, serverSide, tester, pc, got, network, lost>>

ChildExits(c) ==
  /\ child[c].pc = "sleep"
  /\ child' = [child EXCEPT ![c].pc = "zombie"]
  /\ UNCHANGED <<setting, serverSide, tester, pc, got, network, lost>>

\* socket(), recv() or send() fail in a child: it exits, and its client, whose
\* connection the parent has too, waits for nobody.
ChildFails(c) ==
  /\ child[c].pc \in {"recv", "send"}
  /\ child' = [child EXCEPT ![c].pc = "zombie"]
  /\ lost' = lost \cup {c}
  /\ UNCHANGED <<setting, serverSide, tester, pc, got, network>>

\* A call of the server fails, for whatever reason: it ends, and the datagrams
\* it has not answered are lost.  (No message tells the Erlang server that
\* waits for datagrams of an error.)
ServerFails ==
  /\ server.pc \in {"wait", "recv", "send"}
  /\ program = "erl_udp" => server.pc = "send"
  /\ server' = [server EXCEPT !.pc = "ended"]
  /\ lost' = lost \cup {queue[i].text.of : i \in DOMAIN queue}
                   \cup IF Datagrams /\ server.pc = "send"
                        THEN {server.buffer.of} ELSE {}
  /\ UNCHANGED <<setting, held, child, tester, pc, got, network>>

----------------------------------------------------------------------------
(* The Erlang servers.  What they own is closed when they end.             *)

\* {udp, Socket, Addr, ClPort, ClPacket}
Message ==
  /\ server.pc = "wait" /\ program = "erl_udp" /\ queue # <<>>
  /\ server' =
       IF Stops(Head(queue).text.of) THEN [server EXCEPT !.pc = "ended"]
       ELSE [pc |-> "send", buffer |-> Head(queue).text,
             peer |-> Head(queue).src]
  /\ queue' = Tail(queue)
  /\ UNCHANGED <<setting, held, child, tester, pc, got, inbox, backlog, wire,
                 lost>>

\* The alarm: nobody has connected for 50 seconds.
AcceptOrAlarm ==
  /\ server.pc = "wait" /\ Erlang /\ ~Datagrams
  /\ Accepts("recv") \/ (backlog = <<>> /\ Ends)
  /\ UNCHANGED <<setting, child, tester, pc, got, inbox, queue, wire, lost>>

\* The alarm: the client has closed, or sent nothing for 50 seconds.
RecvOrAlarm ==
  LET c == server.peer
  IN  /\ server.pc = "recv" /\ Erlang
      /\ server' =
           IF c \in wire /\ ~Stops(c)
           THEN [server EXCEPT !.pc = "send", !.buffer = Received(c, @)]
           ELSE [server EXCEPT !.pc = "ended"]
      /\ wire' = wire \ {c}
      /\ UNCHANGED <<setting, held, child, tester, pc, got, inbox, queue,
                     backlog, lost>>

\* The alarm: send() finds nobody there.
ReplyOrAlarm ==
  /\ server.pc = "send" /\ Erlang
  /\ Reply(server.peer, server.buffer)
  /\ \/ server' = [server EXCEPT !.pc = "wait"]
     \/ /\ ~Datagrams /\ pc[server.peer] = "gone"
        /\ server' = [server EXCEPT !.pc = "ended"]
  /\ held' = held \ {server.peer}
  /\ UNCHANGED <<setting, child, tester, pc, got, queue, backlog, wire, lost>>

----------------------------------------------------------------------------
ClientStep(c) ==
  \/ Connect(c) \/ SendTo(c) \/ Send(c) \/ ForkWaiter(c)
  \/ Receive(c) \/ Leave(c) \/ Reset(c)

ServerStep ==
  \/ RecvFrom \/ Accept \/ Recv \/ ReplyAndExit \/ Fork
  \/ Message \/ AcceptOrAlarm \/ RecvOrAlarm \/ ReplyOrAlarm

ChildStep(c) == ChildRecv(c) \/ ChildSend(c) \/ ChildExits(c)

Next ==
  \/ ServerStep \/ ServerFails
  \/ \E c \in Client :
       \/ Open(c) \/ ClientStep(c) \/ Killed(c)
       \/ ChildStep(c) \/ ChildFails(c)

Spec == Init /\ [][Next]_vars

\* Every process runs; who starts a client, or kills one, is free to, and no
\* call has to fail.
FairSpec ==
  /\ Spec /\ WF_vars(ServerStep)
  /\ \A c \in Client : WF_vars(ClientStep(c)) /\ WF_vars(ChildStep(c))

----------------------------------------------------------------------------
Place == {"new", "opened", "connected", "sent", "waiting", "unheard", "got",
          "done", "error", "gone"}
Peer == Client \cup {Nobody, CLIENT_PORT}
Packet == [src : Client \cup {PORT, CLIENT_PORT},
           dst : Client \cup {Nobody, PORT, CLIENT_PORT}, text : Text]
Serving == [pc : {"wait", "recv", "send", "fork", "ended"},
            buffer : Text, peer : Peer]
Served == [pc : {"none", "recv", "send", "sleep", "zombie"},
           buffer : Text, peer : Peer, held : SUBSET Client]
Request == [src : Client \cup {CLIENT_PORT}, text : Text]

\* The ranges of the variables: nobody but a raw client is answered on a port
\* of its own choice, and only clients connect.
TypeOK ==
  /\ program \in Programs /\ fdLimit \in FD_LIMITS
  /\ server \in Serving
  /\ held \subseteq Client
  /\ child \in [Client -> Served]
  /\ tester \in {"run", "ended"}
  /\ pc \in [Client -> Place]
  /\ inbox \in [Client -> Seq(Packet)]
  /\ got \in [Client -> Text]
  /\ queue \in Seq(Request) /\ backlog \in Seq(Client)
  /\ wire \subseteq Client /\ lost \subseteq Peer

\* Whatever parents do with the one buffer and address they have while their
\* children answer: a client gets the answer to its own text, changed once.
OwnReply ==
  \A c \in Client : ~Raw(c) /\ pc[c] \in {"got", "done"} =>
    got[c] = [of |-> c, suffixes |-> 1]

\* A raw socket sees the requests of its own and the answers to everybody:
\* what is_server_packet() lets through is an answer to a raw client, though
\* another one than this it may be, as they share a port.
RawTakesAnswers ==
  \A c \in RawClient : Raw(c) /\ pc[c] \in {"got", "done"} =>
    got[c].of \in RawClient /\ got[c].suffixes = 1

\* A client whose request a server of lesson 25 could take, or the one the
\* other servers took, is answered or told, with these exceptions: its
\* datagram found no place; it lay in the socket of a server that failed, or
\* the server failed to answer it; fork() had no process for the client; or
\* the child it got failed.
Answered ==
  \A c \in Client :
    (pc[c] = "waiting" /\ (Forks \/ server.buffer.of = c))
      ~> (pc[c] # "waiting" \/ c \in lost)

\* Nobody waits for ever on a connection after the server has exited: the
\* children, which have copies of all its descriptors, exit too.
NobodyWaitsForTheDead ==
  \A c \in Client :
    (~Datagrams /\ ~Runs /\ pc[c] = "waiting") ~> (pc[c] # "waiting")
=============================================================================
