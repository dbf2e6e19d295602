----------------------------- MODULE Multiplex -----------------------------
(***************************************************************************)
(* The multi-protocol servers of lesson 27: one process that waits for a   *)
(* UDP and a TCP socket at once and serves one request per turn.  The      *)
(* three programs differ in how they wait: select(), poll() or epoll.      *)
(* Datagrams are looked at before connections; a connection is accepted,   *)
(* read and answered in one turn, with blocking calls.                     *)
(*                                                                         *)
(* The kernel, as the servers use it, is modelled here too: the receive    *)
(* buffer of the UDP socket, the accept queue of the listening socket, and *)
(* readiness.  A request is its client; what travels back is the text of   *)
(* the buffer: whose message it holds and how often ", client!" was added. *)
(***************************************************************************)
EXTENDS Integers, Sequences, FiniteSets, SequencesExt

CONSTANTS
  Poller,     \* the servers to look at, of "select", "poll" and "epoll"
  UdpClient, TcpClient,
  Vanishing,  \* the TCP clients that may be killed
  NUM_OF_REQUESTS,
  BACKLOG,    \* the connections the kernel keeps for accept()
  UDP_BUFFER, \* the datagrams it keeps for recvfrom()
  MayFail,    \* whether a system call of the server may report an error
  Nobody

Client == UdpClient \cup TcpClient

ASSUME MultiplexAssumption ==
  /\ Poller \subseteq {"select", "poll", "epoll"}
  /\ UdpClient \cap TcpClient = {}
  /\ Vanishing \subseteq TcpClient
  /\ Nobody \notin Client
  /\ NUM_OF_REQUESTS \in Nat
  /\ BACKLOG \in Nat \ {0} /\ UDP_BUFFER \in Nat \ {0}
  /\ MayFail \in BOOLEAN

VARIABLES
  poller,  \* which of the programs runs
  pc,      \* where its loop is
  it,      \* its turns
  set,     \* the sockets the last wait reported (select: its fd_set)
  peer,    \* the client being served
  buffer,  \* the text buffer, as [from, suffixes]
  udp,     \* the datagrams in the receive buffer
  pending, \* the connections waiting for accept()
  client,  \* [Client -> "new", "connected", "waiting", "gone"]
  told,    \* the clients whose message is on its way or was read
  dropped, \* the datagrams the kernel threw away
  replies  \* [Client -> the texts sent back]

kernel == <<udp, pending>>
clients == <<client, told, dropped>>
vars == <<poller, pc, it, set, peer, buffer, kernel, clients, replies>>

Sockets == {"udp", "tcp"}

Init ==
  /\ poller \in Poller
  /\ pc = "wait" /\ it = 0
  /\ set = Sockets
  /\ peer = Nobody
  /\ buffer = [from |-> Nobody, suffixes |-> 0]
  /\ udp = <<>> /\ pending = <<>>
  /\ client = [c \in Client |-> "new"]
  /\ told = {} /\ dropped = {}
  /\ replies = [c \in Client |-> <<>>]

----------------------------------------------------------------------------
(* The clients and the kernel.                                             *)

SendDatagram(c) ==
  /\ c \in UdpClient /\ client[c] = "new"
  /\ client' = [client EXCEPT ![c] = "waiting"]
  /\ IF Len(udp) < UDP_BUFFER
     THEN /\ udp' = Append(udp, c)
          /\ told' = told \cup {c}
          /\ UNCHANGED dropped
     ELSE dropped' = dropped \cup {c} /\ UNCHANGED <<udp, told>>
  /\ UNCHANGED <<poller, pc, it, set, peer, buffer, pending, replies>>

Connect(c) ==
  /\ c \in TcpClient /\ client[c] = "new"
  /\ pc # "exited" /\ Len(pending) < BACKLOG
  /\ client' = [client EXCEPT ![c] = "connected"]
  /\ pending' = Append(pending, c)
  /\ UNCHANGED <<poller, pc, it, set, peer, buffer, udp, told, dropped,
                 replies>>

SendMessage(c) ==
  /\ client[c] = "connected"
  /\ client' = [client EXCEPT ![c] = "waiting"]
  /\ told' = told \cup {c}
  /\ UNCHANGED <<poller, pc, it, set, peer, buffer, kernel, dropped, replies>>

\* A client is killed; its connection stays in the accept queue.
Vanish(c) ==
  /\ c \in Vanishing /\ client[c] \in {"connected", "waiting"}
  /\ client' = [client EXCEPT ![c] = "gone"]
  /\ UNCHANGED <<poller, pc, it, set, peer, buffer, kernel, told, dropped,
                 replies>>

Ready == {s \in Sockets : \/ s = "udp" /\ udp # <<>>
                          \/ s = "tcp" /\ pending # <<>>}

----------------------------------------------------------------------------
(* The loops of the servers.  One turn is counted before the wait.         *)

\* select() leaves in the set what is ready; the set is not filled again.
SelectReturns ==
  /\ poller = "select"
  /\ set \cap Ready # {}
  /\ set' = set \cap Ready

\* Mutant: the set is used up as that of select() is.
PollShrinks ==
  /\ poller = "poll"
  /\ set \cap Ready # {}
  /\ set' = set \cap Ready

PollReturns ==
  /\ poller = "poll"
  /\ Ready # {}
  /\ set' = Ready

\* One event at a time (EVENT_NUM), level-triggered.
EpollReturns ==
  /\ poller = "epoll"
  /\ \E s \in Ready : set' = {s}

Wait ==
  /\ pc = "wait" /\ it < NUM_OF_REQUESTS
  /\ SelectReturns \/ PollReturns \/ EpollReturns
  /\ it' = it + 1
  /\ pc' = IF "udp" \in set' THEN "recvfrom" ELSE "accept"
  /\ UNCHANGED <<poller, peer, buffer, kernel, clients, replies>>

\* recvfrom() and strcat().
RecvFrom ==
  /\ pc = "recvfrom" /\ udp # <<>>
  /\ peer' = Head(udp)
  /\ buffer' = [from |-> Head(udp), suffixes |-> 1]
  /\ udp' = Tail(udp)
  /\ pc' = "sendto"
  /\ UNCHANGED <<poller, it, set, pending, clients, replies>>

\* Mutant: without "continue", a ready connection is served in this turn too.
SendToFallsThrough ==
  /\ pc = "sendto"
  /\ replies' = [replies EXCEPT ![peer] = Append(@, buffer)]
  /\ peer' = Nobody
  /\ pc' = IF "tcp" \in set THEN "accept" ELSE "wait"
  /\ UNCHANGED <<poller, it, set, buffer, kernel, clients>>

SendTo ==
  /\ pc = "sendto"
  /\ replies' = [replies EXCEPT ![peer] = Append(@, buffer)]
  /\ peer' = Nobody
  /\ pc' = "wait"
  /\ UNCHANGED <<poller, it, set, buffer, kernel, clients>>

Accept ==
  /\ pc = "accept" /\ pending # <<>>
  /\ peer' = Head(pending)
  /\ pending' = Tail(pending)
  /\ pc' = "recv"
  /\ UNCHANGED <<poller, it, set, buffer, udp, clients, replies>>

\* Mutant: recv() does not wait for the message.
RecvNoWait ==
  /\ pc = "recv"
  /\ buffer' = IF peer \in told THEN [from |-> peer, suffixes |-> 1]
                                ELSE [buffer EXCEPT !.suffixes = @ + 1]
  /\ pc' = "send"
  /\ UNCHANGED <<poller, it, set, peer, kernel, clients, replies>>

\* recv() and strcat().  recv() waits for the message of the client; when
\* the client went away without one it returns 0 and leaves the buffer as
\* the last request left it.
Recv ==
  /\ pc = "recv"
  /\ \/ /\ peer \in told
        /\ buffer' = [from |-> peer, suffixes |-> 1]
     \/ /\ peer \notin told /\ client[peer] = "gone"
        /\ buffer' = [buffer EXCEPT !.suffixes = @ + 1]
  /\ pc' = "send"
  /\ UNCHANGED <<poller, it, set, peer, kernel, clients, replies>>

\* send(), shutdown() and close().
Send ==
  /\ pc = "send"
  /\ replies' = [replies EXCEPT ![peer] = Append(@, buffer)]
  /\ peer' = Nobody
  /\ pc' = "wait"
  /\ UNCHANGED <<poller, it, set, buffer, kernel, clients>>

\* A system call reports an error: perror() and exit().
Fail ==
  /\ MayFail
  /\ pc \notin {"exited"}
  /\ pc' = "exited"
  /\ UNCHANGED <<poller, it, set, peer, buffer, kernel, clients, replies>>

Finish ==
  /\ pc = "wait" /\ it = NUM_OF_REQUESTS
  /\ pc' = "exited"
  /\ UNCHANGED <<poller, it, set, peer, buffer, kernel, clients, replies>>

----------------------------------------------------------------------------
Server == Wait \/ RecvFrom \/ SendTo \/ Accept \/ Recv \/ Send \/ Finish

Next ==
  \/ Server \/ Fail
  \/ \E c \in Client :
       SendDatagram(c) \/ Connect(c) \/ SendMessage(c) \/ Vanish(c)

Spec == Init /\ [][Next]_vars

\* The server runs, and a client sends its message when it has connected, as
\* the testers do.
FairSpec ==
  Spec /\ WF_vars(Server) /\ \A c \in TcpClient : WF_vars(SendMessage(c))

----------------------------------------------------------------------------
Text == [from : Client \cup {Nobody}, suffixes : Nat]

\* The ranges of the variables; a wait reports some socket.
TypeOK ==
  /\ poller \in Poller
  /\ pc \in {"wait", "recvfrom", "sendto", "accept", "recv", "send", "exited"}
  /\ it \in 0..NUM_OF_REQUESTS
  /\ set \subseteq Sockets /\ set # {}
  /\ peer \in Client \cup {Nobody}
  /\ buffer \in Text
  /\ udp \in Seq(UdpClient) /\ pending \in Seq(TcpClient)
  /\ client \in [Client -> {"new", "connected", "waiting", "gone"}]
  /\ told \subseteq Client /\ dropped \subseteq UdpClient
  /\ replies \in [Client -> Seq(Text)]

\* The text a client gets back is its own message, with one ", client!", and
\* it gets one at most.  The exception is a client that has gone: it is sent
\* what the last request left in the buffer.
OwnReply ==
  \A c \in Client :
    client[c] # "gone" =>
      replies[c] \in {<<>>, <<[from |-> c, suffixes |-> 1]>>}

\* NUM_OF_REQUESTS counts requests: every turn of the loop serves exactly
\* one client.
OneRequestPerTurn ==
  pc = "wait" => it = Cardinality({c \in Client : replies[c] # <<>>})

\* A client whose message has reached the server is answered, over both
\* protocols, unless the server ends.
Served(c) ==
  (c \in told /\ client[c] = "waiting") ~> (replies[c] # <<>> \/ pc = "exited")
EveryClientServed == poller # "select" => \A c \in Client : Served(c)
=============================================================================
