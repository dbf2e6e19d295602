------------------------------ MODULE MsgChat ------------------------------
(***************************************************************************)
(* The chat of lesson 21: one server process and several client processes  *)
(* that talk through one System V message queue.                           *)
(*                                                                         *)
(* Every client shares the queue with every other one, so the type of a    *)
(* message is its only address: SERVER_LEVEL for the server, the level     *)
(* 1..CLIENT_COUNT the server gave a client for that client.  The join     *)
(* handshake has to work before the client knows its level; it reads the   *)
(* message of the lowest client level, whoever it is meant for.            *)
(*                                                                         *)
(* A message is the record [mtype, status, name, message]; the message is  *)
(* a post (its sender and a number) or Hello, the text of an answer.       *)
(***************************************************************************)
EXTENDS Integers, Sequences, FiniteSets, SequencesExt, SysVQueue

CONSTANTS Client,       \* the client processes
          Nick,         \* the nicknames given on their command lines
          NameOf,       \* the nickname of each client
          CLIENT_COUNT, \* the slots of the server
          QUEUE_LIMIT,  \* how many messages the kernel's queue holds
          MAX_POSTS,    \* bound: lines typed by each client
          Impatient,    \* the clients whose users may interrupt them
          MAX_RESTARTS  \* bound: times the server is killed and started again

ASSUME ChatAssumption ==
  /\ IsFiniteSet(Client)
  /\ NameOf \in [Client -> Nick]
  /\ CLIENT_COUNT \in Nat \ {0}
  /\ QUEUE_LIMIT \in Nat \ {0}
  /\ MAX_POSTS \in Nat
  /\ Impatient \subseteq Client
  /\ MAX_RESTARTS \in Nat

Slot         == 1..CLIENT_COUNT
\* Mutant: the range of the clients one level too narrow.
SpaceTooNarrow == -(CLIENT_COUNT - 1)
CLIENT_SPACE == -CLIENT_COUNT
SERVER_LEVEL == CLIENT_COUNT + 1
NEW_USER     == -1
ROOM_IS_FULL == -2

Hello   == <<"Hello!">>
Post    == Client \X (1..MAX_POSTS)
Message == [mtype   : 1..SERVER_LEVEL,
            status  : Int,
            name    : Nick,
            message : Post \cup {Hello}]
NoMess  == [mtype |-> 0, status |-> 0, name |-> "none", message |-> Hello]

VARIABLES
  queue,       \* the message queue
  USER_STATUS, \* [Slot -> {0, 1}]: the server's table of taken slots
  srv_pc,      \* where the server process is
  mess,        \* the message it handles: rcv_mess, or snd_mess when it answers
  new_user_it, \* its loop variable while it forwards a post
  printed,     \* what its terminal shows: answers and posts, in order
  restarts,    \* how often it was started again
  pc,          \* where each client process is
  CLIENT_ID,   \* the level each client believes it has
  held,        \* the foreign message a joining client has to put back
  posts,       \* how many lines each client's user has typed
  shown        \* what each client's terminal shows

server == <<USER_STATUS, srv_pc, mess, new_user_it, printed, restarts>>
client == <<pc, CLIENT_ID, held, posts, shown>>
vars   == <<queue, server, client>>

Init ==
  /\ queue = <<>>
  /\ USER_STATUS = [s \in Slot |-> 0]
  /\ srv_pc = "receive"
  /\ mess = NoMess
  /\ new_user_it = 1
  /\ printed = <<>>
  /\ restarts = 0
  /\ pc = [c \in Client |-> "off"]
  /\ CLIENT_ID = [c \in Client |-> 0]
  /\ held = [c \in Client |-> NoMess]
  /\ posts = [c \in Client |-> 0]
  /\ shown = [c \in Client |-> <<>>]

----------------------------------------------------------------------------
(* The queue operations of msgchat.c.  A send that finds the queue full    *)
(* ends the process: every caller pairs SendFails with its own exit.       *)

Send(m) ==
  /\ ~Full(queue, QUEUE_LIMIT)
  /\ queue' = Append(queue, m)

SendFails ==
  /\ Full(queue, QUEUE_LIMIT)
  /\ UNCHANGED queue

\* Take the i-th message, the one msgrcv(msgtyp) selects.
Receive(msgtyp, i) ==
  /\ Selected(queue, msgtyp, i)
  /\ queue' = RemoveAt(queue, i)

----------------------------------------------------------------------------
(* The server: chat_server() and main() of server.c.                       *)

\* Mutant: the table of slots is not looked at.
AnySlot(s) == s \in Slot

FreeSlot(s) ==
  /\ USER_STATUS[s] = 0
  /\ \A t \in Slot : t < s => USER_STATUS[t] # 0

\* Mutant: the index of the array, from 0, for the level, from 1.
AnswerAtIndex(m, level, status) ==
  [mtype |-> (level % CLIENT_COUNT) + 1, status |-> status, name |-> m.name,
   message |-> Hello]

Answer(m, level, status) ==
  [mtype |-> level, status |-> status, name |-> m.name, message |-> Hello]

\* case NEW_USER: take the first free slot, or say that the room is full.
ServerReceivesJoin ==
  /\ srv_pc = "receive"
  /\ \E i \in DOMAIN queue :
       /\ Receive(SERVER_LEVEL, i)
       /\ queue[i].status = NEW_USER
       /\ \/ \E s \in Slot :
               /\ FreeSlot(s)
               /\ USER_STATUS' = [USER_STATUS EXCEPT ![s] = 1]
               /\ mess' = Answer(queue[i], s, NEW_USER)
          \/ /\ \A s \in Slot : USER_STATUS[s] # 0
             /\ mess' = Answer(queue[i], CLIENT_COUNT, ROOM_IS_FULL)
             /\ UNCHANGED USER_STATUS
  /\ srv_pc' = "answer"
  /\ UNCHANGED <<new_user_it, printed, restarts, client>>

ServerAnswers ==
  /\ srv_pc = "answer"
  /\ \/ /\ Send(mess)
        /\ printed' = Append(printed, mess)
        /\ mess' = NoMess
        /\ srv_pc' = "receive"
     \/ /\ SendFails
        /\ srv_pc' = "exited"
        /\ UNCHANGED <<printed, mess>>
  /\ UNCHANGED <<USER_STATUS, new_user_it, restarts, client>>

\* default: a line typed by a client, to be forwarded to all the others.
ServerReceivesPost ==
  /\ srv_pc = "receive"
  /\ \E i \in DOMAIN queue :
       /\ Receive(SERVER_LEVEL, i)
       /\ queue[i].status # NEW_USER
       /\ mess' = queue[i]
       /\ printed' = Append(printed, queue[i])
  /\ new_user_it' = 1
  /\ srv_pc' = "forward"
  /\ UNCHANGED <<USER_STATUS, restarts, client>>

\* Mutants: the author is served as well; the last slot is left out.
ToServeAll == {s \in new_user_it..CLIENT_COUNT : USER_STATUS[s] # 0}
ToServeButLast ==
  {s \in new_user_it..(CLIENT_COUNT - 1) :
     mess.status # s /\ USER_STATUS[s] # 0}

\* The slots the loop has still to serve: taken, and not the author's own.
ToServe ==
  {s \in new_user_it..CLIENT_COUNT : mess.status # s /\ USER_STATUS[s] # 0}

\* The next copy of the post.  A copy that finds the queue full ends the
\* server with the copies before it sent and those after it not.
ServerForwards ==
  /\ srv_pc = "forward"
  /\ \E s \in ToServe :
       /\ \A t \in ToServe : s <= t
       /\ mess' = [mess EXCEPT !.mtype = s]
       /\ \/ /\ Send(mess')
             /\ new_user_it' = s + 1
             /\ UNCHANGED srv_pc
          \/ /\ SendFails
             /\ srv_pc' = "exited"
             /\ UNCHANGED new_user_it
  /\ UNCHANGED <<USER_STATUS, printed, restarts, client>>

\* The end of the loop, and of the message.
ServerLoops ==
  /\ srv_pc = "forward"
  /\ ToServe = {}
  /\ srv_pc' = "receive"
  /\ mess' = NoMess
  /\ new_user_it' = 1
  /\ UNCHANGED <<queue, USER_STATUS, printed, restarts, client>>

\* The server is killed or has ended, and is started again: the queue is
\* still there, msgget() finds it, and main() clears the table of slots.
ServerRestarts ==
  /\ restarts < MAX_RESTARTS
  /\ restarts' = restarts + 1
  /\ USER_STATUS' = [s \in Slot |-> 0]
  /\ srv_pc' = "receive"
  /\ mess' = NoMess
  /\ new_user_it' = 1
  /\ UNCHANGED <<queue, printed, client>>

----------------------------------------------------------------------------
(* A client: join_chat(), send_mess(), thread_rcv_func(), main().          *)

\* The first half of join_chat().
SendJoin(c) ==
  /\ pc[c] = "off"
  /\ \/ /\ Send([mtype |-> SERVER_LEVEL, status |-> NEW_USER,
                 name |-> NameOf[c], message |-> Hello])
        /\ pc' = [pc EXCEPT ![c] = "waiting"]
     \/ /\ SendFails
        /\ pc' = [pc EXCEPT ![c] = "exited"]
  /\ UNCHANGED <<server, CLIENT_ID, held, posts, shown>>

\* The answer, or what the client takes for one.  A message for another
\* nickname has to be put back; join_chat() does not wait again after that.
ReceiveAnswer(c) ==
  /\ pc[c] = "waiting"
  /\ \E i \in DOMAIN queue :
       /\ Receive(CLIENT_SPACE, i)
       /\ \/ /\ queue[i].name = NameOf[c]
             /\ queue[i].status = NEW_USER
             /\ CLIENT_ID' = [CLIENT_ID EXCEPT ![c] = queue[i].mtype]
             /\ pc' = [pc EXCEPT ![c] = "chatting"]
             /\ UNCHANGED held
          \/ /\ queue[i].name = NameOf[c]
             /\ queue[i].status # NEW_USER
             /\ pc' = [pc EXCEPT ![c] = "exited"]
             /\ UNCHANGED <<CLIENT_ID, held>>
          \/ /\ queue[i].name # NameOf[c]
             /\ held' = [held EXCEPT ![c] = queue[i]]
             /\ pc' = [pc EXCEPT ![c] = "resend"]
             /\ UNCHANGED CLIENT_ID
  /\ UNCHANGED <<server, posts, shown>>

Resend(c) ==
  /\ pc[c] = "resend"
  /\ \/ /\ Send(held[c])
        /\ pc' = [pc EXCEPT ![c] = "chatting"]
     \/ /\ SendFails
        /\ pc' = [pc EXCEPT ![c] = "exited"]
  /\ held' = [held EXCEPT ![c] = NoMess]
  /\ UNCHANGED <<server, CLIENT_ID, posts, shown>>

\* main() and send_mess(): a line from the keyboard.
Type(c) ==
  /\ pc[c] = "chatting"
  /\ posts[c] < MAX_POSTS
  /\ posts' = [posts EXCEPT ![c] = @ + 1]
  /\ \/ /\ Send([mtype |-> SERVER_LEVEL, status |-> CLIENT_ID[c],
                 name |-> NameOf[c], message |-> <<c, posts[c] + 1>>])
        /\ UNCHANGED pc
     \/ /\ SendFails
        /\ pc' = [pc EXCEPT ![c] = "exited"]
  /\ UNCHANGED <<server, CLIENT_ID, held, shown>>

\* One successful msgrcv() of the receiver thread; it asks for CLIENT_ID.
Show(c) ==
  /\ pc[c] = "chatting"
  /\ \E i \in DOMAIN queue :
       /\ Receive(CLIENT_ID[c], i)
       /\ shown' = [shown EXCEPT ![c] = Append(@, queue[i].message)]
  /\ UNCHANGED <<server, pc, CLIENT_ID, held, posts>>

\* The user interrupts the client; nothing tells the server.
Quit(c) ==
  /\ c \in Impatient
  /\ pc[c] \in {"waiting", "resend", "chatting"}
  /\ pc' = [pc EXCEPT ![c] = "exited"]
  /\ UNCHANGED <<queue, server, CLIENT_ID, held, posts, shown>>

----------------------------------------------------------------------------
Server ==
  \/ ServerReceivesJoin \/ ServerAnswers
  \/ ServerReceivesPost \/ ServerForwards \/ ServerLoops

ClientStep(c) ==
  ReceiveAnswer(c) \/ Resend(c) \/ Type(c) \/ Show(c)

Next ==
  \/ Server
  \/ ServerRestarts
  \/ \E c \in Client : SendJoin(c) \/ ClientStep(c) \/ Quit(c)

Spec == Init /\ [][Next]_vars

\* The schedulers of the kernel run the server and both threads of a client
\* as long as they are not blocked.  Nobody has to start, type or quit.
Fairness ==
  /\ WF_vars(Server)
  /\ \A c \in Client : /\ WF_vars(ReceiveAnswer(c))
                       /\ WF_vars(Resend(c))
                       /\ WF_vars(Show(c))

----------------------------------------------------------------------------
(* A quiet room: the users start their clients one at a time, nobody types *)
(* while a newcomer waits for its answer, nobody interrupts anything.      *)

Joining == \E c \in Client : pc[c] \in {"waiting", "resend"}
Idle    == queue = <<>> /\ srv_pc = "receive" /\ ~Joining

QuietNext ==
  \/ Server
  \/ \E c \in Client : \/ Idle /\ SendJoin(c)
                       \/ ~Joining /\ Type(c)
                       \/ ReceiveAnswer(c) \/ Resend(c) \/ Show(c)

QuietSpec == Init /\ [][QuietNext]_vars /\ Fairness
----------------------------------------------------------------------------
(* Properties.                                                             *)

\* The variables stay in their ranges.
TypeOK ==
  /\ queue \in Seq(Message)
  /\ USER_STATUS \in [Slot -> {0, 1}]
  /\ srv_pc \in {"receive", "answer", "forward", "exited"}
  /\ mess \in Message \cup {NoMess}
  /\ srv_pc \in {"answer", "forward"} => mess \in Message
  /\ new_user_it \in 1..(CLIENT_COUNT + 1)
  /\ printed \in Seq(Message)
  /\ restarts \in 0..MAX_RESTARTS
  /\ pc \in [Client -> {"off", "waiting", "resend", "chatting", "exited"}]
  /\ CLIENT_ID \in [Client -> 0..CLIENT_COUNT]
  /\ held \in [Client -> Message \cup {NoMess}]
  /\ \A c \in Client : pc[c] = "resend" => held[c] \in Message
  /\ posts \in [Client -> 0..MAX_POSTS]
  /\ shown \in [Client -> Seq(Post \cup {Hello})]

\* As long as the server is not started again, no two clients talk on one
\* level: although any joining client may take any answer and put it back,
\* the answer that grants a slot reaches at most one of them, whatever the
\* nicknames (join_chat() of client.c, case NEW_USER of server.c).
UniqueLevels ==
  restarts = 0 =>
    \A c, d \in Client :
      CLIENT_ID[c] # 0 /\ CLIENT_ID[c] = CLIENT_ID[d] => c = d

\* A client that has a level has it from the server: the server counts its
\* slot as taken, until the server is started again.
LevelsAreTaken ==
  restarts = 0 =>
    \A c \in Client : CLIENT_ID[c] # 0 => USER_STATUS[CLIENT_ID[c]] = 1

\* A client with a level never shows a line its own user typed, nor one
\* line twice: the loop of the server leaves the author out, a copy is for
\* one level, and a joining client that puts a foreign message back puts it
\* back once.  This survives restarts of the server.
TerminalIsClean ==
  \A c \in Client : CLIENT_ID[c] # 0 =>
    \A i, j \in DOMAIN shown[c] : shown[c][i] # Hello =>
      /\ shown[c][i][1] # c
      /\ shown[c][i] = shown[c][j] => i = j
=============================================================================
