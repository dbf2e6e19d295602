---------------------------- MODULE MsgChatRoom ----------------------------
(***************************************************************************)
(* The chat of lesson 21 as an implementation of ChatRoom.  A member of    *)
(* the room is a slot of the server; what the room knows is read off the   *)
(* terminals: the server prints every answer and every post it handles, a  *)
(* client every line it receives.                                          *)
(***************************************************************************)
EXTENDS MsgChat

CONSTANT NotIn

IsPost(m) == m.status \notin {NEW_USER, ROOM_IS_FULL}

RoomLog ==
  LET said == SelectSeq(printed, IsPost)
  IN  [i \in DOMAIN said |->
         [author |-> said[i].status, line |-> said[i].message]]

\* The slot was given away by the answer printed as number i.
Grants(i, s) == printed[i].status = NEW_USER /\ printed[i].mtype = s

RoomSince ==
  [s \in Slot |->
     IF \E i \in DOMAIN printed : Grants(i, s)
     THEN LET i == CHOOSE j \in DOMAIN printed : Grants(j, s)
          IN  Len(SelectSeq(SubSeq(printed, 1, i), IsPost))
     ELSE NotIn]

RoomSeen ==
  [s \in Slot |->
     IF \E c \in Client : CLIENT_ID[c] = s
     THEN LET c == CHOOSE d \in Client : CLIENT_ID[d] = s
          IN  SelectSeq(shown[c], LAMBDA l : l # Hello)
     ELSE <<>>]

Room == INSTANCE ChatRoom
          WITH Member <- Slot, Line <- Post,
               log <- RoomLog, since <- RoomSince, seen <- RoomSeen

\* In a quiet room the chat keeps the promise of ChatRoom, its fairness
\* included: every line reaches every other member once, in one order,
\* and no line is lost (chat_server() of server.c, thread_rcv_func() of
\* client.c).
ImplementsRoom == Room!RoomSpec

\* In a quiet room a client that asked to join gets its answer as long as
\* there is a slot for everybody: join_chat() of client.c does not block
\* forever in receive_from_queue().
EveryJoinAnswered ==
  \A c \in Client : pc[c] = "waiting" ~> pc[c] \in {"chatting", "exited"}

=============================================================================
