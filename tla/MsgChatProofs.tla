--------------------------- MODULE MsgChatProofs ---------------------------
(***************************************************************************)
(* Theorems about MsgChat, for every number of clients, slots and posts,   *)
(* every queue limit, and every choice of nicknames.                       *)
(***************************************************************************)
EXTENDS MsgChat, SequenceTheorems, TLAPS

\* Taking the i-th message out of a queue (msgrcv) leaves a queue of the
\* other ones, in their order: those behind it move up by one.
LEMMA RemoveAtShifts ==
  ASSUME NEW S, NEW q \in Seq(S), NEW i \in DOMAIN q
  PROVE  /\ RemoveAt(q, i) \in Seq(S)
         /\ DOMAIN RemoveAt(q, i) = 1..(Len(q) - 1)
         /\ \A j \in 1..(Len(q) - 1) :
              RemoveAt(q, i)[j] = IF j < i THEN q[j] ELSE q[j + 1]
<1> DEFINE front == SubSeq(q, 1, i - 1)
           back  == SubSeq(q, i + 1, Len(q))
<1>1. i \in 1..Len(q) /\ Len(q) \in Nat
  OBVIOUS
<1>2. front \in Seq(S) /\ Len(front) = i - 1
      /\ \A j \in 1..(i - 1) : front[j] = q[j]
  BY <1>1
<1>3. back \in Seq(S) /\ Len(back) = Len(q) - i
      /\ \A j \in 1..(Len(q) - i) : back[j] = q[i + j]
  BY <1>1
<1> HIDE DEF front, back
<1>4. /\ front \o back \in Seq(S)
      /\ Len(front \o back) = Len(q) - 1
      /\ \A j \in 1..(Len(q) - 1) :
           (front \o back)[j] = IF j < i THEN q[j] ELSE q[j + 1]
  <2>1. front \o back \in Seq(S) /\ Len(front \o back) = Len(q) - 1
    BY <1>1, <1>2, <1>3
  <2>2. ASSUME NEW j \in 1..(Len(q) - 1)
        PROVE  (front \o back)[j] = IF j < i THEN q[j] ELSE q[j + 1]
    <3>1. CASE j < i
      BY <1>1, <1>2, <1>3, <3>1
    <3>2. CASE ~(j < i)
      <4>1. (front \o back)[j] = back[j - (i - 1)]
        BY <1>1, <1>2, <1>3, <3>2, SMTT(30)
      <4>2. j - (i - 1) \in 1..(Len(q) - i) /\ i + (j - (i - 1)) = j + 1
        BY <1>1, <3>2
      <4> QED
        BY <1>3, <3>2, <4>1, <4>2
    <3> QED
      BY <3>1, <3>2
  <2> QED
    BY <2>1, <2>2
<1>5. RemoveAt(q, i) = front \o back
  BY DEF RemoveAt, front, back
<1> QED
  BY <1>1, <1>4, <1>5

\* What is left after a removal was there before, at one place only.
LEMMA RemoveAtOrigin ==
  ASSUME NEW S, NEW q \in Seq(S), NEW i \in DOMAIN q,
         NEW j \in DOMAIN RemoveAt(q, i)
  PROVE  \E k \in DOMAIN q : /\ k # i
                             /\ RemoveAt(q, i)[j] = q[k]
                             /\ k = IF j < i THEN j ELSE j + 1
<1>1. j \in 1..(Len(q) - 1) /\ Len(q) \in Nat /\ i \in 1..Len(q)
      /\ DOMAIN q = 1..Len(q)
  BY RemoveAtShifts
<1>2. RemoveAt(q, i)[j] = IF j < i THEN q[j] ELSE q[j + 1]
  BY <1>1, RemoveAtShifts
<1>3. CASE j < i
  BY <1>1, <1>2, <1>3
<1>4. CASE ~(j < i)
  BY <1>1, <1>2, <1>4
<1> QED
  BY <1>3, <1>4

\* The messages of a set G in a queue: none twice, and whether there is one.
Once(q, G) == \A i, j \in DOMAIN q : q[i] \in G /\ q[j] \in G => i = j
Has(q, G)  == \E i \in DOMAIN q : q[i] \in G

\* A message received is taken out of the queue and nothing is added to it.
LEMMA ReceiveOnce ==
  ASSUME queue \in Seq(Message), NEW t, NEW i \in DOMAIN queue,
         Receive(t, i), NEW G
  PROVE  /\ Has(queue', G) => Has(queue, G)
         /\ Once(queue, G) => /\ Once(queue', G)
                              /\ Has(queue', G) => queue[i] \notin G
         /\ \A j \in DOMAIN queue' : \E k \in DOMAIN queue :
              queue'[j] = queue[k]
<1>1. queue' = RemoveAt(queue, i)
  BY DEF Receive
<1>2. ASSUME NEW j \in DOMAIN queue'
      PROVE  \E k \in DOMAIN queue :
               /\ k # i /\ queue'[j] = queue[k]
               /\ k = IF j < i THEN j ELSE j + 1
  BY <1>1, <1>2, RemoveAtOrigin
<1>3. DOMAIN queue' \subseteq Int /\ i \in Int
  BY <1>1, RemoveAtShifts
<1>4. ASSUME Once(queue, G) PROVE Once(queue', G)
  <2> SUFFICES ASSUME NEW j \in DOMAIN queue', NEW k \in DOMAIN queue',
                      queue'[j] \in G, queue'[k] \in G
               PROVE  j = k
    BY DEF Once
  <2>1. PICK a \in DOMAIN queue : a # i /\ queue'[j] = queue[a]
                                  /\ a = IF j < i THEN j ELSE j + 1
    BY <1>2
  <2>2. PICK b \in DOMAIN queue : b # i /\ queue'[k] = queue[b]
                                  /\ b = IF k < i THEN k ELSE k + 1
    BY <1>2
  <2>3. a = b
    BY <1>4, <2>1, <2>2 DEF Once
  <2> QED
    BY <1>3, <2>1, <2>2, <2>3
<1>5. Has(queue', G) => Has(queue, G)
  BY <1>2 DEF Has
<1>6. Once(queue, G) /\ Has(queue', G) => queue[i] \notin G
  BY <1>2 DEF Has, Once
<1> QED
  BY <1>2, <1>4, <1>5, <1>6

\* A message sent is added to the queue, or not when the queue is full.
LEMMA SendOnce ==
  ASSUME queue \in Seq(Message), NEW m \in Message, Send(m) \/ SendFails,
         NEW G
  PROVE  /\ Has(queue', G) => Has(queue, G) \/ m \in G
         /\ Once(queue, G) /\ ~(Has(queue, G) /\ m \in G) => Once(queue', G)
         /\ \A j \in DOMAIN queue' :
              queue'[j] = m \/ \E k \in DOMAIN queue : queue'[j] = queue[k]
<1>1. CASE SendFails
  BY <1>1 DEF SendFails
<1>2. CASE Send(m)
  <2>1. /\ DOMAIN queue' = 1..(Len(queue) + 1)
        /\ DOMAIN queue = 1..Len(queue)
        /\ \A j \in DOMAIN queue' :
             queue'[j] = IF j = Len(queue) + 1 THEN m ELSE queue[j]
    BY <1>2 DEF Send
  <2>2. \A j \in DOMAIN queue' : j = Len(queue) + 1 \/ j \in DOMAIN queue
    BY <2>1
  <2> QED
    BY <2>1, <2>2 DEF Has, Once
<1> QED
  BY <1>1, <1>2

\* A message sent keeps the queue a queue of messages, and so does a send
\* that fails.
LEMMA SendKeepsType ==
  ASSUME queue \in Seq(Message), NEW m \in Message, Send(m) \/ SendFails
  PROVE  queue' \in Seq(Message)
BY DEF Send, SendFails

\* A message received is one the caller accepts; the others are left.
LEMMA ReceiveKeepsType ==
  ASSUME queue \in Seq(Message), NEW t, NEW i \in DOMAIN queue, Receive(t, i)
  PROVE  /\ queue' \in Seq(Message)
         /\ queue[i] \in Message
         /\ Accepts(t, queue[i])
BY RemoveAtShifts DEF Receive, Selected

\* What a joining client asks for is a message on some client's level.
LEMMA AcceptsLevel ==
  ASSUME NEW m \in Message, Accepts(CLIENT_SPACE, m)
  PROVE  m.mtype \in Slot
<1>1. m.mtype \in 1..(CLIENT_COUNT + 1) /\ CLIENT_COUNT \in Nat \ {0}
  BY ChatAssumption DEF Message, SERVER_LEVEL
<1>2. m.mtype <= CLIENT_COUNT
  BY <1>1 DEF Accepts, CLIENT_SPACE
<1> QED
  BY <1>1, <1>2 DEF Slot

\* No step takes a variable out of its range.
LEMMA TypeStep == TypeOK /\ [Next]_vars => TypeOK'
<1> SUFFICES ASSUME TypeOK, [Next]_vars PROVE TypeOK'
  OBVIOUS
<1> USE ChatAssumption DEF Slot, SERVER_LEVEL, TypeOK
<1>1. CASE ServerReceivesJoin
  <2>1. PICK i \in DOMAIN queue :
          /\ Receive(SERVER_LEVEL, i)
          /\ \/ \E s \in Slot :
                  /\ USER_STATUS' = [USER_STATUS EXCEPT ![s] = 1]
                  /\ mess' = Answer(queue[i], s, NEW_USER)
             \/ /\ mess' = Answer(queue[i], CLIENT_COUNT, ROOM_IS_FULL)
                /\ UNCHANGED USER_STATUS
    BY <1>1 DEF ServerReceivesJoin
  <2>2. queue' \in Seq(Message) /\ queue[i] \in Message
    BY <2>1, ReceiveKeepsType
  <2>3. mess' \in Message
    BY <2>1, <2>2, SMTT(30) DEF Answer, Message, NEW_USER, ROOM_IS_FULL
  <2>4. USER_STATUS' \in [Slot -> {0, 1}]
    BY <2>1
  <2> QED
    BY <1>1, <2>2, <2>3, <2>4 DEF ServerReceivesJoin, client
<1>2. CASE ServerAnswers
  <2>1. queue' \in Seq(Message)
    BY <1>2, SendKeepsType DEF ServerAnswers
  <2>2. mess \in Message /\ printed' \in Seq(Message)
    <3>1. mess \in Message
      BY <1>2 DEF ServerAnswers
    <3>2. printed' = Append(printed, mess) \/ printed' = printed
      BY <1>2 DEF ServerAnswers
    <3>3. Append(printed, mess) \in Seq(Message)
      BY <3>1, AppendProperties
    <3> QED
      BY <3>1, <3>2, <3>3
  <2>3. mess' \in {mess, NoMess} /\ srv_pc' \in {"receive", "exited"}
    BY <1>2 DEF ServerAnswers
  <2> QED
    BY <1>2, <2>1, <2>2, <2>3 DEF ServerAnswers, client
<1>3. CASE ServerReceivesPost
  <2>1. PICK i \in DOMAIN queue :
          /\ Receive(SERVER_LEVEL, i)
          /\ mess' = queue[i]
          /\ printed' = Append(printed, queue[i])
    BY <1>3 DEF ServerReceivesPost
  <2>2. queue' \in Seq(Message) /\ queue[i] \in Message
    BY <2>1, ReceiveKeepsType
  <2> QED
    BY <1>3, <2>1, <2>2 DEF ServerReceivesPost, client
<1>4. CASE ServerForwards
  <2>1. PICK s \in ToServe :
          /\ mess' = [mess EXCEPT !.mtype = s]
          /\ \/ Send(mess') /\ new_user_it' = s + 1 /\ UNCHANGED srv_pc
             \/ /\ SendFails /\ srv_pc' = "exited"
                /\ UNCHANGED new_user_it
    BY <1>4 DEF ServerForwards
  <2>2. s \in Slot
    BY <1>4 DEF ToServe
  <2>3. mess' \in Message
    <3>1. mess \in Message /\ s \in 1..SERVER_LEVEL
      BY <1>4, <2>2 DEF ServerForwards
    <3> QED
      BY <2>1, <3>1 DEF Message
  <2>4. queue' \in Seq(Message)
    BY <2>1, <2>3, SendKeepsType
  <2>5. srv_pc' \in {"forward", "exited"}
    BY <1>4, <2>1 DEF ServerForwards
  <2>6. new_user_it' \in 1..(CLIENT_COUNT + 1)
    BY <2>1, <2>2
  <2> QED
    BY <1>4, <2>3, <2>4, <2>5, <2>6 DEF ServerForwards, client
<1>5. CASE ServerLoops
  BY <1>5 DEF ServerLoops, client
<1>6. CASE ServerRestarts
  BY <1>6 DEF ServerRestarts, client
<1>7. ASSUME NEW c \in Client, SendJoin(c) PROVE TypeOK'
  <2> DEFINE join == [mtype |-> SERVER_LEVEL, status |-> NEW_USER,
                      name |-> NameOf[c], message |-> Hello]
  <2>1. join \in Message
    BY DEF Message, NEW_USER
  <2>2. queue' \in Seq(Message)
    BY <1>7, <2>1, SendKeepsType DEF SendJoin
  <2> QED
    BY <1>7, <2>2 DEF SendJoin, server
<1>8. ASSUME NEW c \in Client, ReceiveAnswer(c) PROVE TypeOK'
  <2>1. PICK i \in DOMAIN queue :
          /\ Receive(CLIENT_SPACE, i)
          /\ \/ /\ CLIENT_ID' = [CLIENT_ID EXCEPT ![c] = queue[i].mtype]
                /\ pc' = [pc EXCEPT ![c] = "chatting"]
                /\ UNCHANGED held
             \/ /\ pc' = [pc EXCEPT ![c] = "exited"]
                /\ UNCHANGED <<CLIENT_ID, held>>
             \/ /\ held' = [held EXCEPT ![c] = queue[i]]
                /\ pc' = [pc EXCEPT ![c] = "resend"]
                /\ UNCHANGED CLIENT_ID
    BY <1>8 DEF ReceiveAnswer
  <2>2. /\ queue' \in Seq(Message) /\ queue[i] \in Message
        /\ Accepts(CLIENT_SPACE, queue[i])
    BY <2>1, ReceiveKeepsType
  <2>3. queue[i].mtype \in Slot
    BY <2>2, AcceptsLevel
  <2>4. CLIENT_ID' \in [Client -> 0..CLIENT_COUNT]
    <3>1. queue[i].mtype \in 0..CLIENT_COUNT
      BY <2>3
    <3> QED
      BY <2>1, <3>1
  <2>5. /\ held' \in [Client -> Message \cup {NoMess}]
        /\ pc' \in [Client -> {"off", "waiting", "resend", "chatting",
                               "exited"}]
        /\ \A d \in Client : pc'[d] = "resend" => held'[d] \in Message
    BY <2>1, <2>2
  <2> QED
    BY <1>8, <2>2, <2>4, <2>5 DEF ReceiveAnswer, server
<1>9. ASSUME NEW c \in Client, Resend(c) PROVE TypeOK'
  <2>1. held[c] \in Message
    BY <1>9 DEF Resend
  <2>2. queue' \in Seq(Message)
    BY <1>9, <2>1, SendKeepsType DEF Resend
  <2> QED
    BY <1>9, <2>2 DEF Resend, server
<1>10. ASSUME NEW c \in Client, Type(c) PROVE TypeOK'
  <2> DEFINE line == [mtype |-> SERVER_LEVEL, status |-> CLIENT_ID[c],
                      name |-> NameOf[c],
                      message |-> <<c, posts[c] + 1>>]
  <2>1. line \in Message
    <3>1. <<c, posts[c] + 1>> \in Post /\ CLIENT_ID[c] \in Int
      BY <1>10 DEF Type, Post
    <3> QED
      BY <3>1 DEF Message
  <2>2. queue' \in Seq(Message)
    BY <1>10, <2>1, SendKeepsType DEF Type
  <2>3. posts' \in [Client -> 0..MAX_POSTS]
    BY <1>10 DEF Type
  <2>4. /\ pc' \in [Client -> {"off", "waiting", "resend", "chatting",
                               "exited"}]
        /\ \A d \in Client : pc'[d] = "resend" => held[d] \in Message
    BY <1>10 DEF Type
  <2> QED
    BY <1>10, <2>2, <2>3, <2>4 DEF Type, server
<1>11. ASSUME NEW c \in Client, Show(c) PROVE TypeOK'
  <2>1. PICK i \in DOMAIN queue :
          /\ Receive(CLIENT_ID[c], i)
          /\ shown' = [shown EXCEPT ![c] = Append(@, queue[i].message)]
    BY <1>11 DEF Show
  <2>2. queue' \in Seq(Message) /\ queue[i] \in Message
    BY <2>1, ReceiveKeepsType
  <2>3. queue[i].message \in Post \cup {Hello}
    BY <2>2 DEF Message
  <2>4. shown' \in [Client -> Seq(Post \cup {Hello})]
    BY <2>1, <2>3
  <2> QED
    BY <1>11, <2>2, <2>4 DEF Show, server
<1>12. ASSUME NEW c \in Client, Quit(c) PROVE TypeOK'
  BY <1>12 DEF Quit, server
<1>13. CASE UNCHANGED vars
  BY <1>13 DEF vars, server, client
<1> QED
  BY <1>1, <1>2, <1>3, <1>4, <1>5, <1>6, <1>7, <1>8, <1>9, <1>10,
     <1>11, <1>12, <1>13 DEF Next, Server, ClientStep

\* The variables stay in their ranges.
THEOREM TypeCorrect == Spec => []TypeOK
<1>1. Init => TypeOK
  BY ChatAssumption DEF Init, TypeOK, Slot
<1> QED
  BY <1>1, TypeStep, PTL DEF Spec

----------------------------------------------------------------------------
(* UniqueLevels.  The answer that grants slot s is a token: at any time it *)
(* is at one place only, in the queue, in the server's hands, in those of  *)
(* a client about to put it back, or spent, as the level of a client.      *)

IsGrant(m, s) == m.status = NEW_USER /\ m.mtype = s

Queued(q, s)     == \E i \in DOMAIN q : IsGrant(q[i], s)
QueuedOnce(q, s) ==
  \A i, j \in DOMAIN q : IsGrant(q[i], s) /\ IsGrant(q[j], s) => i = j

OnePlace(s) ==
  /\ QueuedOnce(queue, s)
  /\ Queued(queue, s) =>
       ~IsGrant(mess, s)
       /\ \A c \in Client : ~IsGrant(held[c], s) /\ CLIENT_ID[c] # s
  /\ IsGrant(mess, s) =>
       \A c \in Client : ~IsGrant(held[c], s) /\ CLIENT_ID[c] # s
  /\ \A c, d \in Client :
       IsGrant(held[c], s) => (IsGrant(held[d], s) => c = d) /\ CLIENT_ID[d] # s
  /\ \A c, d \in Client : CLIENT_ID[c] = s /\ CLIENT_ID[d] = s => c = d

Granted(s) ==
  \/ Queued(queue, s) \/ IsGrant(mess, s)
  \/ \E c \in Client : IsGrant(held[c], s) \/ CLIENT_ID[c] = s

\* The server forwards posts only, never an answer.
ForwardsPosts == srv_pc = "forward" => mess.status # NEW_USER

GrantInv ==
  /\ ForwardsPosts
  /\ restarts = 0 =>
       \A s \in Slot : OnePlace(s) /\ (Granted(s) => USER_STATUS[s] = 1)

\* A message received takes its own grant out of the queue and no other.
LEMMA ReceiveGrants ==
  ASSUME queue \in Seq(Message), NEW t, NEW i \in DOMAIN queue,
         Receive(t, i), NEW s, QueuedOnce(queue, s)
  PROVE  /\ QueuedOnce(queue', s)
         /\ Queued(queue', s) => Queued(queue, s) /\ ~IsGrant(queue[i], s)
<1> DEFINE G == {m \in Message : IsGrant(m, s)}
<1>1. queue' \in Seq(Message)
  BY ReceiveKeepsType
<1>2. \A q \in Seq(Message) : /\ Queued(q, s) <=> Has(q, G)
                              /\ QueuedOnce(q, s) <=> Once(q, G)
  BY DEF Queued, QueuedOnce, Has, Once
<1> HIDE DEF G
<1>3. /\ Once(queue', G)
      /\ Has(queue', G) => Has(queue, G) /\ queue[i] \notin G
  BY <1>2, ReceiveOnce
<1> QED
  BY <1>1, <1>2, <1>3 DEF G

\* A message sent adds at most its own grant to the queue.
LEMMA SendGrants ==
  ASSUME queue \in Seq(Message), NEW m \in Message, Send(m) \/ SendFails,
         NEW s, QueuedOnce(queue, s)
  PROVE  /\ Queued(queue', s) => Queued(queue, s) \/ IsGrant(m, s)
         /\ ~(Queued(queue, s) /\ IsGrant(m, s)) => QueuedOnce(queue', s)
<1> DEFINE G == {n \in Message : IsGrant(n, s)}
<1>1. queue' \in Seq(Message)
  BY SendKeepsType
<1>2. \A q \in Seq(Message) : /\ Queued(q, s) <=> Has(q, G)
                              /\ QueuedOnce(q, s) <=> Once(q, G)
  BY DEF Queued, QueuedOnce, Has, Once
<1>3. IsGrant(m, s) <=> m \in G
  OBVIOUS
<1> HIDE DEF G
<1>4. /\ Has(queue', G) => Has(queue, G) \/ m \in G
      /\ Once(queue, G) /\ ~(Has(queue, G) /\ m \in G) => Once(queue', G)
  BY SendOnce
<1> QED
  BY <1>1, <1>2, <1>3, <1>4

\* No two clients talk on one level and every level in use is taken at the
\* server, however the answers travel through the hands of other clients.
THEOREM GrantInvHolds == Spec => []GrantInv
<1> USE ChatAssumption DEF GrantInv
<1>1. Init => GrantInv
  BY DEF Init, ForwardsPosts, OnePlace, Granted, Queued, QueuedOnce, IsGrant,
         NoMess, NEW_USER, Slot
<1>2. TypeOK /\ GrantInv /\ [Next]_vars => GrantInv'
  <2> SUFFICES ASSUME TypeOK, GrantInv, [Next]_vars PROVE GrantInv'
    OBVIOUS
  <2>0. queue \in Seq(Message)
    BY DEF TypeOK
  <2>1. ForwardsPosts'
    <3>1. CASE Server \/ ServerRestarts
      BY <3>1 DEF Server, ServerReceivesJoin, ServerAnswers, ForwardsPosts,
         ServerReceivesPost, ServerForwards, ServerLoops, ServerRestarts,
         TypeOK, Message
    <3>2. CASE UNCHANGED server
      BY <3>2 DEF ForwardsPosts, server
    <3> QED
      BY <3>1, <3>2 DEF Next, ClientStep, SendJoin, ReceiveAnswer, Resend,
         Type, Show, Quit, vars
  <2>2. ASSUME restarts' = 0, NEW s \in Slot
        PROVE  OnePlace(s)' /\ (Granted(s)' => USER_STATUS'[s] = 1)
    <3>1. restarts = 0 /\ ~ServerRestarts
      <4>1. ~ServerRestarts
        BY <2>2 DEF ServerRestarts, TypeOK
      <4>2. UNCHANGED restarts
        BY <4>1 DEF Next, Server, ServerReceivesJoin, ServerAnswers,
           ServerReceivesPost, ServerForwards, ServerLoops, ClientStep,
           SendJoin, ReceiveAnswer, Resend, Type, Show, Quit, vars, server
      <4> QED
        BY <2>2, <4>1, <4>2
    <3>2. /\ OnePlace(s) /\ (Granted(s) => USER_STATUS[s] = 1)
          /\ QueuedOnce(queue, s)
      BY <3>1 DEF OnePlace
    <3>3. CASE ServerReceivesJoin
      <4>1. PICK i \in DOMAIN queue :
              /\ Receive(SERVER_LEVEL, i)
              /\ \/ \E t \in Slot :
                      /\ FreeSlot(t)
                      /\ USER_STATUS' = [USER_STATUS EXCEPT ![t] = 1]
                      /\ mess' = Answer(queue[i], t, NEW_USER)
                 \/ /\ mess' = Answer(queue[i], CLIENT_COUNT, ROOM_IS_FULL)
                    /\ UNCHANGED USER_STATUS
        BY <3>3 DEF ServerReceivesJoin
      <4>2. /\ QueuedOnce(queue', s)
            /\ Queued(queue', s) => Queued(queue, s)
        BY <2>0, <3>2, <4>1, ReceiveGrants
      <4>3. IsGrant(mess', s) => USER_STATUS[s] = 0 /\ USER_STATUS'[s] = 1
        BY <4>1 DEF IsGrant, Answer, FreeSlot, NEW_USER, ROOM_IS_FULL, TypeOK
      <4>4. USER_STATUS[s] = 1 => USER_STATUS'[s] = 1
        BY <4>1 DEF TypeOK
      <4>5. UNCHANGED <<held, CLIENT_ID>>
        BY <3>3 DEF ServerReceivesJoin, client
      <4> QED
        BY <3>2, <4>2, <4>3, <4>4, <4>5 DEF OnePlace, Granted
    <3>4. CASE ServerAnswers
      <4>1. /\ mess \in Message
            /\ UNCHANGED <<held, CLIENT_ID, USER_STATUS>>
            /\ \/ Send(mess) /\ mess' = NoMess
               \/ SendFails /\ mess' = mess
        BY <3>4 DEF ServerAnswers, TypeOK, client
      <4>2. ~IsGrant(NoMess, s)
        BY DEF IsGrant, NoMess, NEW_USER
      <4>3. /\ Queued(queue', s) => Queued(queue, s) \/ IsGrant(mess, s)
            /\ QueuedOnce(queue', s)
        BY <2>0, <3>2, <4>1, SendGrants DEF OnePlace
      <4>4. CASE mess' = NoMess
        BY <3>2, <4>1, <4>2, <4>3, <4>4 DEF OnePlace, Granted
      <4>5. CASE SendFails /\ mess' = mess
        BY <3>2, <4>1, <4>5 DEF OnePlace, Granted, SendFails
      <4> QED
        BY <4>1, <4>4, <4>5
    <3>5. CASE ServerReceivesPost
      <4>1. PICK i \in DOMAIN queue :
              /\ Receive(SERVER_LEVEL, i)
              /\ queue[i].status # NEW_USER
              /\ mess' = queue[i]
        BY <3>5 DEF ServerReceivesPost
      <4>2. /\ QueuedOnce(queue', s)
            /\ Queued(queue', s) => Queued(queue, s)
        BY <2>0, <3>2, <4>1, ReceiveGrants
      <4>3. ~IsGrant(mess', s)
        BY <4>1 DEF IsGrant
      <4>4. UNCHANGED <<held, CLIENT_ID, USER_STATUS>>
        BY <3>5 DEF ServerReceivesPost, client
      <4> QED
        BY <3>2, <4>2, <4>3, <4>4 DEF OnePlace, Granted
    <3>6. CASE ServerForwards
      <4>1. mess' \in Message /\ mess'.status = mess.status
        <5>1. TypeOK'
          BY TypeStep
        <5>2. srv_pc' \in {"forward", "exited"}
          BY <3>6 DEF ServerForwards
        <5>3. \E t \in ToServe : mess' = [mess EXCEPT !.mtype = t]
          BY <3>6 DEF ServerForwards
        <5>4. mess \in Message
          BY <3>6 DEF ServerForwards, TypeOK
        <5>5. mess' # NoMess
          BY <5>3, <5>4 DEF ToServe, NoMess, TypeOK
        <5> QED
          BY <5>1, <5>3, <5>4, <5>5 DEF TypeOK, Message
      <4>2. ~IsGrant(mess', s) /\ ~IsGrant(mess, s)
        BY <3>6, <4>1 DEF ServerForwards, ForwardsPosts, IsGrant
      <4>3. Send(mess') \/ SendFails
        BY <3>6 DEF ServerForwards
      <4>4. /\ Queued(queue', s) => Queued(queue, s)
            /\ QueuedOnce(queue', s)
        BY <2>0, <3>2, <4>1, <4>2, <4>3, SendGrants
      <4>5. UNCHANGED <<held, CLIENT_ID, USER_STATUS>>
        BY <3>6 DEF ServerForwards, client
      <4> QED
        BY <3>2, <4>2, <4>4, <4>5 DEF OnePlace, Granted
    <3>7. CASE ServerLoops
      <4>1. ~IsGrant(mess', s)
        BY <3>7 DEF ServerLoops, IsGrant, NoMess, NEW_USER
      <4>2. UNCHANGED <<queue, held, CLIENT_ID, USER_STATUS>>
        BY <3>7 DEF ServerLoops, client
      <4> QED
        BY <3>2, <4>1, <4>2 DEF OnePlace, Granted
    <3>8. ASSUME NEW c \in Client, SendJoin(c) \/ Type(c)
          PROVE  OnePlace(s)' /\ (Granted(s)' => USER_STATUS'[s] = 1)
      <4>1. PICK m \in Message :
              (Send(m) \/ SendFails) /\ m.mtype = SERVER_LEVEL
        <5>1. CASE SendJoin(c)
          <6> DEFINE join == [mtype |-> SERVER_LEVEL, status |-> NEW_USER,
                              name |-> NameOf[c], message |-> Hello]
          <6>1. join \in Message /\ join.mtype = SERVER_LEVEL
            BY DEF Message, NEW_USER, SERVER_LEVEL
          <6> QED
            BY <5>1, <6>1 DEF SendJoin
        <5>2. CASE Type(c)
          <6> DEFINE line == [mtype |-> SERVER_LEVEL,
                              status |-> CLIENT_ID[c],
                              name |-> NameOf[c],
                              message |-> <<c, posts[c] + 1>>]
          <6>1. line \in Message /\ line.mtype = SERVER_LEVEL
            BY <5>2 DEF Type, Message, Post, SERVER_LEVEL, TypeOK
          <6> QED
            BY <5>2, <6>1 DEF Type
        <5> QED
          BY <3>8, <5>1, <5>2
      <4>2. ~IsGrant(m, s)
        BY <4>1 DEF IsGrant, SERVER_LEVEL, Slot
      <4>3. /\ Queued(queue', s) => Queued(queue, s)
            /\ QueuedOnce(queue', s)
        BY <2>0, <3>2, <4>1, <4>2, SendGrants
      <4>4. UNCHANGED <<mess, held, CLIENT_ID, USER_STATUS>>
        BY <3>8 DEF SendJoin, Type, server
      <4> QED
        BY <3>2, <4>3, <4>4 DEF OnePlace, Granted
    <3>9. ASSUME NEW c \in Client, ReceiveAnswer(c)
          PROVE  OnePlace(s)' /\ (Granted(s)' => USER_STATUS'[s] = 1)
      <4>1. PICK i \in DOMAIN queue :
              /\ Receive(CLIENT_SPACE, i)
              /\ \/ /\ CLIENT_ID' = [CLIENT_ID EXCEPT ![c] = queue[i].mtype]
                    /\ queue[i].status = NEW_USER
                    /\ UNCHANGED held
                 \/ UNCHANGED <<CLIENT_ID, held>>
                 \/ /\ held' = [held EXCEPT ![c] = queue[i]]
                    /\ UNCHANGED CLIENT_ID
        BY <3>9 DEF ReceiveAnswer
      <4>2. /\ QueuedOnce(queue', s)
            /\ Queued(queue', s) => Queued(queue, s) /\ ~IsGrant(queue[i], s)
        BY <2>0, <3>2, <4>1, ReceiveGrants
      <4>3. IsGrant(queue[i], s) => Queued(queue, s)
        BY DEF Queued
      <4>4. UNCHANGED <<mess, USER_STATUS>>
        BY <3>9 DEF ReceiveAnswer, server
      <4>5. \A d \in Client :
              /\ CLIENT_ID'[d] = s =>
                   CLIENT_ID[d] = s \/ (d = c /\ IsGrant(queue[i], s))
              /\ IsGrant(held'[d], s) =>
                   IsGrant(held[d], s) \/ (d = c /\ IsGrant(queue[i], s))
              /\ ~(CLIENT_ID'[c] = s /\ CLIENT_ID[c] # s
                   /\ IsGrant(held'[c], s) /\ ~IsGrant(held[c], s))
        BY <4>1 DEF IsGrant, TypeOK
      <4> QED
        BY <3>2, <4>2, <4>3, <4>4, <4>5 DEF OnePlace, Granted
    <3>10. ASSUME NEW c \in Client, Resend(c)
           PROVE  OnePlace(s)' /\ (Granted(s)' => USER_STATUS'[s] = 1)
      <4>1. held[c] \in Message /\ (Send(held[c]) \/ SendFails)
        BY <3>10 DEF Resend, TypeOK
      <4>2. /\ Queued(queue', s) => Queued(queue, s) \/ IsGrant(held[c], s)
            /\ QueuedOnce(queue', s)
        BY <2>0, <3>2, <4>1, SendGrants DEF OnePlace
      <4>3. UNCHANGED <<mess, CLIENT_ID, USER_STATUS>>
        BY <3>10 DEF Resend, server
      <4>4. \A d \in Client : IsGrant(held'[d], s) =>
              IsGrant(held[d], s) /\ d # c
        BY <3>10 DEF Resend, IsGrant, NoMess, NEW_USER, TypeOK
      <4> QED
        BY <3>2, <4>2, <4>3, <4>4 DEF OnePlace, Granted
    <3>11. ASSUME NEW c \in Client, Show(c)
           PROVE  OnePlace(s)' /\ (Granted(s)' => USER_STATUS'[s] = 1)
      <4>1. PICK i \in DOMAIN queue : Receive(CLIENT_ID[c], i)
        BY <3>11 DEF Show
      <4>2. /\ QueuedOnce(queue', s)
            /\ Queued(queue', s) => Queued(queue, s)
        BY <2>0, <3>2, <4>1, ReceiveGrants
      <4>3. UNCHANGED <<mess, held, CLIENT_ID, USER_STATUS>>
        BY <3>11 DEF Show, server
      <4> QED
        BY <3>2, <4>2, <4>3 DEF OnePlace, Granted
    <3>12. CASE UNCHANGED <<queue, mess, held, CLIENT_ID, USER_STATUS>>
      BY <3>2, <3>12 DEF OnePlace, Granted
    <3> QED
      BY <3>1, <3>3, <3>4, <3>5, <3>6, <3>7, <3>8, <3>9, <3>10, <3>11, <3>12
         DEF Next, Server, ClientStep, Quit, vars, server, client
  <2> QED
    BY <2>1, <2>2
<1> QED
  BY <1>1, <1>2, TypeCorrect, PTL DEF Spec

\* No two clients get one level from the first server: both would hold the
\* one answer that grants it (join_chat(), case NEW_USER).
THEOREM UniqueLevelsHolds == Spec => []UniqueLevels
<1>1. TypeOK /\ GrantInv => UniqueLevels
  BY ChatAssumption DEF TypeOK, GrantInv, UniqueLevels, OnePlace, Slot
<1> QED
  BY <1>1, TypeCorrect, GrantInvHolds, PTL

\* A level a client has is taken in the table of the first server.
THEOREM LevelsAreTakenHolds == Spec => []LevelsAreTaken
<1>1. TypeOK /\ GrantInv => LevelsAreTaken
  BY ChatAssumption DEF TypeOK, GrantInv, LevelsAreTaken, Granted, Slot
<1> QED
  BY <1>1, TypeCorrect, GrantInvHolds, PTL
----------------------------------------------------------------------------
(* TerminalIsClean.  A copy of a post on a level is a token as well: at    *)
(* any time it is at one place, in the queue, in the hands of a client     *)
(* that joins, or on one terminal; and it is nowhere as long as the server *)
(* has not come to serve that level.                                       *)

Copies(p, s) == {m \in Message : m.message = p /\ m.mtype = s}

Seen(c, p) == \E i \in DOMAIN shown[c] : shown[c][i] = p

\* The terminals of the clients that read level s.
SeenAt(p, s) == \E c \in Client : CLIENT_ID[c] = s /\ Seen(c, p)

OneCopy(p, s) ==
  /\ Once(queue, Copies(p, s))
  /\ Has(queue, Copies(p, s)) =>
       ~SeenAt(p, s) /\ \A c \in Client : held[c] \notin Copies(p, s)
  /\ \A c \in Client : held[c] \in Copies(p, s) =>
       ~SeenAt(p, s) /\ \A d \in Client : held[d] \in Copies(p, s) => c = d
  /\ \A c \in Client : CLIENT_ID[c] = s =>
       \A i, j \in DOMAIN shown[c] : shown[c][i] = p /\ shown[c][j] = p => i = j

Untouched(p, s) ==
  /\ ~Has(queue, Copies(p, s)) /\ ~SeenAt(p, s)
  /\ \A c \in Client : held[c] \notin Copies(p, s)

Waiting(p)    == Has(queue, Copies(p, SERVER_LEVEL))
Forwarding(p) == srv_pc = "forward" /\ mess.message = p

\* A post is sent once, forwarded once, and to one level after the other.
Supply(p) ==
  /\ Once(queue, Copies(p, SERVER_LEVEL))
  /\ Waiting(p) => ~Forwarding(p) /\ \A s \in Slot : Untouched(p, s)
  /\ Forwarding(p) => \A s \in Slot : s >= new_user_it => Untouched(p, s)
  /\ p[2] > posts[p[1]] =>
       ~Waiting(p) /\ ~Forwarding(p) /\ \A s \in Slot : Untouched(p, s)

\* A post says on which level its author is, and no copy is for that level.
Signed(ids, m) ==
  m.message \in Post => m.status = ids[m.message[1]] /\ m.mtype # m.status

CopyInv ==
  /\ \A p \in Post : Supply(p) /\ \A s \in Slot : OneCopy(p, s)
  /\ \A i \in DOMAIN queue : Signed(CLIENT_ID, queue[i])
  /\ srv_pc = "forward" => Signed(CLIENT_ID, mess)
  /\ srv_pc = "answer" => mess.message = Hello
  /\ \A c \in Client :
       /\ Signed(CLIENT_ID, held[c]) /\ held[c].mtype # SERVER_LEVEL
       /\ pc[c] \in {"off", "waiting", "resend"} =>
            CLIENT_ID[c] = 0 /\ shown[c] = <<>> /\ posts[c] = 0
       /\ CLIENT_ID[c] # 0 =>
            \A i \in DOMAIN shown[c] :
              shown[c][i] \in Post => shown[c][i][1] # c

\* The text of an answer is no post.
LEMMA HelloIsNoPost == Hello \notin Post
<1>1. \A p \in Post : Len(p) = 2
  BY DEF Post
<1>2. Len(Hello) = 1
  BY DEF Hello
<1> QED
  BY <1>1, <1>2

\* A post is the pair of its author and its number.
LEMMA PostIsSigned ==
  ASSUME NEW p \in Post
  PROVE  p[1] \in Client /\ p[2] \in 1..MAX_POSTS /\ p = <<p[1], p[2]>>
BY DEF Post

\* Every message whose text is a post is a copy of it on its level.
LEMMA MessageIsCopy ==
  ASSUME NEW m \in Message
  PROVE  m \in Copies(m.message, m.mtype) /\ m.mtype \in 1..SERVER_LEVEL
BY DEF Message, Copies

\* A client that has still to join has written nothing, and nothing of it is
\* anywhere.
LEMMA NothingBeforeJoining ==
  ASSUME TypeOK, CopyInv, NEW c \in Client, posts[c] = 0, NEW m \in Message,
         \/ \E i \in DOMAIN queue : queue[i] = m
         \/ \E d \in Client : held[d] = m
         \/ srv_pc = "forward" /\ mess = m,
         m.message \in Post
  PROVE  m.message[1] # c
<1> DEFINE p == m.message
<1> SUFFICES ASSUME p[1] = c PROVE FALSE
  OBVIOUS
<1>1. p \in Post /\ p[2] > posts[p[1]]
  <2>1. p[2] \in 1..MAX_POSTS
    BY PostIsSigned
  <2>2. MAX_POSTS \in Nat
    BY ChatAssumption
  <2> QED
    BY <2>1, <2>2
<1>2. ~Waiting(p) /\ ~Forwarding(p) /\ \A s \in Slot : Untouched(p, s)
  BY <1>1 DEF CopyInv, Supply
<1>3. m \in Copies(p, m.mtype) /\ m.mtype \in 1..SERVER_LEVEL
  BY MessageIsCopy
<1>4. m.mtype = SERVER_LEVEL \/ m.mtype \in Slot
  BY <1>3, ChatAssumption DEF SERVER_LEVEL, Slot
<1>5. CASE \E i \in DOMAIN queue : queue[i] = m
  BY <1>2, <1>3, <1>4, <1>5 DEF Waiting, Untouched, Has
<1>6. CASE \E d \in Client : held[d] = m
  BY <1>2, <1>3, <1>4, <1>6 DEF Untouched, CopyInv
<1>7. CASE srv_pc = "forward" /\ mess = m
  BY <1>2, <1>7 DEF Forwarding
<1> QED
  BY <1>5, <1>6, <1>7

\* The signatures stay true.
LEMMA SignedStep ==
  ASSUME TypeOK, CopyInv, [Next]_vars
  PROVE  /\ \A i \in DOMAIN queue' : Signed(CLIENT_ID', queue'[i])
         /\ srv_pc' = "forward" => Signed(CLIENT_ID', mess')
         /\ srv_pc' = "answer" => mess'.message = Hello
         /\ \A c \in Client :
              /\ Signed(CLIENT_ID', held'[c]) /\ held'[c].mtype # SERVER_LEVEL
              /\ pc'[c] \in {"off", "waiting", "resend"} =>
                   CLIENT_ID'[c] = 0 /\ shown'[c] = <<>> /\ posts'[c] = 0
<1> DEFINE Signatures ==
             /\ \A i \in DOMAIN queue : Signed(CLIENT_ID, queue[i])
             /\ srv_pc = "forward" => Signed(CLIENT_ID, mess)
             /\ srv_pc = "answer" => mess.message = Hello
             /\ \A c \in Client :
                  /\ Signed(CLIENT_ID, held[c]) /\ held[c].mtype # SERVER_LEVEL
                  /\ pc[c] \in {"off", "waiting", "resend"} =>
                       CLIENT_ID[c] = 0 /\ shown[c] = <<>> /\ posts[c] = 0
<1> SUFFICES Signatures'
  OBVIOUS
<1>i. Signatures
  BY DEF CopyInv
<1>t. /\ queue \in Seq(Message) /\ held \in [Client -> Message \cup {NoMess}]
      /\ pc \in [Client -> {"off", "waiting", "resend", "chatting", "exited"}]
      /\ CLIENT_ID \in [Client -> 0..CLIENT_COUNT]
      /\ posts \in [Client -> 0..MAX_POSTS]
      /\ shown \in [Client -> Seq(Post \cup {Hello})]
      /\ CLIENT_COUNT \in Nat \ {0}
  BY ChatAssumption DEF TypeOK
<1>m. ASSUME NEW m, m.message = Hello
      PROVE  Signed(CLIENT_ID, m) /\ Signed(CLIENT_ID', m)
  BY <1>m, HelloIsNoPost DEF Signed
<1>r. ASSUME NEW t, NEW i \in DOMAIN queue, Receive(t, i),
             \A m \in Message : (\E k \in DOMAIN queue : queue[k] = m) =>
               Signed(CLIENT_ID', m)
      PROVE  /\ \A j \in DOMAIN queue' : Signed(CLIENT_ID', queue'[j])
             /\ queue[i] \in Message /\ Signed(CLIENT_ID', queue[i])
             /\ Accepts(t, queue[i])
  <2>1. \A k \in DOMAIN queue : queue[k] \in Message
    BY <1>t
  <2>2. \A j \in DOMAIN queue' : \E k \in DOMAIN queue : queue'[j] = queue[k]
    BY <1>r, <1>t, ReceiveOnce
  <2>3. Accepts(t, queue[i])
    BY <1>r, <1>t, ReceiveKeepsType
  <2> QED
    BY <1>r, <2>1, <2>2, <2>3
<1>q. ASSUME UNCHANGED CLIENT_ID, NEW m
      PROVE  Signed(CLIENT_ID', m) <=> Signed(CLIENT_ID, m)
  BY <1>q DEF Signed
<1>s. ASSUME UNCHANGED CLIENT_ID, NEW m \in Message, Signed(CLIENT_ID, m),
             Send(m) \/ SendFails
      PROVE  \A j \in DOMAIN queue' : Signed(CLIENT_ID', queue'[j])
  <2>1. \A j \in DOMAIN queue' :
          queue'[j] = m \/ \E k \in DOMAIN queue : queue'[j] = queue[k]
    BY <1>s, <1>t, SendOnce
  <2> QED
    BY <1>i, <1>q, <1>s, <2>1
<1>1. CASE ServerReceivesJoin
  <2>1. PICK i \in DOMAIN queue :
          /\ Receive(SERVER_LEVEL, i)
          /\ \/ \E s \in Slot : mess' = Answer(queue[i], s, NEW_USER)
             \/ mess' = Answer(queue[i], CLIENT_COUNT, ROOM_IS_FULL)
    BY <1>1 DEF ServerReceivesJoin
  <2>2. mess'.message = Hello
    BY <2>1 DEF Answer
  <2>3. srv_pc' = "answer" /\ UNCHANGED client
    BY <1>1 DEF ServerReceivesJoin
  <2>4. \A j \in DOMAIN queue' : Signed(CLIENT_ID', queue'[j])
    BY <1>i, <1>q, <1>r, <2>1, <2>3 DEF client
  <2> QED
    BY <1>i, <1>q, <2>2, <2>3, <2>4 DEF client
<1>2. CASE ServerAnswers
  <2>1. /\ mess \in Message /\ mess.message = Hello
        /\ Send(mess) \/ SendFails
        /\ srv_pc' \in {"receive", "exited"} /\ UNCHANGED client
    BY <1>2, <1>i DEF ServerAnswers, TypeOK
  <2>2. \A j \in DOMAIN queue' : Signed(CLIENT_ID', queue'[j])
    BY <1>m, <1>s, <2>1 DEF client
  <2> QED
    BY <1>i, <1>q, <2>1, <2>2 DEF client
<1>3. CASE ServerReceivesPost
  <2>1. PICK i \in DOMAIN queue :
          Receive(SERVER_LEVEL, i) /\ mess' = queue[i]
    BY <1>3 DEF ServerReceivesPost
  <2>2. srv_pc' = "forward" /\ UNCHANGED client
    BY <1>3 DEF ServerReceivesPost
  <2>3. /\ \A j \in DOMAIN queue' : Signed(CLIENT_ID', queue'[j])
        /\ Signed(CLIENT_ID', mess')
    BY <1>i, <1>q, <1>r, <2>1, <2>2 DEF client
  <2> QED
    BY <1>i, <1>q, <2>2, <2>3 DEF client
<1>4. CASE ServerForwards
  <2>1. PICK s \in ToServe :
          mess' = [mess EXCEPT !.mtype = s] /\ (Send(mess') \/ SendFails)
    BY <1>4 DEF ServerForwards
  <2>2. /\ mess \in Message /\ s \in Slot /\ mess.status # s
        /\ Signed(CLIENT_ID, mess) /\ UNCHANGED client /\ srv_pc' # "answer"
    BY <1>4, <1>i DEF ServerForwards, ToServe, Slot, TypeOK
  <2>3. /\ mess' \in Message /\ mess'.message = mess.message
        /\ mess'.status = mess.status /\ mess'.mtype = s
    <3>1. s \in 1..SERVER_LEVEL
      BY <1>t, <2>2 DEF Slot, SERVER_LEVEL
    <3> QED
      BY <2>1, <2>2, <3>1 DEF Message
  <2>4. Signed(CLIENT_ID, mess')
    BY <2>2, <2>3 DEF Signed
  <2>5. \A j \in DOMAIN queue' : Signed(CLIENT_ID', queue'[j])
    BY <1>s, <2>1, <2>2, <2>3, <2>4 DEF client
  <2> QED
    BY <1>i, <1>q, <2>2, <2>4, <2>5 DEF client
<1>5. CASE ServerLoops \/ ServerRestarts
  <2>1. srv_pc' = "receive" /\ UNCHANGED <<queue, client>>
    BY <1>5 DEF ServerLoops, ServerRestarts
  <2> QED
    BY <1>i, <1>q, <2>1 DEF client
<1>6. ASSUME NEW c \in Client, SendJoin(c) PROVE Signatures'
  <2> DEFINE join == [mtype |-> SERVER_LEVEL, status |-> NEW_USER,
                      name |-> NameOf[c], message |-> Hello]
  <2>1. join \in Message /\ join.message = Hello
    BY <1>t, ChatAssumption DEF Message, NEW_USER, SERVER_LEVEL
  <2>2. /\ Send(join) \/ SendFails
        /\ UNCHANGED <<server, CLIENT_ID, held, posts, shown>>
        /\ pc[c] = "off"
        /\ \A d \in Client : d # c => pc'[d] = pc[d]
    BY <1>6, <1>t DEF SendJoin
  <2> HIDE DEF join
  <2>3. \A j \in DOMAIN queue' : Signed(CLIENT_ID', queue'[j])
    BY <1>m, <1>s, <2>1, <2>2
  <2> QED
    BY <1>i, <1>q, <2>2, <2>3 DEF server
<1>7. ASSUME NEW c \in Client, ReceiveAnswer(c) PROVE Signatures'
  <2>1. PICK i \in DOMAIN queue :
          /\ Receive(CLIENT_SPACE, i)
          /\ \/ pc' = [pc EXCEPT ![c] = "chatting"] /\ UNCHANGED held
             \/ /\ pc' = [pc EXCEPT ![c] = "exited"]
                /\ UNCHANGED <<CLIENT_ID, held>>
             \/ /\ held' = [held EXCEPT ![c] = queue[i]]
                /\ pc' = [pc EXCEPT ![c] = "resend"]
                /\ UNCHANGED CLIENT_ID
    BY <1>7 DEF ReceiveAnswer
  <2>2. /\ pc[c] = "waiting" /\ UNCHANGED <<server, posts, shown>>
        /\ \A d \in Client : d # c => CLIENT_ID'[d] = CLIENT_ID[d]
    BY <1>7, <1>t DEF ReceiveAnswer
  <2>3. posts[c] = 0
    BY <1>i, <2>2
  <2>4. ASSUME NEW m \in Message,
               \/ \E k \in DOMAIN queue : queue[k] = m
               \/ \E d \in Client : held[d] = m
               \/ srv_pc = "forward" /\ mess = m
        PROVE  Signed(CLIENT_ID', m)
    <3> SUFFICES ASSUME m.message \in Post
                 PROVE  m.status = CLIENT_ID'[m.message[1]]
                        /\ m.mtype # m.status
      BY DEF Signed
    <3>1. m.message[1] # c /\ m.message[1] \in Client
      BY <2>3, <2>4, NothingBeforeJoining, PostIsSigned
    <3>2. Signed(CLIENT_ID, m)
      BY <1>i, <2>4
    <3> QED
      BY <2>2, <3>1, <3>2 DEF Signed
  <2>5. /\ \A j \in DOMAIN queue' : Signed(CLIENT_ID', queue'[j])
        /\ queue[i] \in Message /\ Signed(CLIENT_ID', queue[i])
        /\ Accepts(CLIENT_SPACE, queue[i])
    BY <1>r, <2>1, <2>4
  <2>6. queue[i].mtype # SERVER_LEVEL
    BY <1>t, <2>5, AcceptsLevel DEF Slot, SERVER_LEVEL
  <2>7. ASSUME NEW d \in Client
        PROVE  Signed(CLIENT_ID', held'[d]) /\ held'[d].mtype # SERVER_LEVEL
    <3>1. CASE d = c /\ held' = [held EXCEPT ![c] = queue[i]]
      BY <1>t, <2>5, <2>6, <3>1
    <3>2. CASE held'[d] = held[d]
      <4>1. held[d] \in Message => Signed(CLIENT_ID', held[d])
        BY <2>4, <3>2 DEF Signed
      <4>2. held[d] = NoMess => Signed(CLIENT_ID', held[d])
        BY <1>m, <3>2 DEF NoMess
      <4> QED
        BY <1>i, <1>t, <3>2, <4>1, <4>2
    <3> QED
      BY <1>t, <2>1, <3>1, <3>2
  <2>8. srv_pc' = "forward" => Signed(CLIENT_ID', mess')
    <3>1. srv_pc = "forward" => mess \in Message
      BY DEF TypeOK
    <3> QED
      BY <2>2, <2>4, <3>1 DEF server
  <2>9. ASSUME NEW d \in Client, pc'[d] \in {"off", "waiting", "resend"}
        PROVE  CLIENT_ID'[d] = 0 /\ shown'[d] = <<>> /\ posts'[d] = 0
    BY <1>i, <1>t, <2>1, <2>2, <2>9
  <2> QED
    BY <1>i, <2>2, <2>5, <2>7, <2>8, <2>9 DEF server
<1>8. ASSUME NEW c \in Client, Resend(c) PROVE Signatures'
  <2>1. /\ held[c] \in Message
        /\ Send(held[c]) \/ SendFails
        /\ pc' = [pc EXCEPT ![c] = pc'[c]] /\ pc'[c] \in {"chatting", "exited"}
        /\ held' = [held EXCEPT ![c] = NoMess]
        /\ UNCHANGED <<server, CLIENT_ID, posts, shown>>
    BY <1>8, <1>t DEF Resend, TypeOK
  <2>2. \A j \in DOMAIN queue' : Signed(CLIENT_ID', queue'[j])
    <3>1. Signed(CLIENT_ID, held[c]) /\ UNCHANGED CLIENT_ID
      BY <1>i, <2>1
    <3> QED
      BY <1>s, <2>1, <3>1
  <2>3. /\ NoMess.mtype = 0 /\ NoMess.message = Hello /\ SERVER_LEVEL # 0
    BY <1>t DEF NoMess, SERVER_LEVEL
  <2>4. \A d \in Client :
          Signed(CLIENT_ID', held'[d]) /\ held'[d].mtype # SERVER_LEVEL
    BY <1>i, <1>m, <1>q, <1>t, <2>1, <2>3
  <2>5. \A d \in Client : pc'[d] \in {"off", "waiting", "resend"} =>
          pc[d] = pc'[d]
    BY <1>t, <2>1
  <2> QED
    BY <1>i, <1>q, <2>1, <2>2, <2>4, <2>5 DEF server
<1>9. ASSUME NEW c \in Client, Type(c) PROVE Signatures'
  <2> DEFINE line == [mtype |-> SERVER_LEVEL, status |-> CLIENT_ID[c],
                      name |-> NameOf[c], message |-> <<c, posts[c] + 1>>]
  <2>1. line \in Message /\ Signed(CLIENT_ID, line)
    <3>1. <<c, posts[c] + 1>> \in Post
      BY <1>9, <1>t, ChatAssumption DEF Type, Post
    <3>2. line \in Message
      BY <1>t, <3>1, ChatAssumption DEF Message, SERVER_LEVEL
    <3> QED
      BY <1>t, <3>2 DEF Signed, SERVER_LEVEL
  <2>2. /\ Send(line) \/ SendFails
        /\ pc[c] = "chatting" /\ pc'[c] \in {"chatting", "exited"}
        /\ \A d \in Client : d # c => pc'[d] = pc[d] /\ posts'[d] = posts[d]
        /\ UNCHANGED <<server, CLIENT_ID, held, shown>>
    BY <1>9, <1>t DEF Type
  <2> HIDE DEF line
  <2>3. \A j \in DOMAIN queue' : Signed(CLIENT_ID', queue'[j])
    BY <1>s, <2>1, <2>2
  <2> QED
    BY <1>i, <1>q, <2>2, <2>3 DEF server
<1>10. ASSUME NEW c \in Client, Show(c) PROVE Signatures'
  <2>1. PICK i \in DOMAIN queue : Receive(CLIENT_ID[c], i)
    BY <1>10 DEF Show
  <2>2. /\ pc[c] = "chatting"
        /\ \A d \in Client : d # c => shown'[d] = shown[d]
        /\ UNCHANGED <<server, pc, CLIENT_ID, held, posts>>
    BY <1>10, <1>t DEF Show
  <2>3. \A j \in DOMAIN queue' : Signed(CLIENT_ID', queue'[j])
    BY <1>i, <1>q, <1>r, <2>1, <2>2
  <2> QED
    BY <1>i, <1>q, <2>2, <2>3 DEF server
<1>11. ASSUME NEW c \in Client, Quit(c) PROVE Signatures'
  <2>1. /\ UNCHANGED <<queue, server, CLIENT_ID, held, posts, shown>>
        /\ pc'[c] = "exited" /\ \A d \in Client : d # c => pc'[d] = pc[d]
    BY <1>11, <1>t DEF Quit
  <2> QED
    BY <1>i, <1>q, <2>1 DEF server
<1>12. CASE UNCHANGED vars
  BY <1>12, <1>i, <1>q DEF vars, server, client
<1> QED
  BY <1>1, <1>2, <1>3, <1>4, <1>5, <1>6, <1>7, <1>8, <1>9, <1>10, <1>11,
     <1>12 DEF Next, Server, ClientStep

\* What a step may do to the copies of p on level s: nothing is added to
\* them, and the clients of the level see what they saw.
NoneAdded(p, s) ==
  /\ Has(queue', Copies(p, s)) => Has(queue, Copies(p, s))
  /\ Once(queue, Copies(p, s)) => Once(queue', Copies(p, s))
  /\ \A c \in Client : held'[c] \in Copies(p, s) => held[c] \in Copies(p, s)
SameScreens(s) ==
  \A c \in Client : CLIENT_ID'[c] = s =>
    \/ CLIENT_ID[c] = s /\ shown'[c] = shown[c]
    \/ shown'[c] = <<>>

\* What adds no copy of a line keeps it on one screen once.
LEMMA CopiesStay ==
  ASSUME NEW p, NEW s, NoneAdded(p, s), SameScreens(s)
  PROVE  /\ Untouched(p, s) => Untouched(p, s)'
         /\ OneCopy(p, s) => OneCopy(p, s)'
<1>1. DOMAIN <<>> = {}
  OBVIOUS
<1>2. SeenAt(p, s)' => SeenAt(p, s)
  BY <1>1 DEF SameScreens, SeenAt, Seen
<1>3. Copies(p, s)' = Copies(p, s)
  BY DEF Copies
<1>4. Untouched(p, s) => Untouched(p, s)'
  BY <1>2, <1>3 DEF Untouched, NoneAdded
<1>5. OneCopy(p, s) => OneCopy(p, s)'
  <2>1. (\A c \in Client : CLIENT_ID[c] = s =>
          \A i, j \in DOMAIN shown[c] :
            shown[c][i] = p /\ shown[c][j] = p => i = j)
        => (\A c \in Client : CLIENT_ID'[c] = s =>
             \A i, j \in DOMAIN shown'[c] :
               shown'[c][i] = p /\ shown'[c][j] = p => i = j)
    BY <1>1 DEF SameScreens
  <2> QED
    BY <1>2, <1>3, <2>1 DEF OneCopy, NoneAdded
<1> QED
  BY <1>4, <1>5

\* What it may do to the supply of p.
LEMMA SupplyStays ==
  ASSUME NEW p \in Post, Supply(p),
         posts[p[1]] \in Int, posts'[p[1]] \in Int, p[2] \in Int,
         posts'[p[1]] >= posts[p[1]],
         \A s \in Slot : Untouched(p, s) => Untouched(p, s)',
         Waiting(p)' => Waiting(p),
         Once(queue, Copies(p, SERVER_LEVEL)) =>
           Once(queue', Copies(p, SERVER_LEVEL)),
         Forwarding(p)' => Forwarding(p) /\ new_user_it' = new_user_it
  PROVE  Supply(p)'
<1>1. \A s : Copies(p, s)' = Copies(p, s)
  BY DEF Copies
<1>2. p[2] > posts'[p[1]] => p[2] > posts[p[1]]
  OBVIOUS
<1> QED
  BY <1>1, <1>2 DEF Supply

\* A step of the queue that takes a message out, or adds one that is no copy
\* of p, leaves the supply and the copies of p as they are.
LEMMA QueueOnly ==
  ASSUME NEW p \in Post, Supply(p), \A s \in Slot : OneCopy(p, s),
         posts[p[1]] \in Int, p[2] \in Int,
         \A s \in 1..SERVER_LEVEL :
           /\ Has(queue', Copies(p, s)) => Has(queue, Copies(p, s))
           /\ Once(queue, Copies(p, s)) => Once(queue', Copies(p, s)),
         UNCHANGED <<held, CLIENT_ID, shown, posts>>,
         Forwarding(p)' => Forwarding(p) /\ new_user_it' = new_user_it
  PROVE  Supply(p)' /\ \A s \in Slot : OneCopy(p, s)'
<1>1. SERVER_LEVEL \in 1..SERVER_LEVEL /\ Slot \subseteq 1..SERVER_LEVEL
  BY ChatAssumption DEF Slot, SERVER_LEVEL
<1>2. \A s \in Slot : NoneAdded(p, s) /\ SameScreens(s)
  BY <1>1 DEF NoneAdded, SameScreens
<1>3. Waiting(p)' => Waiting(p)
  BY <1>1 DEF Waiting, Copies
<1>4. \A s \in Slot : /\ Untouched(p, s) => Untouched(p, s)'
                      /\ OneCopy(p, s)'
  BY <1>2, CopiesStay
<1>5. /\ posts'[p[1]] >= posts[p[1]] /\ posts'[p[1]] \in Int
      /\ Once(queue, Copies(p, SERVER_LEVEL)) =>
           Once(queue', Copies(p, SERVER_LEVEL))
  BY <1>1
<1> QED
  BY <1>3, <1>4, <1>5, SupplyStays

\* The tokens of a post stay at one place each.
LEMMA TokenStep ==
  ASSUME TypeOK, CopyInv, [Next]_vars, NEW p \in Post
  PROVE  Supply(p)' /\ \A s \in Slot : OneCopy(p, s)'
<1> DEFINE Goal == Supply(p)' /\ \A s \in Slot : OneCopy(p, s)'
<1>t. /\ queue \in Seq(Message) /\ held \in [Client -> Message \cup {NoMess}]
      /\ pc \in [Client -> {"off", "waiting", "resend", "chatting", "exited"}]
      /\ CLIENT_ID \in [Client -> 0..CLIENT_COUNT]
      /\ posts \in [Client -> 0..MAX_POSTS]
      /\ shown \in [Client -> Seq(Post \cup {Hello})]
      /\ CLIENT_COUNT \in Nat \ {0} /\ MAX_POSTS \in Nat
  BY ChatAssumption DEF TypeOK
<1>i. Supply(p) /\ \A s \in Slot : OneCopy(p, s)
  BY DEF CopyInv
<1>p. /\ p[1] \in Client /\ p[2] \in Int /\ posts[p[1]] \in Int /\ p # Hello
      /\ p = <<p[1], p[2]>>
  BY <1>t, PostIsSigned, HelloIsNoPost
<1>l. /\ SERVER_LEVEL \in 1..SERVER_LEVEL /\ Slot \subseteq 1..SERVER_LEVEL
      /\ SERVER_LEVEL \notin Slot
  BY <1>t DEF Slot, SERVER_LEVEL
<1>c. \A s : Copies(p, s)' = Copies(p, s)
  BY DEF Copies
<1>h. \A m, s : m \in Copies(p, s) => m.message = p /\ m.mtype = s
  BY DEF Copies
<1>r. ASSUME NEW t, NEW i \in DOMAIN queue, Receive(t, i)
      PROVE  /\ queue[i] \in Message /\ Accepts(t, queue[i])
             /\ queue[i] \in Copies(queue[i].message, queue[i].mtype)
             /\ \A s : /\ Has(queue', Copies(p, s)) => Has(queue, Copies(p, s))
                       /\ Once(queue, Copies(p, s)) =>
                            /\ Once(queue', Copies(p, s))
                            /\ queue[i] \in Copies(p, s) =>
                                 Has(queue, Copies(p, s))
                                 /\ ~Has(queue', Copies(p, s))
  <2>1. queue[i] \in Message /\ Accepts(t, queue[i])
    BY <1>r, <1>t, ReceiveKeepsType
  <2>2. \A s : queue[i] \in Copies(p, s) => Has(queue, Copies(p, s))
    BY DEF Has
  <2> QED
    BY <1>r, <1>t, <2>1, <2>2, ReceiveOnce, MessageIsCopy
<1>s. ASSUME NEW m \in Message, Send(m) \/ SendFails, NEW s,
             m.message # p \/ m.mtype # s
      PROVE  /\ Has(queue', Copies(p, s)) => Has(queue, Copies(p, s))
             /\ Once(queue, Copies(p, s)) => Once(queue', Copies(p, s))
  BY <1>h, <1>s, <1>t, SendOnce
<1>1. CASE ServerReceivesJoin
  <2>1. PICK i \in DOMAIN queue : Receive(SERVER_LEVEL, i)
    BY <1>1 DEF ServerReceivesJoin
  <2>2. ~Forwarding(p)' /\ UNCHANGED <<held, CLIENT_ID, shown, posts>>
    BY <1>1 DEF ServerReceivesJoin, Forwarding, client
  <2> QED
    BY <1>i, <1>p, <1>r, <2>1, <2>2, QueueOnly
<1>2. CASE ServerAnswers
  <2>1. /\ mess \in Message /\ mess.message = Hello
        /\ Send(mess) \/ SendFails
        /\ UNCHANGED <<held, CLIENT_ID, shown, posts>> /\ ~Forwarding(p)'
    BY <1>2 DEF ServerAnswers, TypeOK, CopyInv, client, Forwarding
  <2> QED
    BY <1>i, <1>p, <1>s, <2>1, QueueOnly
<1>3. CASE ServerReceivesPost
  <2>1. PICK i \in DOMAIN queue :
          Receive(SERVER_LEVEL, i) /\ mess' = queue[i]
    BY <1>3 DEF ServerReceivesPost
  <2>2. /\ srv_pc' = "forward" /\ new_user_it' = 1
        /\ UNCHANGED <<held, CLIENT_ID, shown, posts>>
    BY <1>3 DEF ServerReceivesPost, client
  <2>3. CASE queue[i].message # p
    <3>1. ~Forwarding(p)'
      BY <2>1, <2>3 DEF Forwarding
    <3> QED
      BY <1>i, <1>p, <1>r, <2>1, <2>2, <3>1, QueueOnly
  <2>4. CASE queue[i].message = p
    <3>1. queue[i] \in Copies(p, SERVER_LEVEL)
      <4>1. Accepts(SERVER_LEVEL, queue[i]) /\ SERVER_LEVEL > 0
        BY <1>r, <1>t, <2>1 DEF SERVER_LEVEL
      <4>2. queue[i].mtype = SERVER_LEVEL
        BY <1>t, <4>1 DEF Accepts, SERVER_LEVEL
      <4> QED
        BY <1>r, <2>1, <2>4, <4>2
    <3>2. /\ Has(queue, Copies(p, SERVER_LEVEL))
          /\ ~Has(queue', Copies(p, SERVER_LEVEL))
          /\ Once(queue', Copies(p, SERVER_LEVEL))
      BY <1>i, <1>r, <2>1, <3>1 DEF Supply
    <3>3. /\ \A s \in Slot : Untouched(p, s)
          /\ ~(p[2] > posts[p[1]])
      BY <1>i, <3>2 DEF Supply, Waiting
    <3>4. \A s \in Slot : NoneAdded(p, s) /\ SameScreens(s)
      BY <1>r, <2>1, <2>2 DEF NoneAdded, SameScreens
    <3>5. \A s \in Slot : Untouched(p, s)' /\ OneCopy(p, s)'
      BY <1>i, <3>3, <3>4, CopiesStay
    <3>6. ~Waiting(p)' /\ ~(p[2] > posts'[p[1]])
      BY <1>c, <2>2, <3>2, <3>3 DEF Waiting
    <3> QED
      BY <1>c, <3>2, <3>5, <3>6 DEF Supply
  <2> QED
    BY <2>3, <2>4
<1>4. CASE ServerForwards
  <2>1. PICK s \in ToServe :
          /\ mess' = [mess EXCEPT !.mtype = s]
          /\ \/ Send(mess') /\ new_user_it' = s + 1
             \/ SendFails /\ srv_pc' = "exited"
    BY <1>4 DEF ServerForwards
  <2>2. /\ mess \in Message /\ s \in Slot /\ s >= new_user_it
        /\ srv_pc = "forward" /\ new_user_it \in Int /\ s \in Int
        /\ UNCHANGED <<held, CLIENT_ID, shown, posts>>
    BY <1>4, <1>t DEF ServerForwards, ToServe, Slot, TypeOK, client
  <2>3. /\ mess' \in Message /\ mess'.message = mess.message
        /\ mess'.mtype = s
    BY <1>l, <2>1, <2>2 DEF Message
  <2>4. Send(mess') \/ SendFails
    BY <2>1
  <2>5. CASE mess.message # p
    <3>1. ~Forwarding(p)'
      BY <2>3, <2>5 DEF Forwarding
    <3> QED
      BY <1>i, <1>p, <1>s, <2>2, <2>3, <2>4, <2>5, <3>1, QueueOnly
  <2>6. CASE mess.message = p
    <3>1. /\ ~Waiting(p) /\ ~(p[2] > posts[p[1]])
          /\ \A r \in Slot : r >= new_user_it => Untouched(p, r)
      BY <1>i, <2>2, <2>6 DEF Supply, Forwarding
    <3>2. \A r \in Slot : r # s => NoneAdded(p, r) /\ SameScreens(r)
      BY <1>s, <2>2, <2>3, <2>4 DEF NoneAdded, SameScreens
    <3>3. \A r \in Slot : r # s => /\ Untouched(p, r) => Untouched(p, r)'
                                   /\ OneCopy(p, r)'
      BY <1>i, <3>2, CopiesStay
    <3>4. OneCopy(p, s)'
      <4>1. Untouched(p, s) /\ OneCopy(p, s)
        BY <1>i, <2>2, <3>1
      <4>2. Once(queue', Copies(p, s))
        BY <1>t, <2>3, <2>4, <4>1, SendOnce DEF Untouched, OneCopy
      <4>3. SeenAt(p, s)' = SeenAt(p, s)
        BY <2>2 DEF SeenAt, Seen
      <4> QED
        BY <1>c, <2>2, <4>1, <4>2, <4>3 DEF OneCopy, Untouched
    <3>5. ~Waiting(p)' /\ Once(queue', Copies(p, SERVER_LEVEL))
      BY <1>c, <1>i, <1>l, <1>s, <2>2, <2>3, <2>4, <3>1 DEF Waiting, Supply
    <3>6. ASSUME Forwarding(p)', NEW r \in Slot, r >= new_user_it'
          PROVE  Untouched(p, r)'
      <4>1. new_user_it' = s + 1
        BY <2>1, <3>6 DEF Forwarding
      <4>2. r # s /\ r >= new_user_it
        BY <1>t, <2>2, <3>6, <4>1 DEF Slot
      <4> QED
        BY <3>1, <3>3, <4>2
    <3>7. ~(p[2] > posts'[p[1]])
      BY <2>2, <3>1
    <3>8. Supply(p)'
      BY <1>c, <3>5, <3>6, <3>7 DEF Supply
    <3> QED
      BY <3>3, <3>4, <3>8
  <2> QED
    BY <2>5, <2>6
<1>5. CASE ServerLoops \/ ServerRestarts
  <2>1. /\ UNCHANGED <<queue, held, CLIENT_ID, shown, posts>>
        /\ ~Forwarding(p)'
    BY <1>5 DEF ServerLoops, ServerRestarts, client, Forwarding
  <2> QED
    BY <1>i, <1>p, <2>1, QueueOnly
<1>6. ASSUME NEW c \in Client, SendJoin(c) PROVE Goal
  <2> DEFINE join == [mtype |-> SERVER_LEVEL, status |-> NEW_USER,
                      name |-> NameOf[c], message |-> Hello]
  <2>1. join \in Message /\ join.message = Hello
    BY <1>t, ChatAssumption DEF Message, NEW_USER, SERVER_LEVEL
  <2>2. /\ Send(join) \/ SendFails
        /\ UNCHANGED <<server, CLIENT_ID, held, posts, shown>>
    BY <1>6 DEF SendJoin
  <2> HIDE DEF join
  <2>3. Forwarding(p)' => Forwarding(p) /\ new_user_it' = new_user_it
    BY <2>2 DEF Forwarding, server
  <2> QED
    BY <1>i, <1>p, <1>s, <2>1, <2>2, <2>3, QueueOnly
<1>7. ASSUME NEW c \in Client, ReceiveAnswer(c) PROVE Goal
  <2>1. PICK i \in DOMAIN queue :
          /\ Receive(CLIENT_SPACE, i)
          /\ UNCHANGED held \/ held' = [held EXCEPT ![c] = queue[i]]
    BY <1>7 DEF ReceiveAnswer
  <2>2. /\ pc[c] = "waiting" /\ UNCHANGED <<server, posts, shown>>
        /\ \A d \in Client : d # c => CLIENT_ID'[d] = CLIENT_ID[d]
    BY <1>7, <1>t DEF ReceiveAnswer
  <2>3. \A s : SameScreens(s)
    BY <2>2 DEF SameScreens, CopyInv
  <2>4. Forwarding(p)' => Forwarding(p) /\ new_user_it' = new_user_it
    BY <2>2 DEF Forwarding, server
  <2>5. ASSUME NEW s \in Slot
        PROVE  (Untouched(p, s) => Untouched(p, s)') /\ OneCopy(p, s)'
    <3>1. CASE queue[i] \notin Copies(p, s) \/ UNCHANGED held
      <4>1. NoneAdded(p, s)
        BY <1>r, <1>t, <2>1, <3>1 DEF NoneAdded
      <4> QED
        BY <1>i, <2>3, <4>1, CopiesStay
    <3>2. CASE /\ queue[i] \in Copies(p, s)
               /\ held' = [held EXCEPT ![c] = queue[i]]
      <4>1. /\ Has(queue, Copies(p, s)) /\ ~Has(queue', Copies(p, s))
            /\ Once(queue', Copies(p, s))
        BY <1>i, <1>r, <2>1, <3>2 DEF OneCopy
      <4>2. ~SeenAt(p, s) /\ \A d \in Client : held[d] \notin Copies(p, s)
        BY <1>i, <4>1 DEF OneCopy
      <4>3. \A d \in Client : held'[d] \in Copies(p, s) => d = c
        BY <1>t, <3>2, <4>2
      <4>4. ~SeenAt(p, s)'
        <5>1. DOMAIN <<>> = {}
          OBVIOUS
        <5> QED
          BY <2>3, <4>2, <5>1 DEF SameScreens, SeenAt, Seen
      <4>5. \A d \in Client : CLIENT_ID'[d] = s =>
              \A j \in DOMAIN shown'[d] : shown'[d][j] # p
        BY <4>4 DEF SeenAt, Seen
      <4>6. OneCopy(p, s)'
        BY <1>c, <4>1, <4>3, <4>4, <4>5 DEF OneCopy
      <4> QED
        BY <4>1, <4>6 DEF Untouched
    <3> QED
      BY <2>1, <3>1, <3>2
  <2>6. /\ Waiting(p)' => Waiting(p)
        /\ Once(queue, Copies(p, SERVER_LEVEL)) =>
             Once(queue', Copies(p, SERVER_LEVEL))
    BY <1>c, <1>r, <2>1 DEF Waiting
  <2>7. posts'[p[1]] = posts[p[1]]
    BY <2>2
  <2> QED
    BY <1>i, <1>p, <2>4, <2>5, <2>6, <2>7, SupplyStays
<1>8. ASSUME NEW c \in Client, Resend(c) PROVE Goal
  <2>1. /\ held[c] \in Message
        /\ Send(held[c]) \/ SendFails
        /\ held' = [held EXCEPT ![c] = NoMess]
        /\ UNCHANGED <<server, CLIENT_ID, posts, shown>>
        /\ held[c].mtype # SERVER_LEVEL
    BY <1>8 DEF Resend, TypeOK, CopyInv
  <2>2. \A s \in Slot : NoMess \notin Copies(p, s)
    BY <1>h, <1>t DEF NoMess, Slot
  <2>3. ASSUME NEW s \in Slot
        PROVE  (Untouched(p, s) => Untouched(p, s)') /\ OneCopy(p, s)'
    <3>1. SameScreens(s) /\ (SeenAt(p, s)' <=> SeenAt(p, s))
      BY <2>1 DEF SameScreens, SeenAt, Seen
    <3>2. CASE held[c] \notin Copies(p, s)
      <4>1. held[c].message # p \/ held[c].mtype # s
        BY <2>1, <3>2 DEF Copies
      <4>2. NoneAdded(p, s)
        BY <1>s, <1>t, <2>1, <2>2, <4>1 DEF NoneAdded
      <4> QED
        BY <1>i, <3>1, <4>2, CopiesStay
    <3>3. CASE held[c] \in Copies(p, s)
      <4>1. /\ ~SeenAt(p, s) /\ ~Has(queue, Copies(p, s))
            /\ \A d \in Client : held[d] \in Copies(p, s) => d = c
            /\ Once(queue, Copies(p, s))
        BY <1>i, <3>3 DEF OneCopy
      <4>2. Once(queue', Copies(p, s))
        BY <1>t, <2>1, <4>1, SendOnce
      <4>3. \A d \in Client : held'[d] \notin Copies(p, s)
        BY <1>t, <2>1, <2>2, <4>1
      <4>4. \A d \in Client : CLIENT_ID'[d] = s =>
              \A j \in DOMAIN shown'[d] : shown'[d][j] # p
        BY <3>1, <4>1 DEF SeenAt, Seen
      <4>5. OneCopy(p, s)'
        BY <1>c, <3>1, <4>1, <4>2, <4>3, <4>4 DEF OneCopy
      <4> QED
        BY <3>3, <4>5 DEF Untouched
    <3> QED
      BY <3>2, <3>3
  <2>4. /\ Waiting(p)' => Waiting(p)
        /\ Once(queue, Copies(p, SERVER_LEVEL)) =>
             Once(queue', Copies(p, SERVER_LEVEL))
    BY <1>c, <1>s, <2>1 DEF Waiting
  <2>5. /\ posts'[p[1]] = posts[p[1]]
        /\ Forwarding(p)' => Forwarding(p) /\ new_user_it' = new_user_it
    BY <2>1 DEF Forwarding, server
  <2> QED
    BY <1>i, <1>p, <2>3, <2>4, <2>5, SupplyStays
<1>9. ASSUME NEW c \in Client, Type(c) PROVE Goal
  <2> DEFINE post == <<c, posts[c] + 1>>
             line == [mtype |-> SERVER_LEVEL, status |-> CLIENT_ID[c],
                      name |-> NameOf[c], message |-> post]
  <2>1. /\ line \in Message /\ line.message = post
        /\ line.mtype = SERVER_LEVEL
    <3>1. post \in Post
      BY <1>9, <1>t DEF Type, Post
    <3> QED
      BY <1>t, <3>1, ChatAssumption DEF Message, SERVER_LEVEL
  <2>2. /\ Send(line) \/ SendFails
        /\ posts' = [posts EXCEPT ![c] = @ + 1]
        /\ UNCHANGED <<server, CLIENT_ID, held, shown>>
    BY <1>9 DEF Type
  <2>3. \A s \in Slot : NoneAdded(p, s) /\ SameScreens(s)
    <3> HIDE DEF line
    <3> QED
      BY <1>l, <1>s, <2>1, <2>2 DEF NoneAdded, SameScreens
  <2>4. \A s \in Slot : (Untouched(p, s) => Untouched(p, s)') /\ OneCopy(p, s)'
    BY <1>i, <2>3, CopiesStay
  <2>5. Forwarding(p)' => Forwarding(p) /\ new_user_it' = new_user_it
    BY <2>2 DEF Forwarding, server
  <2>6. CASE p # post
    <3> HIDE DEF line, post
    <3>1. /\ Waiting(p)' => Waiting(p)
          /\ Once(queue, Copies(p, SERVER_LEVEL)) =>
               Once(queue', Copies(p, SERVER_LEVEL))
      BY <1>c, <1>s, <2>1, <2>2, <2>6 DEF Waiting
    <3>2. posts'[p[1]] >= posts[p[1]] /\ posts'[p[1]] \in Int
      BY <1>p, <1>t, <2>2
    <3> QED
      BY <1>i, <1>p, <2>4, <2>5, <3>1, <3>2, SupplyStays
  <2>7. CASE p = post
    <3>1. p[1] = c /\ p[2] = posts[c] + 1 /\ posts'[p[1]] = p[2]
      BY <1>t, <2>2, <2>7
    <3>2. /\ ~Waiting(p) /\ ~Forwarding(p) /\ \A s \in Slot : Untouched(p, s)
          /\ Once(queue, Copies(p, SERVER_LEVEL))
      BY <1>i, <1>t, <3>1 DEF Supply
    <3> HIDE DEF line, post
    <3>3. Once(queue', Copies(p, SERVER_LEVEL))
      BY <1>t, <2>1, <2>2, <3>2, SendOnce DEF Waiting
    <3>4. ~(p[2] > posts'[p[1]])
      BY <1>p, <3>1
    <3>5. Supply(p)'
      BY <1>c, <2>4, <2>5, <3>2, <3>3, <3>4 DEF Supply
    <3> QED
      BY <2>4, <3>5
  <2> QED
    BY <2>6, <2>7
<1>10. ASSUME NEW c \in Client, Show(c) PROVE Goal
  <2>1. PICK i \in DOMAIN queue :
          /\ Receive(CLIENT_ID[c], i)
          /\ shown' = [shown EXCEPT ![c] = Append(shown[c], queue[i].message)]
    BY <1>10 DEF Show
  <2>2. UNCHANGED <<server, CLIENT_ID, held, posts>>
    BY <1>10 DEF Show
  <2> DEFINE m == queue[i]
  <2>3. m \in Message /\ Accepts(CLIENT_ID[c], m)
    BY <1>r, <2>1
  <2>4. /\ \A d \in Client : d # c => shown'[d] = shown[d]
        /\ DOMAIN shown'[c] = 1..(Len(shown[c]) + 1)
        /\ DOMAIN shown[c] = 1..Len(shown[c]) /\ Len(shown[c]) \in Nat
        /\ \A j \in DOMAIN shown'[c] :
             shown'[c][j] = IF j = Len(shown[c]) + 1 THEN m.message
                                                     ELSE shown[c][j]
    <3>1. shown[c] \in Seq(Post \cup {Hello}) /\ m.message \in Post \cup {Hello}
      BY <1>t, <2>3 DEF Message
    <3>2. shown'[c] = Append(shown[c], m.message)
      BY <1>t, <2>1
    <3> QED
      BY <1>t, <2>1, <3>1, <3>2
  <2> HIDE DEF m
  <2>5. ASSUME NEW s \in Slot
        PROVE  (Untouched(p, s) => Untouched(p, s)') /\ OneCopy(p, s)'
    <3>1. NoneAdded(p, s)
      BY <1>r, <2>1, <2>2 DEF NoneAdded
    <3>2. CASE CLIENT_ID[c] # s
      <4>1. SameScreens(s)
        BY <2>2, <2>4, <3>2 DEF SameScreens
      <4> QED
        BY <1>i, <3>1, <4>1, CopiesStay
    <3>3. CASE CLIENT_ID[c] = s /\ m.message # p
      <4>1. /\ \A d \in Client : Seen(d, p)' <=> Seen(d, p)
            /\ \A j \in DOMAIN shown'[c] : shown'[c][j] = p =>
                 j \in DOMAIN shown[c] /\ shown[c][j] = p
        BY <2>4, <3>3 DEF Seen
      <4>2. SeenAt(p, s)' <=> SeenAt(p, s)
        BY <2>2, <4>1 DEF SeenAt
      <4>3. \A d \in Client : CLIENT_ID'[d] = s =>
              \A j, k \in DOMAIN shown'[d] :
                shown'[d][j] = p /\ shown'[d][k] = p => j = k
        BY <1>i, <2>2, <2>4, <4>1 DEF OneCopy
      <4> QED
        BY <1>c, <1>i, <3>1, <4>2, <4>3 DEF OneCopy, Untouched, NoneAdded
    <3>4. CASE CLIENT_ID[c] = s /\ m.message = p
      <4>1. m \in Copies(p, s)
        <5>1. m.mtype = s
          BY <2>3, <3>4 DEF Accepts, Slot
        <5> QED
          BY <1>r, <2>1, <3>4, <5>1 DEF m
      <4>2. /\ Has(queue, Copies(p, s)) /\ ~Has(queue', Copies(p, s))
            /\ Once(queue', Copies(p, s))
        BY <1>i, <1>r, <2>1, <4>1 DEF OneCopy, m
      <4>3. ~SeenAt(p, s) /\ \A d \in Client : held[d] \notin Copies(p, s)
        BY <1>i, <4>2 DEF OneCopy
      <4>4. \A d \in Client : CLIENT_ID[d] = s =>
              \A j \in DOMAIN shown[d] : shown[d][j] # p
        BY <4>3 DEF SeenAt, Seen
      <4>5. \A d \in Client : CLIENT_ID'[d] = s =>
              \A j, k \in DOMAIN shown'[d] :
                shown'[d][j] = p /\ shown'[d][k] = p => j = k
        BY <2>2, <2>4, <4>4
      <4>6. OneCopy(p, s)'
        BY <1>c, <2>2, <4>2, <4>3, <4>5 DEF OneCopy
      <4> QED
        BY <4>2, <4>6 DEF Untouched
    <3> QED
      BY <3>2, <3>3, <3>4
  <2>6. /\ Waiting(p)' => Waiting(p)
        /\ Once(queue, Copies(p, SERVER_LEVEL)) =>
             Once(queue', Copies(p, SERVER_LEVEL))
    BY <1>c, <1>r, <2>1 DEF Waiting
  <2>7. /\ posts'[p[1]] = posts[p[1]]
        /\ Forwarding(p)' => Forwarding(p) /\ new_user_it' = new_user_it
    BY <2>2 DEF Forwarding, server
  <2> QED
    BY <1>i, <1>p, <2>5, <2>6, <2>7, SupplyStays
<1>11. CASE UNCHANGED <<queue, server, CLIENT_ID, held, posts, shown>>
  <2>1. Forwarding(p)' => Forwarding(p) /\ new_user_it' = new_user_it
    BY <1>11 DEF Forwarding, server
  <2> QED
    BY <1>11, <1>i, <1>p, <2>1, QueueOnly
<1> QED
  BY <1>1, <1>2, <1>3, <1>4, <1>5, <1>6, <1>7, <1>8, <1>9, <1>10, <1>11
     DEF Next, Server, ClientStep, Quit, vars, client

\* No line comes back to the terminal of its author.
LEMMA AuthorStep ==
  ASSUME TypeOK, CopyInv, [Next]_vars, NEW c \in Client, CLIENT_ID'[c] # 0,
         NEW i \in DOMAIN shown'[c], shown'[c][i] \in Post
  PROVE  shown'[c][i][1] # c
<1>t. /\ queue \in Seq(Message) /\ shown \in [Client -> Seq(Post \cup {Hello})]
      /\ CLIENT_ID \in [Client -> 0..CLIENT_COUNT] /\ CLIENT_COUNT \in Nat
  BY ChatAssumption DEF TypeOK
<1>1. CASE shown'[c] = shown[c] /\ CLIENT_ID'[c] = CLIENT_ID[c]
  BY <1>1 DEF CopyInv
<1>2. CASE shown'[c] = <<>>
  <2>1. DOMAIN <<>> = {}
    OBVIOUS
  <2> QED
    BY <1>2, <2>1
<1>3. CASE Show(c)
  <2>1. PICK k \in DOMAIN queue :
          /\ Receive(CLIENT_ID[c], k)
          /\ shown' = [shown EXCEPT ![c] = Append(shown[c], queue[k].message)]
    BY <1>3 DEF Show
  <2>2. UNCHANGED CLIENT_ID
    BY <1>3 DEF Show
  <2>3. /\ queue[k] \in Message /\ Accepts(CLIENT_ID[c], queue[k])
        /\ Signed(CLIENT_ID, queue[k])
    BY <1>t, <2>1, ReceiveKeepsType DEF CopyInv
  <2>4. \/ i \in DOMAIN shown[c] /\ shown'[c][i] = shown[c][i]
        \/ shown'[c][i] = queue[k].message
    <3>1. /\ shown[c] \in Seq(Post \cup {Hello})
          /\ queue[k].message \in Post \cup {Hello}
      BY <1>t, <2>3 DEF Message
    <3>2. shown'[c] = Append(shown[c], queue[k].message)
      BY <1>t, <2>1
    <3> QED
      BY <3>1, <3>2
  <2>5. CASE shown'[c][i] = queue[k].message
    <3>1. /\ queue[k].status = CLIENT_ID[queue[k].message[1]]
          /\ queue[k].mtype # queue[k].status
      BY <2>3, <2>5 DEF Signed
    <3>2. queue[k].mtype = CLIENT_ID[c]
      BY <1>t, <2>2, <2>3 DEF Accepts
    <3> QED
      BY <2>5, <3>1, <3>2
  <2> QED
    BY <2>2, <2>4, <2>5 DEF CopyInv
<1>4. ASSUME NEW d \in Client, ReceiveAnswer(d)
      PROVE  \/ shown'[c] = shown[c] /\ CLIENT_ID'[c] = CLIENT_ID[c]
             \/ shown'[c] = <<>>
  BY <1>4, <1>t DEF ReceiveAnswer, CopyInv
<1>5. ASSUME NEW d \in Client, d # c, Show(d)
      PROVE  shown'[c] = shown[c] /\ CLIENT_ID'[c] = CLIENT_ID[c]
  BY <1>5, <1>t DEF Show
<1>6. ASSUME Server \/ ServerRestarts
      PROVE  shown'[c] = shown[c] /\ CLIENT_ID'[c] = CLIENT_ID[c]
  BY <1>6 DEF Server, ServerReceivesJoin, ServerAnswers, ServerReceivesPost,
     ServerForwards, ServerLoops, ServerRestarts, client
<1>7. ASSUME NEW d \in Client, SendJoin(d) \/ Resend(d) \/ Type(d) \/ Quit(d)
      PROVE  shown'[c] = shown[c] /\ CLIENT_ID'[c] = CLIENT_ID[c]
  BY <1>7 DEF SendJoin, Resend, Type, Quit
<1>8. ASSUME UNCHANGED vars
      PROVE  shown'[c] = shown[c] /\ CLIENT_ID'[c] = CLIENT_ID[c]
  BY <1>8 DEF vars, client
<1> QED
  BY <1>1, <1>2, <1>3, <1>4, <1>5, <1>6, <1>7, <1>8 DEF Next, ClientStep

\* The invariant behind the clean terminals: each copy of each line is at one
\* place, and every line carries the level of its author.
THEOREM CopyInvHolds == Spec => []CopyInv
<1>1. Init => CopyInv
  <2> SUFFICES ASSUME Init PROVE CopyInv
    OBVIOUS
  <2>1. DOMAIN <<>> = {}
    OBVIOUS
  <2>2. /\ NoMess.message = Hello /\ NoMess.mtype = 0
        /\ SERVER_LEVEL # 0 /\ 0 \notin Slot
    BY ChatAssumption DEF NoMess, SERVER_LEVEL, Slot
  <2>3. ASSUME NEW p \in Post
        PROVE  Supply(p) /\ \A s \in Slot : OneCopy(p, s)
    <3>1. ASSUME NEW s \in Slot PROVE Untouched(p, s) /\ OneCopy(p, s)
      BY <2>1, <2>2
         DEF Init, Untouched, OneCopy, Once, Has, SeenAt, Seen, Copies
    <3>2. ~Waiting(p) /\ ~Forwarding(p) /\ Once(queue, Copies(p, SERVER_LEVEL))
      BY <2>1 DEF Init, Waiting, Forwarding, Once, Has
    <3> QED
      BY <3>1, <3>2 DEF Supply
  <2>4. \A c \in Client : Signed(CLIENT_ID, held[c])
                          /\ held[c].mtype # SERVER_LEVEL
    BY <2>2, HelloIsNoPost DEF Init, Signed
  <2> QED
    BY <2>1, <2>3, <2>4 DEF Init, CopyInv
<1>2. TypeOK /\ CopyInv /\ [Next]_vars => CopyInv'
  <2> SUFFICES ASSUME TypeOK, CopyInv, [Next]_vars PROVE CopyInv'
    OBVIOUS
  <2>1. \A p \in Post : Supply(p)' /\ \A s \in Slot : OneCopy(p, s)'
    BY TokenStep
  <2>2. \A c \in Client : CLIENT_ID'[c] # 0 =>
          \A i \in DOMAIN shown'[c] :
            shown'[c][i] \in Post => shown'[c][i][1] # c
    BY AuthorStep
  <2> QED
    BY <2>1, <2>2, SignedStep DEF CopyInv
<1> QED
  BY <1>1, <1>2, TypeCorrect, PTL DEF Spec

\* A client with a level shows no line of its own user and no line twice:
\* the loop of server.c leaves the author out, and a joining client puts a
\* foreign message back once.
THEOREM TerminalIsCleanHolds == Spec => []TerminalIsClean
<1>1. TypeOK /\ CopyInv => TerminalIsClean
  <2> SUFFICES ASSUME TypeOK, CopyInv, NEW c \in Client, CLIENT_ID[c] # 0,
                      NEW i \in DOMAIN shown[c], NEW j \in DOMAIN shown[c],
                      shown[c][i] # Hello
               PROVE  /\ shown[c][i][1] # c
                      /\ shown[c][i] = shown[c][j] => i = j
    BY DEF TerminalIsClean
  <2>1. shown[c][i] \in Post /\ CLIENT_ID[c] \in Slot
    BY ChatAssumption DEF TypeOK, Slot
  <2>2. OneCopy(shown[c][i], CLIENT_ID[c])
    BY <2>1 DEF CopyInv
  <2> QED
    BY <2>1, <2>2 DEF CopyInv, OneCopy
<1> QED
  BY <1>1, TypeCorrect, CopyInvHolds, PTL
=============================================================================
