---------------------------- MODULE MCMsgChat -----------------------------
(* Instances of MsgChat for TLC. *)
EXTENDS MsgChatRoom, TLC
CONSTANTS c1, c2, c3, n1, n2, n3

\* Everybody has a nickname of its own.
OwnNames == [c \in Client |-> IF c = c1 THEN n1 ELSE IF c = c2 THEN n2 ELSE n3]
\* Two clients chose the same nickname.
SharedName == [c \in Client |-> IF c = c3 THEN n2 ELSE n1]

\* Two clients of one nickname are alike.
Alike == Permutations({c1, c2})
\* What the server has printed decides nothing.
WithoutPrinted ==
  <<queue, USER_STATUS, srv_pc, mess, new_user_it, restarts, client>>
=============================================================================
