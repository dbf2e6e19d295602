----------------------------- MODULE SysVQueue -----------------------------
(***************************************************************************)
(* The System V message queue the programs of lessons 21 and 26 talk       *)
(* through, as those programs use it.  A queue is a sequence of records    *)
(* with a field mtype; msgrcv() takes one message out of it, chosen by the *)
(* caller's msgtyp, and msgsnd() with IPC_NOWAIT appends one or fails.     *)
(***************************************************************************)
EXTENDS Integers, Sequences, SequencesExt

\* msgtyp = 0 accepts every message, msgtyp > 0 the messages of that type,
\* msgtyp < 0 the messages whose type is at most -msgtyp.
Accepts(msgtyp, m) ==
  \/ msgtyp = 0
  \/ msgtyp > 0 /\ m.mtype = msgtyp
  \/ msgtyp < 0 /\ m.mtype <= -msgtyp

\* i is the message msgrcv(msgtyp) takes out of q: the first one accepted,
\* and for a negative msgtyp the first one of the lowest type accepted.
Selected(q, msgtyp, i) ==
  /\ i \in DOMAIN q
  /\ Accepts(msgtyp, q[i])
  /\ \A j \in DOMAIN q : Accepts(msgtyp, q[j]) =>
       \/ i <= j /\ (msgtyp < 0 => q[i].mtype <= q[j].mtype)
       \/ msgtyp < 0 /\ q[i].mtype < q[j].mtype

\* msgsnd(.., IPC_NOWAIT) fails with EAGAIN when the queue is at its limit.
Full(q, limit) == Len(q) >= limit
=============================================================================
