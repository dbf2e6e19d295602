----------------------------- MODULE ChatRoom ------------------------------
(***************************************************************************)
(* What the chat of lesson 21 promises its users: one room with one log.   *)
(* A member sees, in the order of the log, every line the others said      *)
(* since it entered, each exactly once, and never its own lines.           *)
(***************************************************************************)
EXTENDS Integers, Sequences, SequencesExt

CONSTANTS
  Member, Line,
  NotIn  \* no length of the log

VARIABLES
  log,    \* the lines said, as [author, line]
  since,  \* how long the log was when each member entered, or NotIn
  seen    \* the lines each member has seen

roomVars == <<log, since, seen>>

\* What member m is going to see of the log as it is now.
Audible(m) ==
  IF since[m] = NotIn THEN <<>>
  ELSE SelectSeq(SubSeq(log, since[m] + 1, Len(log)),
                 LAMBDA e : e.author # m)

RoomInit ==
  /\ log = <<>>
  /\ since = [m \in Member |-> NotIn]
  /\ seen = [m \in Member |-> <<>>]

Enter(m) ==
  /\ since[m] = NotIn
  /\ since' = [since EXCEPT ![m] = Len(log)]
  /\ UNCHANGED <<log, seen>>

Say(m) ==
  /\ since[m] # NotIn
  /\ \E l \in Line : log' = Append(log, [author |-> m, line |-> l])
  /\ UNCHANGED <<since, seen>>

See(m) ==
  /\ Len(seen[m]) < Len(Audible(m))
  /\ seen' = [seen EXCEPT ![m] = Append(@, Audible(m)[Len(@) + 1].line)]
  /\ UNCHANGED <<log, since>>

RoomNext == \E m \in Member : Enter(m) \/ Say(m) \/ See(m)

RoomSpec ==
  /\ RoomInit
  /\ [][RoomNext]_roomVars
  /\ \A m \in Member : WF_roomVars(See(m))
=============================================================================
