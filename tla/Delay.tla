------------------------------- MODULE Delay -------------------------------
(* What the cipher of the gen_statem lesson promises its clients together: *)
(* a bit comes back when the next one is given, and a 0 first.             *)
EXTENDS Sequences

CONSTANTS Process, Request, Nothing

VARIABLES
  last,   \* the bit given last
  asking, \* [Process -> what each has asked, or Nothing]
  answers \* [Process -> what each has been answered]

Bit == {"0", "1"}

Init ==
  /\ last = "0"
  /\ asking = [p \in Process |-> Nothing]
  /\ answers = [p \in Process |-> <<>>]

Ask(p) ==
  /\ asking[p] = Nothing
  /\ \E r \in Request : asking' = [asking EXCEPT ![p] = r]
  /\ UNCHANGED <<last, answers>>

Give(p) ==
  /\ asking[p] \in Bit
  /\ answers' = [answers EXCEPT ![p] = Append(@, last)]
  /\ last' = asking[p]
  /\ asking' = [asking EXCEPT ![p] = Nothing]

Refresh(p) ==
  /\ asking[p] = "refresh"
  /\ last' = "0"
  /\ asking' = [asking EXCEPT ![p] = Nothing]
  /\ UNCHANGED answers

\* The cipher is started again, and who has asked it hears so.
Restart ==
  /\ last' = "0"
  /\ asking' = [p \in Process |-> Nothing]
  /\ UNCHANGED answers

Next == Restart \/ \E p \in Process : Ask(p) \/ Give(p) \/ Refresh(p)

Spec == Init /\ [][Next]_<<last, asking, answers>>
=============================================================================
