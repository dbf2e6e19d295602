---------------------------- MODULE MCIcmpTools ----------------------------
(* An instance of IcmpTools: a way of three points, alone or together.     *)
EXTENDS IcmpTools

\* A slow network is looked at for one tool at a time.
MCSettings ==
  {s \in Setting :
     /\ s.running # {}
     /\ s.prompt \/ Cardinality(s.running) = 1
     /\ s.silent \in {{}, {2}, {DISTANCE}}
     /\ s.refusing \in {{}, {2}}}
=============================================================================
