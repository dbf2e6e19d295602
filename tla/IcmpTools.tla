----------------------------- MODULE IcmpTools -----------------------------
(***************************************************************************)
(* ping and traceroute of lesson 32, alone or side by side on one host.    *)
(* Both send ICMP echo requests from a raw socket and take what comes back *)
(* for the answer to the last one: nothing in a packet tells which probe   *)
(* it answers, and every raw socket of the host gets a copy of everything. *)
(*                                                                         *)
(* The way to the destination is a line: a router is named by its distance *)
(* and the destination is DISTANCE.  How routers answer, which answers are *)
(* late or lost, and what ICMP the host gets besides, is the network's     *)
(* part of the model.                                                      *)
(***************************************************************************)
EXTENDS Integers, Sequences, FiniteSets

CONSTANTS
  Pinger, Tracer, \* the processes that run ping and traceroute
  DISTANCE,
  Settings,       \* who runs, on which networks
  PROBES,         \* the probes of ping
  PING_TTL,
  TTL_SPACE,      \* 256: a ttl is a uint8_t
  MAX_LINES,      \* bound: lines of a traceroute
  MAX_NOISE       \* bound: packets nobody here has asked for

Tool == Pinger \cup Tracer
Point == 1..DISTANCE
Stranger == DISTANCE + 1 \* the source of a packet that answers no probe
Garbage == 0             \* an address never filled in

Setting == [
  running : SUBSET Tool,               \* the processes there are
  prompt : BOOLEAN,                    \* whether every answer comes in time
  silent : SUBSET Point,               \* the points that never answer
  refusing : SUBSET (1..DISTANCE - 1)] \* the routers that know no way on

ASSUME IcmpAssumption ==
  /\ Pinger \cap Tracer = {}
  /\ DISTANCE \in Nat \ {0}
  /\ Settings \subseteq Setting
  /\ PROBES \in Nat \ {0}
  /\ PING_TTL \in Nat /\ PING_TTL >= DISTANCE
  /\ TTL_SPACE \in Nat /\ TTL_SPACE > 1
  /\ MAX_LINES \in Nat /\ MAX_NOISE \in Nat

VARIABLES
  setting,
  pc,      \* "send", "recv", "done", "failed"
  ttl,     \* [Tracer -> the ttl of its next probe]
  point,   \* [Tracer -> the address recvfrom() filled in last]
  lines,   \* [Tool -> what it has printed, a line for each probe]
  flight,  \* the probes on their way: [from, n, ttl]
  inbox,   \* [Tool -> the packets in its raw socket: [type, src]]
  noise    \* how many packets of strangers have come

network == <<flight, inbox, noise>>
icmpVars == <<setting, pc, ttl, point, lines, network>>

IcmpInit ==
  /\ setting \in Settings
  /\ pc = [p \in Tool |-> IF p \in setting.running THEN "send" ELSE "done"]
  /\ ttl = [p \in Tracer |-> 1]
  /\ point = [p \in Tracer |-> Garbage]
  /\ lines = [p \in Tool |-> <<>>]
  /\ flight = {}
  /\ inbox = [p \in Tool |-> <<>>]
  /\ noise = 0

----------------------------------------------------------------------------
(* The network.                                                            *)

Open(p) == pc[p] \in {"send", "recv"}

\* How far a probe comes: its ttl says, or the first router that refuses.
\* One with ttl 0 is discarded where it arrives first.
Reach(t) == IF t = 0 THEN 1 ELSE IF t < DISTANCE THEN t ELSE DISTANCE

Refuser(t) == {b \in setting.refusing :
                 b <= Reach(t) /\ \A c \in setting.refusing : b <= c}

AnswerTo(t) ==
  IF Refuser(t) # {}
  THEN [type |-> "unreachable", src |-> CHOOSE b \in Refuser(t) : TRUE]
  ELSE [type |-> IF Reach(t) = DISTANCE THEN "reply" ELSE "exceeded",
        src |-> Reach(t)]

\* A copy for every raw socket.
Arrives(packet) ==
  inbox' = [p \in Tool |-> IF Open(p) THEN Append(inbox[p], packet)
                                      ELSE inbox[p]]

Answer ==
  \E probe \in flight :
    /\ flight' = flight \ {probe}
    /\ IF AnswerTo(probe.ttl).src \in setting.silent
       THEN UNCHANGED inbox ELSE Arrives(AnswerTo(probe.ttl))
    /\ UNCHANGED <<setting, pc, ttl, point, lines, noise>>

Lose ==
  /\ ~setting.prompt
  /\ \E probe \in flight : flight' = flight \ {probe}
  /\ UNCHANGED <<setting, pc, ttl, point, lines, inbox, noise>>

\* Somebody pings this host, or a datagram of another program came nowhere.
Noise ==
  /\ noise < MAX_NOISE
  /\ noise' = noise + 1
  /\ \E type \in {"echo", "unreachable"} :
       Arrives([type |-> type, src |-> Stranger])
  /\ UNCHANGED <<setting, pc, ttl, point, lines, flight>>

----------------------------------------------------------------------------
(* What both tools do.                                                     *)

\* sendto(); the headers are filled in once, only the ttl may change.
Sends(p, t) ==
  /\ pc[p] = "send"
  /\ flight' = flight \cup {[from |-> p, n |-> Len(lines[p]) + 1, ttl |-> t]}
  /\ pc' = [pc EXCEPT ![p] = "recv"]
  /\ UNCHANGED <<setting, ttl, point, lines, inbox, noise>>

\* recvfrom() gives the first packet.
Takes(p) ==
  /\ pc[p] = "recv" /\ inbox[p] # <<>>
  /\ inbox' = [inbox EXCEPT ![p] = Tail(@)]
  /\ UNCHANGED <<setting, flight, noise>>

\* recvfrom() reports EAGAIN, WAIT_TO_RECEIVE seconds after it was called.
TimesOut(p) ==
  /\ pc[p] = "recv" /\ inbox[p] = <<>>
  /\ setting.prompt => \A probe \in flight : probe.from # p
  /\ UNCHANGED <<setting, network>>

Prints(p, line) == lines' = [lines EXCEPT ![p] = Append(@, line)]

\* sendto() or recvfrom() report another error.
Fail(p) ==
  /\ Open(p)
  /\ pc' = [pc EXCEPT ![p] = "failed"]
  /\ UNCHANGED <<setting, ttl, point, lines, network>>

----------------------------------------------------------------------------
(* ping                                                                    *)

SendPing(p) == p \in Pinger /\ Sends(p, PING_TTL)

\* is_ping_packet() of ping.c
IsPingPacket(packet) == packet.type \in {"reply", "unreachable"}

\* The head of the loop over the probes.
NextPing(p) ==
  pc' = [pc EXCEPT ![p] = IF Len(lines'[p]) < PROBES THEN "send" ELSE "done"]

PingReceives(p) ==
  /\ p \in Pinger /\ Takes(p)
  /\ IF IsPingPacket(Head(inbox[p]))
     THEN Prints(p, Head(inbox[p])) /\ NextPing(p)
     ELSE UNCHANGED <<lines, pc>>
  /\ UNCHANGED <<ttl, point>>

\* Mutant: the wait is not left when the time is over.
PingWaitsOn(p) ==
  p \in Pinger /\ TimesOut(p) /\ UNCHANGED <<pc, lines, ttl, point>>

PingTimesOut(p) ==
  /\ p \in Pinger /\ TimesOut(p)
  /\ Prints(p, [type |-> "none", src |-> Garbage])
  /\ NextPing(p)
  /\ UNCHANGED <<ttl, point>>

----------------------------------------------------------------------------
(* traceroute                                                              *)

SendProbe(p) ==
  p \in Tracer /\ Len(lines[p]) < MAX_LINES /\ Sends(p, ttl[p])

\* Mutant: "time exceeded" is no answer of the destination.
ExceededEnds(packet) ==
  CASE packet.type = "reply" -> 1
    [] packet.type \in {"exceeded", "unreachable"} -> 2
    [] OTHER -> 0

\* is_ping_packet() of traceroute.c
CheckRes(packet) ==
  CASE packet.type \in {"reply", "exceeded"} -> 1
    [] packet.type = "unreachable" -> 2
    [] OTHER -> 0

IsDestination(packet) == packet.src = DISTANCE

\* Mutant: a jump: the ttl of the next probe is two larger.
NextTtlSkips(t) == (t + 2) % TTL_SPACE

NextTtl(t) == (t + 1) % TTL_SPACE

\* recvfrom() fills in the address whatever the packet is; the line is
\* printed, and another probe sent unless this one came to the end.
TraceReceives(p) ==
  LET input == Head(inbox[p])
  IN  /\ p \in Tracer /\ Takes(p)
      /\ point' = [point EXCEPT ![p] = input.src]
      /\ \/ /\ CheckRes(input) = 0
            /\ UNCHANGED <<pc, ttl, lines>>
         \/ /\ CheckRes(input) = 1
            /\ Prints(p, input)
            /\ ttl' = [ttl EXCEPT ![p] = NextTtl(@)]
            /\ pc' = [pc EXCEPT ![p] =
                        IF IsDestination(input) THEN "done" ELSE "send"]
         \/ /\ CheckRes(input) = 2
            /\ Prints(p, input)
            /\ pc' = [pc EXCEPT ![p] = "done"]
            /\ UNCHANGED ttl

\* Mutant: only an answer makes the next probe go farther.
TimeoutKeepsTtl(p) ==
  /\ p \in Tracer /\ TimesOut(p)
  /\ Prints(p, [type |-> "none", src |-> point[p]])
  /\ pc' = [pc EXCEPT ![p] = "send"]
  /\ UNCHANGED <<ttl, point>>

\* The line of a probe without answer has the address filled in last; the
\* packet is all zeros, and no destination.
TraceTimesOut(p) ==
  /\ p \in Tracer /\ TimesOut(p)
  /\ Prints(p, [type |-> "none", src |-> point[p]])
  /\ ttl' = [ttl EXCEPT ![p] = NextTtl(@)]
  /\ pc' = [pc EXCEPT ![p] = "send"]
  /\ UNCHANGED point

----------------------------------------------------------------------------
Run(p) ==
  \/ SendPing(p) \/ PingReceives(p) \/ PingTimesOut(p)
  \/ SendProbe(p) \/ TraceReceives(p) \/ TraceTimesOut(p)

IcmpNext ==
  \/ \E p \in Tool : Run(p) \/ Fail(p)
  \/ Answer \/ Lose \/ Noise

IcmpSpec == IcmpInit /\ [][IcmpNext]_icmpVars

\* The processes run, and the network does something about every probe.
IcmpFairSpec ==
  IcmpSpec /\ WF_icmpVars(Answer) /\ \A p \in Tool : WF_icmpVars(Run(p))

----------------------------------------------------------------------------
Alone(p) == setting.running = {p}
Quiet == noise = 0

\* However late, lost or mixed up the answers are: traceroute running alone
\* never prints a point on a line before its distance, although it takes any
\* answer for that to its last probe.
NoLineIsAhead ==
  \A p \in Tracer : Alone(p) /\ Quiet =>
    \A k \in DOMAIN lines[p] : lines[p][k].src <= k

\* The points that answer probes with a ttl of at most k.
AnsweredBy(k) == {AnswerTo(j).src : j \in 1..k} \ setting.silent

\* The last of them, if there is one.
LastUpTo(k, src) ==
  /\ src \in {Garbage} \cup AnsweredBy(k)
  /\ \A q \in AnsweredBy(k) : q <= src

\* The point that answers whoever sends farther: the destination, or the
\* first router that refuses.
FarEnd == AnswerTo(DISTANCE).src

\* When answers come in time, and to one tool only, line k of a traceroute is
\* the k-th point of the way, or for a silent one the last before it that
\* answered, and garbage if none did, until the ttl wraps; no line follows
\* that of the far end; and a line of ping says what has become of the
\* destination.
LinesAreTheWay ==
  setting.prompt /\ Quiet =>
    /\ \A p \in Tracer : Alone(p) =>
         \A k \in DOMAIN lines[p] :
           /\ k < TTL_SPACE => LastUpTo(k, lines[p][k].src)
           /\ k < Len(lines[p]) => lines[p][k].src # FarEnd
    /\ \A p \in Pinger : Alone(p) =>
         \A k \in DOMAIN lines[p] :
           lines[p][k] = IF AnswerTo(PING_TTL).src \in setting.silent
                         THEN [type |-> "none", src |-> Garbage]
                         ELSE AnswerTo(PING_TTL)

\* A traceroute running alone ends at the destination or at a router that
\* refuses, and nowhere else, whatever was late or lost.
EndsAtTheEnd ==
  \A p \in Tracer : Alone(p) /\ Quiet /\ pc[p] = "done" =>
    /\ lines[p] # <<>>
    /\ lines[p][Len(lines[p])].src \in setting.refusing \cup {DISTANCE}

\* ping ends in any network, and traceroute when answers come in time and its
\* destination, or a router that refuses, answers; even when other tools mix
\* their packets in, and finitely many strangers do.  Each foreign packet
\* makes ping wait for five seconds more: a flood would keep it for ever.
Ended(p) == pc[p] \in {"done", "failed"}
ToolsEnd ==
  /\ \A p \in Pinger : <>Ended(p)
  /\ \A p \in Tracer :
       setting.prompt /\ AnswerTo(DISTANCE).src \notin setting.silent
         => <>Ended(p)
=============================================================================
