----------------------------- MODULE OtpServers -----------------------------
(***************************************************************************)
(* Four Erlang processes, each of another OTP behaviour and each under a   *)
(* supervisor that starts it again, five times in ten seconds at most:     *)
(*   "statem"  the cipher st_wrapper                                       *)
(*   "fsm"     the telephone gf_main, with its listeners                   *)
(*   "event"   the event counter ge_main                                   *)
(*   "server"  the clock gs_server                                         *)
(* A process handles one message of its mailbox after the other.  Messages *)
(* nobody expected are part of life in Erlang; what these processes do     *)
(* about them, and who notices, is the question here.                      *)
(***************************************************************************)
EXTENDS Integers, Sequences, FiniteSets

CONSTANTS
  Process,  \* the clients
  Listener, \* the telephones somebody has created
  Apps,     \* the behaviours to look at
  MAX_R,    \* restarts allowed in a period, 5
  MAX_SENT  \* bound: messages the clients send

ASSUME OtpAssumption ==
  /\ Process \cap Listener = {}
  /\ Apps \subseteq {"statem", "fsm", "event", "server"}
  /\ MAX_R \in Nat /\ MAX_SENT \in Nat

VARIABLES
  app,
  node,      \* "starting", "up", or "down" when the supervisor has given up
  restarts,  \* in the last ten seconds
  adding,    \* what the supervisor does for the handler of ge_main: "ask" for
             \* it, wait when it has "asked", "done"
  name,      \* the state of the process
  data,      \* its data
  mailbox,   \* [tag, from, body, to]
  calling,   \* [Process -> what it waits for an answer to]
  answers,   \* [Process -> the answers to its bits]
  listener,  \* [Listener -> [pc, inbox]]
  connected, \* the conversations there were: <<from, to>>
  sent,
  \* In the present life of ge_main, and since its handler was asked for:
  made,      \* events notified
  reported,  \* events in the answers to requests
  spoilt     \* whether somebody sent a stray message; or, at any time in this
             \* life, stopped it

supervisor == <<node, restarts, adding>>
process == <<name, data>>
clients == <<calling, answers, sent>>
phones == <<listener, connected>>
books == <<made, reported, spoilt>>
vars == <<app, supervisor, process, mailbox, clients, phones, books>>

Nothing == "nothing"
UpPhone == "up_phone"
Bit == {"0", "1"}

InitialName == CASE app = "statem" -> "q0" [] app = "fsm" -> "wait"
                 [] app = "event" -> "none" [] app = "server" -> "loop"
InitialData == IF app = "fsm" THEN <<>> ELSE 0
InitialAdding == IF app = "event" THEN "ask" ELSE "done"

Init ==
  /\ app \in Apps /\ restarts = 0
  /\ node = IF app = "event" THEN "starting" ELSE "up"
  /\ name = InitialName /\ data = InitialData /\ adding = InitialAdding
  /\ mailbox = <<>>
  /\ calling = [p \in Process |-> Nothing]
  /\ answers = [p \in Process |-> <<>>]
  /\ listener = [l \in Listener |-> [pc |-> "receive", inbox |-> <<>>]]
  /\ connected = {} /\ sent = 0
  /\ made = 0 /\ reported = 0 /\ spoilt = FALSE

----------------------------------------------------------------------------
(* The clients.                                                            *)

\* The functions of the API that wait for an answer.
Symbols == Bit \cup {"refresh", "other"}
Requests ==
  CASE app = "statem" -> Symbols
    [] app = "event" -> {"request", "stop"}
    [] app = "server" -> {"get_date", "stop"}
    [] OTHER -> {}

\* Those that do not; any process may be sent any message besides.
Notices ==
  CASE app = "fsm" -> {"call", UpPhone, "down_phone", "error"}
    [] app = "event" -> {"event"}
    [] OTHER -> {}

Posted(message) ==
  mailbox' = IF node = "down" THEN mailbox ELSE Append(mailbox, message)

Sends(p, tag, body, to) ==
  /\ sent < MAX_SENT /\ calling[p] = Nothing
  /\ sent' = sent + 1
  /\ Posted([tag |-> tag, from |-> p, body |-> body, to |-> to])
  /\ UNCHANGED <<app, supervisor, process, answers, phones, reported>>

\* A call to a process there is not exits.
Call(p) ==
  /\ node # "down"
  /\ \E body \in Requests :
       /\ Sends(p, "call", body, Nothing)
       /\ calling' = [calling EXCEPT ![p] = body]
       /\ spoilt' = (spoilt \/ body = "stop")
  /\ UNCHANGED made

\* call/1 takes any process, and anybody may pick up.
Notify(p) ==
  /\ \E body \in Notices, to \in Process \cup Listener :
       /\ Sends(p, "event", body, CASE body = "call" -> to
                                   [] body = UpPhone -> p
                                   [] OTHER -> Nothing)
       /\ made' = IF body = "event" /\ adding # "ask" THEN made + 1 ELSE made
  /\ UNCHANGED <<calling, spoilt>>

Stray(p) ==
  /\ Sends(p, "info", "stray", Nothing)
  /\ spoilt' = (spoilt \/ adding # "ask")
  /\ UNCHANGED <<calling, made>>

\* Somebody sends a listener something else than ring.
Misdial(p) ==
  /\ app = "fsm" /\ sent < MAX_SENT
  /\ sent' = sent + 1
  /\ \E l \in Listener :
       listener' = [listener EXCEPT ![l].inbox = Append(@, "other")]
  /\ UNCHANGED <<app, supervisor, process, mailbox, calling, answers,
                 connected, books>>

\* Mutant: a listener goes on waiting.
WaitCallLoops(l) ==
  /\ listener[l].pc = "receive" /\ listener[l].inbox # <<>>
  /\ listener' = [listener EXCEPT ![l].inbox = Tail(@)]
  /\ IF Head(listener[l].inbox) = "ring"
     THEN Posted([tag |-> "event", from |-> l, body |-> UpPhone, to |-> l])
     ELSE UNCHANGED mailbox
  /\ UNCHANGED <<app, supervisor, process, clients, connected, books>>

\* A listener takes one message and ends.
WaitCall(l) ==
  /\ listener[l].pc = "receive" /\ listener[l].inbox # <<>>
  /\ listener' = [listener EXCEPT ![l] = [pc |-> "ended", inbox |-> <<>>]]
  /\ IF Head(listener[l].inbox) = "ring"
     THEN Posted([tag |-> "event", from |-> l, body |-> UpPhone, to |-> l])
     ELSE UNCHANGED mailbox
  /\ UNCHANGED <<app, supervisor, process, clients, connected, books>>

----------------------------------------------------------------------------
(* The process and its supervisor.                                         *)

Message == Head(mailbox)

Handles(behaviour) == app = behaviour /\ node # "down" /\ mailbox # <<>>

Becomes(newName, newData) ==
  /\ name' = newName /\ data' = newData /\ mailbox' = Tail(mailbox)
  /\ UNCHANGED <<app, supervisor>>

Keeps == Becomes(name, data)

\* The process ends, with what is in its mailbox.  Who waits for an answer
\* notices, and exits.  The supervisor starts the process again, unless it
\* did so too often, or has not come to the end of the first start.
Crash ==
  /\ mailbox' = <<>>
  /\ calling' = [p \in Process |-> Nothing]
  /\ name' = InitialName /\ data' = InitialData /\ adding' = InitialAdding
  /\ IF node = "up" /\ restarts < MAX_R
     THEN restarts' = restarts + 1 /\ UNCHANGED node
     ELSE node' = "down" /\ UNCHANGED restarts
  /\ UNCHANGED <<app, answers, sent>>

Answered == calling' = [calling EXCEPT ![Message.from] = Nothing]

Says(bit) ==
  /\ Answered
  /\ answers' = [answers EXCEPT ![Message.from] = Append(@, bit)]
  /\ UNCHANGED sent

\* Ten seconds without a restart.
Calm ==
  /\ node = "up" /\ restarts > 0
  /\ restarts' = 0
  /\ UNCHANGED <<app, node, adding, process, mailbox, clients, phones, books>>

----------------------------------------------------------------------------
(* st_wrapper: the state is the bit to come back.                          *)

Bits == /\ Handles("statem") /\ Message.tag = "call" /\ Message.body \in Bit
        /\ UNCHANGED <<phones, books>>

NextQ == IF Message.body = "1" THEN "q1" ELSE "q2"

q0 == Bits /\ name = "q0" /\ Becomes(NextQ, 0) /\ Says("0")

\* Mutant: the bit that was given stays when it comes back.
Q1Keeps == Bits /\ name = "q1" /\ Becomes("q1", 0) /\ Says("1")

q1 == Bits /\ name = "q1" /\ Becomes(NextQ, 0) /\ Says("1")

q2 == Bits /\ name = "q2" /\ Becomes(NextQ, 0) /\ Says("0")

\* Mutant: refresh is not answered.
RefreshSilently ==
  /\ Handles("statem") /\ Message.tag = "call" /\ Message.body \notin Bit
  /\ IF Message.body = "refresh"
     THEN Becomes("q0", 0) /\ UNCHANGED calling
     ELSE Keeps /\ UNCHANGED calling
  /\ UNCHANGED <<answers, sent, phones, books>>

\* A symbol that is no bit gets no answer, and its sender waits.
handle_other ==
  /\ Handles("statem") /\ Message.tag = "call" /\ Message.body \notin Bit
  /\ IF Message.body = "refresh"
     THEN Becomes("q0", 0) /\ Answered
     ELSE Keeps /\ UNCHANGED calling
  /\ UNCHANGED <<answers, sent, phones, books>>

\* The state functions have no clause for anything but calls.
NoClause ==
  /\ Handles("statem") /\ Message.tag # "call"
  /\ Crash /\ UNCHANGED <<phones, books>>

----------------------------------------------------------------------------
(* gf_main: any pair is a call to a waiting telephone, {up_phone, Pid} too.*)

Expected ==
  /\ Message.tag = "event"
  /\ CASE name = "wait" -> Message.body \in {"call", UpPhone}
       [] name = "call" -> Message.body = UpPhone /\ Message.to = data[2]
       [] name = "talk" -> Message.body = "down_phone"

Rings(l) ==
  listener' = IF l \in Listener /\ listener[l].pc = "receive"
              THEN [listener EXCEPT ![l].inbox = Append(@, "ring")]
              ELSE listener

wait ==
  /\ Handles("fsm") /\ name = "wait" /\ Expected
  /\ Rings(Message.to)
  /\ Becomes("call", <<IF Message.body = UpPhone THEN UpPhone
                       ELSE Message.from, Message.to>>)
  /\ UNCHANGED <<clients, connected, books>>

call ==
  /\ Handles("fsm") /\ name = "call" /\ Expected
  /\ connected' = connected \cup {data}
  /\ Becomes("talk", <<>>)
  /\ UNCHANGED <<clients, listener, books>>

talk ==
  /\ Handles("fsm") /\ name = "talk" /\ Expected
  /\ Becomes("wait", <<>>)
  /\ UNCHANGED <<clients, phones, books>>

\* No clause; or the apocalypse, or a stray message, whose clauses stop.
Unexpected ==
  /\ Handles("fsm") /\ ~Expected
  /\ Crash /\ UNCHANGED <<phones, books>>

----------------------------------------------------------------------------
(* ge_main: a handler that fails is removed, and nobody is told.  start_link*)
(* has registered the manager when it asks it to take the handler.         *)

Installed == name = "handler"

add_handler ==
  /\ app = "event" /\ node # "down" /\ adding = "ask"
  /\ adding' = "asked"
  /\ Posted([tag |-> "add", from |-> Nothing, body |-> "add_handler",
              to |-> Nothing])
  /\ UNCHANGED <<app, node, restarts, process, clients, phones, books>>

\* init(): the handler is there, and the start complete.
init ==
  /\ Handles("event") /\ Message.tag = "add"
  /\ name' = "handler" /\ data' = 0
  /\ adding' = "done" /\ node' = "up"
  /\ mailbox' = Tail(mailbox)
  /\ UNCHANGED <<app, restarts, clients, phones, books>>

handle_event ==
  /\ Handles("event") /\ Message.tag = "event"
  /\ Becomes(name, IF Installed THEN data + 1 ELSE data)
  /\ UNCHANGED <<clients, phones, books>>

\* Mutant: the count is told and kept.
TellAndKeep ==
  /\ Handles("event") /\ Message.tag = "call" /\ Message.body = "request"
  /\ reported' = IF Installed THEN reported + data ELSE reported
  /\ Becomes(name, data) /\ Answered
  /\ UNCHANGED <<answers, sent, phones, made, spoilt>>

\* {error, bad_module} without handler
handle_request ==
  /\ Handles("event") /\ Message.tag = "call" /\ Message.body = "request"
  /\ reported' = IF Installed THEN reported + data ELSE reported
  /\ Becomes(name, 0) /\ Answered
  /\ UNCHANGED <<answers, sent, phones, made, spoilt>>

handle_info ==
  /\ Handles("event") /\ Message.tag = "info"
  /\ Becomes("none", 0)
  /\ UNCHANGED <<clients, phones, books>>

\* The manager ends, and being permanent is started again.
stop ==
  /\ Handles("event") /\ Message.body = "stop"
  /\ Crash
  /\ made' = 0 /\ reported' = 0 /\ spoilt' = FALSE
  /\ UNCHANGED phones

----------------------------------------------------------------------------
(* gs_server                                                               *)

\* The date, or wrong_req.
handle_call ==
  /\ Handles("server") /\ Message.tag = "call"
  /\ Keeps /\ Answered
  /\ UNCHANGED <<answers, sent, phones, books>>

\* The message is returned as the state and the state as a timeout, which is
\* none: the process ends, unless a message is there before it waits.
handle_stray ==
  /\ Handles("server") /\ Message.tag = "info"
  /\ \/ Crash
     \/ Tail(mailbox) # <<>> /\ Keeps /\ UNCHANGED clients
  /\ UNCHANGED <<phones, books>>

----------------------------------------------------------------------------
ProcessStep ==
  \/ q0 \/ q1 \/ q2 \/ handle_other \/ NoClause
  \/ wait \/ call \/ talk \/ Unexpected
  \/ init \/ handle_event \/ handle_request \/ handle_info \/ stop
  \/ handle_call \/ handle_stray

Next ==
  \/ \E p \in Process : Call(p) \/ Notify(p) \/ Stray(p) \/ Misdial(p)
  \/ \E l \in Listener : WaitCall(l)
  \/ add_handler \/ ProcessStep \/ Calm

Spec == Init /\ [][Next]_vars

\* Erlang schedules every process.
FairSpec ==
  /\ Spec /\ WF_vars(ProcessStep) /\ WF_vars(add_handler)
  /\ \A l \in Listener : WF_vars(WaitCall(l))

----------------------------------------------------------------------------
Body == Bit \cup {"refresh", "other", "request", "stop", "get_date", "call",
                  "down_phone", "error", "event", "stray", "add_handler",
                  UpPhone}

Callee == Process \cup Listener
MailMessage == [tag : {"call", "event", "info", "add"},
                from : Process \cup Listener \cup {Nothing},
                body : Body, to : Callee \cup {Nothing}]

\* The ranges of the variables: only gf_main has pairs for data.
TypeOK ==
  /\ app \in Apps /\ node \in {"starting", "up", "down"}
  /\ restarts \in 0..MAX_R /\ adding \in {"ask", "asked", "done"}
  /\ name \in {"q0", "q1", "q2", "wait", "call", "talk", "handler", "none",
               "loop"}
  /\ IF app = "fsm"
     THEN IF name = "call" THEN data \in (Process \cup {UpPhone}) \X Callee
                           ELSE data = <<>>
     ELSE data \in Nat
  /\ mailbox \in Seq(MailMessage)
  /\ calling \in [Process -> Body \cup {Nothing}]
  /\ answers \in [Process -> Seq(Bit)]
  /\ listener \in [Listener -> [pc : {"receive", "ended"},
                                inbox : Seq({"ring", "other"})]]
  /\ connected \subseteq (Process \cup {UpPhone}) \X Callee
  /\ made \in Nat /\ reported \in Nat /\ spoilt \in BOOLEAN
  /\ sent \in 0..MAX_SENT

\* st_wrapper implements a delay by one bit for all its clients together,
\* however their calls interleave and whatever makes it start again.
DelayOfAll == INSTANCE Delay WITH
  Request <- Symbols,
  last <- IF app = "statem" /\ name = "q1" THEN "1" ELSE "0",
  asking <- IF app = "statem" THEN calling ELSE [p \in Process |-> Nothing]
ImplementsDelay == DelayOfAll!Spec

\* Whoever calls is answered or, when the process ends before, exits; only
\* the cipher leaves who gave it another symbol waiting.
EveryCallEnds ==
  \A p \in Process :
    calling[p] \notin {Nothing, "other"} ~> calling[p] = Nothing

\* The places of the events that will find a handler: those that are not
\* ahead of the request for it.
Awaiting(mail) ==
  {i \in DOMAIN mail : /\ mail[i].body = "event"
                       /\ \A j \in DOMAIN mail : i < j => mail[j].tag # "add"}

Pending == IF adding = "ask" THEN {} ELSE Awaiting(mailbox)

\* In each life of ge_main, an event notified after the handler was asked for
\* is reported once at most; and while nobody sends a stray message from then
\* on, or stops it, it is reported, or yet to be: in the count, or in the
\* mailbox.  (What is notified before that is lost, and nobody is told.)
EventsAreCounted ==
  app = "event" =>
    /\ reported + data + Cardinality(Pending) <= made
    /\ ~spoilt => reported + data + Cardinality(Pending) = made

\* A listener that picks up after gf_main has crashed rings itself, as its
\* event is a pair like a call; as it has ended by then, nobody ever talks
\* to a listener with an atom for a caller, and a listener talks once.  (Any
\* other process that calls up_phone() twice does have such a talk.)
TalksHaveCallers ==
  /\ \A c \in connected : c[2] \in Listener => c[1] \in Process
  /\ \A c, d \in connected : c[2] = d[2] /\ c[2] \in Listener => c = d
=============================================================================
