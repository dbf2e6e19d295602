-------------------------- MODULE OtpServersProofs --------------------------
(***************************************************************************)
(* Theorems about OtpServers, for any number of clients, telephones,       *)
(* messages and restarts.                                                  *)
(***************************************************************************)
EXTENDS OtpServers, FiniteSetTheorems, TLAPS

\* A message about a telephone names it.
Addressed(m) ==
  /\ m.body \in {"call", UpPhone} => m.to \in Callee
  /\ m.body = "call" => m.from \in Process
MailIsAddressed == \A i \in DOMAIN mailbox : Addressed(mailbox[i])

TypeInv == TypeOK /\ MailIsAddressed

\* What appending and taking the first do to a sequence.
LEMMA Appending ==
  ASSUME NEW S, NEW s \in Seq(S), NEW e \in S
  PROVE  /\ Append(s, e) \in Seq(S)
         /\ DOMAIN Append(s, e) = DOMAIN s \cup {Len(s) + 1}
         /\ Append(s, e)[Len(s) + 1] = e
         /\ \A i \in DOMAIN s : Append(s, e)[i] = s[i] /\ i # Len(s) + 1
OBVIOUS

\* Taking the first of a sequence leaves the others, in order.
LEMMA Taking ==
  ASSUME NEW S, NEW s \in Seq(S), s # <<>>
  PROVE  /\ Tail(s) \in Seq(S) /\ Head(s) = s[1] /\ s[1] \in S
         /\ 1 \in DOMAIN s
         /\ \A i \in DOMAIN Tail(s) :
              i + 1 \in DOMAIN s /\ i + 1 # 1 /\ Tail(s)[i] = s[i + 1]
OBVIOUS

\* What a step may do to the mailbox: nothing, post a message, take the
\* first, or lose them all.
Posts(m) == Addressed(m) /\ mailbox' = Append(mailbox, m)
Takes    == mailbox # <<>> /\ mailbox' = Tail(mailbox)
MailStep ==
  \/ mailbox' = mailbox \/ mailbox' = <<>> \/ Takes
  \/ \E m \in MailMessage : Posts(m)

\* What is sent and received keeps the mailbox one of messages.
LEMMA MailType ==
  ASSUME TypeInv, MailStep
  PROVE  mailbox' \in Seq(MailMessage) /\ MailIsAddressed'
<1>0. mailbox \in Seq(MailMessage)
  BY DEF TypeInv, TypeOK
<1>1. CASE mailbox' = mailbox
  BY <1>0, <1>1 DEF TypeInv, MailIsAddressed, Addressed
<1>2. CASE mailbox' = <<>>
  BY <1>0, <1>2 DEF MailIsAddressed
<1>3. CASE Takes
  BY <1>0, <1>3, Taking DEF Takes, TypeInv, MailIsAddressed, Addressed
<1>4. ASSUME NEW m \in MailMessage, Posts(m)
      PROVE  mailbox' \in Seq(MailMessage) /\ MailIsAddressed'
  BY <1>0, <1>4, Appending DEF Posts, TypeInv, MailIsAddressed, Addressed
<1> QED
  BY <1>1, <1>2, <1>3, <1>4 DEF MailStep

\* The first message, and where the process is to be found.
LEMMA First ==
  ASSUME TypeInv, mailbox # <<>>
  PROVE  Message \in MailMessage /\ Addressed(Message)
<1>1. mailbox \in Seq(MailMessage)
  BY DEF TypeInv, TypeOK
<1>2. Message = mailbox[1] /\ 1 \in DOMAIN mailbox /\ Message \in MailMessage
  BY <1>1, Taking DEF Message
<1> QED
  BY <1>2 DEF TypeInv, MailIsAddressed

\* Every step does one of these things to the mailbox.
LEMMA EveryMailStep == TypeInv /\ [Next]_vars => MailStep
<1> SUFFICES ASSUME TypeInv, [Next]_vars PROVE MailStep
  OBVIOUS
<1> USE DEF TypeInv, TypeOK, MailMessage, Callee, Addressed, Body, Bit, UpPhone,
        Nothing
<1>1. ASSUME NEW p \in Process, Call(p) PROVE MailStep
  BY <1>1 DEF Call, Sends, Posted, Requests, Symbols, MailStep, Posts
<1>2. ASSUME NEW p \in Process, Notify(p) PROVE MailStep
  BY <1>2 DEF Notify, Sends, Posted, Notices, MailStep, Posts
<1>3. ASSUME NEW p \in Process, Stray(p) PROVE MailStep
  BY <1>3 DEF Stray, Sends, Posted, MailStep, Posts
<1>4. ASSUME NEW l \in Listener, WaitCall(l) PROVE MailStep
  BY <1>4 DEF WaitCall, Posted, MailStep, Posts
<1>5. ASSUME NEW p \in Process, Misdial(p) PROVE MailStep
  BY <1>5 DEF Misdial, MailStep
<1>6. CASE UNCHANGED vars \/ Calm
  BY <1>6 DEF vars, Calm, MailStep
<1>7. CASE ProcessStep
  BY <1>7 DEF ProcessStep, q0, q1, q2, handle_other, NoClause, wait, call,
     talk, Unexpected, init, handle_event, handle_request, handle_info, stop,
     handle_call, handle_stray, Bits, Handles, Becomes, Keeps, Crash,
     MailStep, Takes
<1>8. CASE add_handler
  BY <1>8 DEF add_handler, Posted, MailStep, Posts
<1> QED
  BY <1>1, <1>2, <1>3, <1>4, <1>5, <1>6, <1>7, <1>8 DEF Next

\* No step takes a variable out of its range.
LEMMA TypeStep == TypeInv /\ [Next]_vars => TypeInv'
<1> SUFFICES ASSUME TypeInv, [Next]_vars PROVE TypeInv'
  OBVIOUS
<1> USE OtpAssumption DEF TypeOK, Body, Bit, UpPhone, Nothing, clients, phones,
        books, process, supervisor, Callee
<1>0. MailIsAddressed' /\ mailbox' \in Seq(MailMessage)
  BY EveryMailStep, MailType
<1>t. TypeOK /\ mailbox' \in Seq(MailMessage)
  BY <1>0 DEF TypeInv
<1>f. ASSUME mailbox # <<>> PROVE Message \in MailMessage /\ Addressed(Message)
  BY <1>f, First
<1> SUFFICES TypeOK'
  BY <1>0, <1>t DEF TypeInv
<1>1. CASE UNCHANGED vars
  BY <1>1, <1>t DEF vars
<1>2. ASSUME NEW p \in Process, Call(p) PROVE TypeOK'
  BY <1>2, <1>t DEF Call, Sends, Posted, Requests, Symbols
<1>3. ASSUME NEW p \in Process, Notify(p) PROVE TypeOK'
  <2>1. /\ UNCHANGED <<app, supervisor, process, calling, answers, phones,
                      reported, spoilt>>
        /\ sent < MAX_SENT /\ sent' = sent + 1
    BY <1>3 DEF Notify, Sends
  <2>2. made' \in Nat
    BY <1>3, <1>t DEF Notify
  <2> QED
    BY <1>t, <2>1, <2>2
<1>4. ASSUME NEW p \in Process, Stray(p) PROVE TypeOK'
  BY <1>4, <1>t DEF Stray, Sends, Posted
<1>5. ASSUME NEW p \in Process, Misdial(p) PROVE TypeOK'
  <2>1. \A l \in Listener :
          /\ listener[l] \in [pc : {"receive", "ended"},
                              inbox : Seq({"ring", "other"})]
          /\ Append(listener[l].inbox, "other") \in Seq({"ring", "other"})
    BY <1>t
  <2>2. listener' \in [Listener -> [pc : {"receive", "ended"},
                                    inbox : Seq({"ring", "other"})]]
    <3>1. PICK l \in Listener :
            listener' = [listener EXCEPT ![l].inbox = Append(@, "other")]
      BY <1>5 DEF Misdial
    <3> QED
      BY <1>t, <2>1, <3>1
  <2>3. /\ UNCHANGED <<app, supervisor, process, mailbox, calling, answers,
                      connected, books>>
        /\ sent < MAX_SENT /\ sent' = sent + 1
    BY <1>5 DEF Misdial
  <2> QED
    BY <1>t, <2>2, <2>3
<1>6. ASSUME NEW l \in Listener, WaitCall(l) PROVE TypeOK'
  BY <1>6, <1>t DEF WaitCall, Posted
<1>7. CASE Calm
  BY <1>7, <1>t DEF Calm
<1>8. CASE q0 \/ q1 \/ q2
  <2>1. \A p \in Process, b \in Bit : Append(answers[p], b) \in Seq(Bit)
    BY <1>t
  <2>2. PICK b \in Bit : Says(b)
    BY <1>8 DEF q0, q1, q2
  <2>3. answers' \in [Process -> Seq(Bit)]
    BY <1>t, <2>1, <2>2 DEF Says
  <2>4. calling' \in [Process -> Body \cup {Nothing}]
    BY <1>t, <2>2 DEF Says, Answered
  <2>5. /\ app = "statem" /\ Becomes(NextQ, 0)
        /\ UNCHANGED <<sent, listener, connected, made, reported, spoilt>>
    BY <1>8 DEF q0, q1, q2, Bits, Handles, Says
  <2>6. /\ UNCHANGED <<app, node, restarts, adding>>
        /\ name' \in {"q1", "q2"} /\ data' = 0
    BY <2>5 DEF Becomes, NextQ
  <2>7. /\ name' \in {"q0", "q1", "q2", "wait", "call", "talk", "handler",
                     "none", "loop"}
        /\ app' # "fsm" /\ data' \in Nat
    BY <2>5, <2>6
  <2> QED
    BY <1>t, <2>3, <2>4, <2>5, <2>6, <2>7
<1>9. CASE handle_other
  <2>1. calling' \in [Process -> Body \cup {Nothing}]
    BY <1>9, <1>t DEF handle_other, Answered
  <2>2. /\ app' = "statem" /\ data' \in Nat /\ name' \in {"q0", name}
        /\ UNCHANGED <<app, supervisor, answers, sent, phones, books>>
    BY <1>9, <1>t DEF handle_other, Handles, Becomes, Keeps
  <2> QED
    BY <2>1, <2>2, <1>t
<1>c. ASSUME Crash, UNCHANGED phones,
             made' \in Nat /\ reported' \in Nat /\ spoilt' \in BOOLEAN
      PROVE  TypeOK'
  <2>1. calling' \in [Process -> Body \cup {Nothing}]
    BY <1>c DEF Crash
  <2>2. /\ restarts' \in 0..MAX_R /\ node' \in {"starting", "up", "down"}
        /\ adding' \in {"ask", "asked", "done"}
        /\ UNCHANGED <<app, answers, sent>>
    BY <1>c, <1>t DEF Crash, InitialAdding
  <2>3. /\ name' \in {"q0", "wait", "none", "loop"}
        /\ IF app = "fsm" THEN data' = <<>> ELSE data' \in Nat
    BY <1>c, <1>t DEF Crash, InitialName, InitialData
  <2>4. name' # "call"
    BY <2>3
  <2>5. UNCHANGED <<listener, connected>>
    BY <1>c DEF phones
  <2>6. /\ name' \in {"q0", "q1", "q2", "wait", "call", "talk", "handler",
                     "none", "loop"}
        /\ IF app' = "fsm"
           THEN IF name' = "call"
                THEN data' \in (Process \cup {UpPhone}) \X Callee
                ELSE data' = <<>>
           ELSE data' \in Nat
    BY <2>2, <2>3, <2>4
  <2> QED
    BY <1>c, <1>t, <2>1, <2>2, <2>5, <2>6
<1>10. CASE NoClause \/ Unexpected \/ stop
  <2>1. Crash /\ UNCHANGED phones
    BY <1>10 DEF NoClause, Unexpected, stop
  <2>2. made' \in {0, made} /\ reported' \in {0, reported}
    BY <1>10 DEF NoClause, Unexpected, stop
  <2>3. spoilt' \in {FALSE, spoilt}
    BY <1>10, Zenon DEF NoClause, Unexpected, stop
  <2>4. made' \in Nat /\ reported' \in Nat
    BY <1>t, <2>2
  <2>5. spoilt' \in BOOLEAN
    BY <1>t, <2>3
  <2> QED
    BY <1>c, <2>1, <2>4, <2>5
<1>11. CASE wait
  <2>1. \A l \in Listener :
          /\ listener[l] \in [pc : {"receive", "ended"},
                              inbox : Seq({"ring", "other"})]
          /\ Append(listener[l].inbox, "ring") \in Seq({"ring", "other"})
    BY <1>t
  <2>2. Message.to \in Callee
    BY <1>11, <1>f DEF wait, Handles, Expected, Addressed
  <2>3. listener' \in [Listener -> [pc : {"receive", "ended"},
                                    inbox : Seq({"ring", "other"})]]
    BY <1>11, <1>t, <2>1, ZenonT(60) DEF wait, Rings
  <2> QED
    BY <2>2, <2>3, <1>11, <1>t, <1>f DEF MailMessage, Addressed, wait,
       Handles, Becomes, Expected
<1>12. CASE call
  BY <1>12, <1>t, <1>f DEF MailMessage, Addressed, call, Handles, Becomes,
     Expected
<1>13. CASE talk
  BY <1>13, <1>t, <1>f DEF MailMessage, Addressed, talk, Handles, Becomes,
     Expected
<1>14. CASE handle_event
  BY <1>14, <1>t, <1>f DEF MailMessage, Addressed, handle_event, Handles,
     Becomes, Installed
<1>15. CASE handle_request
  <2>1. calling' \in [Process -> Body \cup {Nothing}]
    BY <1>15, <1>t DEF handle_request, Answered
  <2>2. reported' \in Nat
    BY <1>15, <1>t DEF handle_request, Handles
  <2> QED
    BY <2>1, <2>2, <1>15, <1>t, <1>f DEF MailMessage, Addressed,
       handle_request, Handles, Becomes
<1>16. CASE handle_info
  BY <1>16, <1>t, <1>f DEF MailMessage, Addressed, handle_info, Handles, Becomes
<1>17. CASE handle_call
  BY <1>17, <1>t, <1>f DEF MailMessage, Addressed, handle_call, Handles,
     Becomes, Keeps, Answered
<1>18. CASE handle_stray
  BY <1>18, <1>c, <1>t, SMTT(30) DEF handle_stray, Handles, Becomes, Keeps
<1>19. CASE add_handler
  BY <1>19, <1>t DEF add_handler
<1>20. CASE init
  BY <1>20, <1>t DEF init, Handles
<1> QED
  BY <1>1, <1>2, <1>3, <1>4, <1>5, <1>6, <1>7, <1>8, <1>9, <1>10, <1>11, <1>12,
     <1>13, <1>14, <1>15, <1>16, <1>17, <1>18, <1>19, <1>20
     DEF Next, ProcessStep

\* The ranges of the variables, and what the states imply, at all times.
LEMMA TypeInvHolds == Spec => []TypeInv
<1>1. Init => TypeInv
  <2> SUFFICES ASSUME Init PROVE TypeInv
    OBVIOUS
  <2>1. app \in {"statem", "fsm", "event", "server"} /\ app \in Apps
    BY OtpAssumption DEF Init
  <2>2. mailbox = <<>> /\ mailbox \in Seq(MailMessage) /\ MailIsAddressed
    BY DEF Init, MailIsAddressed
  <2>3. /\ name \in {"q0", "wait", "none", "loop"}
        /\ adding \in {"ask", "asked", "done"}
        /\ data = IF app = "fsm" THEN <<>> ELSE 0
    BY <2>1 DEF Init, InitialName, InitialData, InitialAdding
  <2>4. /\ calling \in [Process -> Body \cup {Nothing}]
        /\ answers \in [Process -> Seq(Bit)]
        /\ listener \in [Listener -> [pc : {"receive", "ended"},
                                      inbox : Seq({"ring", "other"})]]
    BY DEF Init
  <2>5. /\ node \in {"starting", "up", "down"} /\ restarts \in 0..MAX_R
        /\ connected = {}
        /\ made \in Nat /\ reported \in Nat /\ sent \in 0..MAX_SENT
    BY OtpAssumption DEF Init
  <2>6. spoilt \in BOOLEAN
    BY Zenon DEF Init
  <2> QED
    BY <2>1, <2>2, <2>3, <2>4, <2>5, <2>6 DEF TypeInv, TypeOK
<1> QED
  BY <1>1, TypeStep, PTL DEF Spec

\* The variables stay in their ranges.
THEOREM TypeCorrect == Spec => []TypeOK
<1>1. TypeInv => TypeOK
  BY DEF TypeInv
<1> QED
  BY <1>1, TypeInvHolds, PTL

----------------------------------------------------------------------------
(* Conversations.  A listener that has ended, and whose event is not in    *)
(* the mailbox any more, cannot be talked to again.                        *)

PickUp(m, l) == m.body = UpPhone /\ m.to = l

Spent(l) ==
  /\ listener[l].pc = "ended"
  /\ \A i \in DOMAIN mailbox : ~PickUp(mailbox[i], l)

PickUps ==
  \A l \in Listener :
    /\ \A i \in DOMAIN mailbox :
         PickUp(mailbox[i], l) => listener[l].pc = "ended"
    /\ \A i, j \in DOMAIN mailbox :
         PickUp(mailbox[i], l) /\ PickUp(mailbox[j], l) => i = j

PhoneInv ==
  /\ PickUps
  /\ \A c \in connected : c[2] \in Listener => c[1] \in Process /\ Spent(c[2])
  /\ \A c, d \in connected : c[2] = d[2] /\ c[2] \in Listener => c = d
  /\ app = "fsm" /\ name = "call" =>
       (data[1] \notin Process /\ data[2] \in Listener => Spent(data[2]))

\* Steps in which no listener picks up.
NoPickUp ==
  /\ \/ mailbox' = mailbox \/ mailbox' = <<>> \/ Takes
     \/ \E m \in MailMessage :
          Posts(m) /\ \A l \in Listener : ~PickUp(m, l)
  /\ \A l \in Listener : listener'[l].pc = listener[l].pc

\* Where nobody picks up, what was said of the picked up stays true.
LEMMA Quiet ==
  ASSUME TypeInv, PhoneInv, NoPickUp
  PROVE  PickUps' /\ \A l \in Listener : Spent(l) => Spent(l)'
<1>0. mailbox \in Seq(MailMessage) /\ MailIsAddressed
  BY DEF TypeInv, TypeOK
<1>1. CASE mailbox' = mailbox
  BY <1>1 DEF NoPickUp, PickUps, PhoneInv, Spent, PickUp
<1>2. CASE mailbox' = <<>>
  BY <1>2 DEF NoPickUp, PickUps, PhoneInv, Spent
<1>3. CASE Takes
  <2>1. \A i \in DOMAIN mailbox' :
          i + 1 \in DOMAIN mailbox /\ mailbox'[i] = mailbox[i + 1]
    BY <1>0, <1>3, Taking DEF Takes
  <2>2. DOMAIN mailbox \subseteq Int /\ DOMAIN mailbox' \subseteq Int
    BY <1>0, <1>3, Taking DEF Takes
  <2> QED
    BY <2>1, <2>2 DEF NoPickUp, PickUps, PhoneInv, Spent, PickUp
<1>4. ASSUME NEW m \in MailMessage, Posts(m), \A l \in Listener : ~PickUp(m, l)
      PROVE  PickUps' /\ \A l \in Listener : Spent(l) => Spent(l)'
  <2>1. /\ DOMAIN mailbox' = DOMAIN mailbox \cup {Len(mailbox) + 1}
        /\ mailbox'[Len(mailbox) + 1] = m
        /\ \A i \in DOMAIN mailbox : mailbox'[i] = mailbox[i]
    BY <1>0, <1>4, Appending DEF Posts
  <2> QED
    BY <1>4, <2>1 DEF NoPickUp, PickUps, PhoneInv, Spent, PickUp
<1> QED
  BY <1>1, <1>2, <1>3, <1>4 DEF NoPickUp

\* The event of a listener that is taken was its only one.
LEMMA TakenPickUp ==
  ASSUME TypeInv, PhoneInv, Takes, Message.body = UpPhone,
         \A l \in Listener : listener'[l].pc = listener[l].pc
  PROVE  \A l \in Listener : l = Message.to => ~Spent(l) /\ Spent(l)'
<1>0. mailbox \in Seq(MailMessage)
  BY DEF TypeInv, TypeOK
<1>1. Message = mailbox[1] /\ 1 \in DOMAIN mailbox
  BY <1>0, Taking DEF Takes, Message
<1>2. \A i \in DOMAIN mailbox' :
        i + 1 \in DOMAIN mailbox /\ i + 1 # 1 /\ mailbox'[i] = mailbox[i + 1]
  BY <1>0, Taking DEF Takes
<1>3. DOMAIN mailbox' \subseteq Int
  BY <1>0, Taking DEF Takes
<1> SUFFICES ASSUME NEW l \in Listener, l = Message.to
             PROVE  ~Spent(l) /\ Spent(l)'
  OBVIOUS
<1>4. PickUp(mailbox[1], l)
  BY <1>1 DEF PickUp
<1>5. listener[l].pc = "ended" /\ ~Spent(l)
  BY <1>1, <1>4 DEF PhoneInv, PickUps, Spent
<1>6. \A i \in DOMAIN mailbox' : ~PickUp(mailbox'[i], l)
  BY <1>1, <1>2, <1>3, <1>4 DEF PhoneInv, PickUps
<1> QED
  BY <1>5, <1>6 DEF Spent, PickUp

\* A step of the telephones keeps the stale events spent.
LEMMA PhoneStep == TypeInv /\ PhoneInv /\ [Next]_vars => PhoneInv'
<1> SUFFICES ASSUME TypeInv, PhoneInv, [Next]_vars PROVE PhoneInv'
  OBVIOUS
<1>t. /\ connected \subseteq (Process \cup {UpPhone}) \X Callee
      /\ app = "fsm" /\ name = "call" =>
           data \in (Process \cup {UpPhone}) \X Callee
      /\ listener \in [Listener -> [pc : {"receive", "ended"},
                                    inbox : Seq({"ring", "other"})]]
  BY DEF TypeInv, TypeOK
<1>q. ASSUME NoPickUp, UNCHANGED connected,
             \/ UNCHANGED <<app, name, data>> \/ app' # "fsm" \/ name' # "call"
      PROVE  PhoneInv'
  BY <1>t, <1>q, Quiet DEF PhoneInv
<1>1. ASSUME NEW p \in Process, Call(p) \/ Notify(p) \/ Stray(p) PROVE PhoneInv'
  <2>1. \/ mailbox' = mailbox
        \/ \E m \in MailMessage : /\ Posts(m)
                                  /\ m.body = UpPhone => m.to \in Process
    <3>1. CASE Call(p)
      BY <3>1 DEF Call, Sends, Posted, Posts, Requests, Symbols, Bit, UpPhone,
         MailMessage, Body, Addressed, Nothing
    <3>2. CASE Notify(p)
      BY <3>2 DEF Notify, Sends, Posted, Posts, Notices, UpPhone, MailMessage,
         Body, Addressed, Nothing, Callee
    <3>3. CASE Stray(p)
      BY <3>3 DEF Stray, Sends, Posted, Posts, UpPhone, MailMessage, Body,
         Addressed, Nothing
    <3> QED
      BY <1>1, <3>1, <3>2, <3>3
  <2>2. NoPickUp
    BY <1>1, <2>1, OtpAssumption DEF Call, Notify, Stray, Sends, NoPickUp,
       PickUp, phones
  <2> QED
    BY <1>1, <1>q, <2>2 DEF Call, Notify, Stray, Sends, process, phones
<1>2. ASSUME NEW p \in Process, Misdial(p) PROVE PhoneInv'
  BY <1>2, <1>q, <1>t DEF Misdial, NoPickUp, process
<1>3. ASSUME NEW l \in Listener, WaitCall(l) PROVE PhoneInv'
  <2>0. mailbox \in Seq(MailMessage)
    BY DEF TypeInv, TypeOK
  <2>1. /\ ~Spent(l) /\ listener'[l].pc = "ended"
        /\ \A k \in Listener : k # l => listener'[k] = listener[k]
    BY <1>3, <1>t DEF WaitCall, Spent
  <2>2. \A i \in DOMAIN mailbox : ~PickUp(mailbox[i], l)
    BY <1>3 DEF WaitCall, PhoneInv, PickUps
  <2>3. \/ mailbox' = mailbox
        \/ /\ DOMAIN mailbox' = DOMAIN mailbox \cup {Len(mailbox) + 1}
           /\ mailbox'[Len(mailbox) + 1].to = l
           /\ \A i \in DOMAIN mailbox : mailbox'[i] = mailbox[i]
    <3> DEFINE m == [tag |-> "event", from |-> l, body |-> UpPhone, to |-> l]
    <3>1. m \in MailMessage
      BY DEF MailMessage, Body, Callee
    <3>2. mailbox' = mailbox \/ mailbox' = Append(mailbox, m)
      BY <1>3 DEF WaitCall, Posted
    <3>3. m.to = l
      OBVIOUS
    <3> HIDE DEF m
    <3>4. CASE mailbox' = Append(mailbox, m)
      <4>1. /\ DOMAIN Append(mailbox, m)
                 = DOMAIN mailbox \cup {Len(mailbox) + 1}
            /\ Append(mailbox, m)[Len(mailbox) + 1] = m
            /\ \A i \in DOMAIN mailbox : Append(mailbox, m)[i] = mailbox[i]
        BY <2>0, <3>1, Appending
      <4> QED
        BY <3>3, <3>4, <4>1
    <3> QED
      BY <3>2, <3>4
  <2>4. PickUps'
    BY <2>1, <2>2, <2>3 DEF PhoneInv, PickUps, PickUp
  <2>5. \A k \in Listener : Spent(k) => Spent(k)'
    BY <2>1, <2>3 DEF Spent, PickUp
  <2> QED
    BY <1>3, <1>t, <2>4, <2>5 DEF WaitCall, PhoneInv, process
<1>4. CASE wait
  <2>1. /\ Takes /\ \A l \in Listener : listener'[l].pc = listener[l].pc
        /\ app' = app /\ app = "fsm" /\ connected' = connected
        /\ data'[2] = Message.to
        /\ data'[1] = IF Message.body = UpPhone THEN UpPhone ELSE Message.from
        /\ Message.body \in {"call", UpPhone}
    BY <1>4, <1>t DEF wait, Handles, Becomes, Expected, Rings, Takes
  <2>2. Message.body = "call" => Message.from \in Process
    BY <2>1, First DEF Takes, Addressed
  <2>3. PickUps' /\ \A l \in Listener : Spent(l) => Spent(l)'
    BY <2>1, Quiet DEF NoPickUp
  <2>4. \A c \in connected' :
          c[2] \in Listener => c[1] \in Process /\ Spent(c[2])'
    BY <2>1, <2>3 DEF PhoneInv
  <2>5. \A l \in Listener :
          Message.body = UpPhone /\ l = Message.to => Spent(l)'
    BY <2>1, TakenPickUp
  <2>6. (data[1] \notin Process /\ data[2] \in Listener => Spent(data[2]))'
    BY <2>1, <2>2, <2>5 DEF UpPhone, Spent
  <2>7. \A c, d \in connected' : c[2] = d[2] /\ c[2] \in Listener => c = d
    BY <2>1 DEF PhoneInv
  <2> QED
    BY <2>3, <2>4, <2>6, <2>7 DEF PhoneInv, Spent
<1>5. CASE call
  <2>1. /\ Takes /\ UNCHANGED listener /\ app = "fsm" /\ name = "call"
        /\ Message.body = UpPhone /\ Message.to = data[2]
        /\ connected' = connected \cup {data} /\ name' = "talk"
    BY <1>5 DEF call, Handles, Becomes, Expected, Takes
  <2>2. \A l \in Listener : l = data[2] => ~Spent(l) /\ Spent(l)'
    BY <2>1, TakenPickUp
  <2>3. PickUps' /\ \A l \in Listener : Spent(l) => Spent(l)'
    BY <2>1, Quiet DEF NoPickUp
  <2>4. data[2] \in Listener => data[1] \in Process
    BY <2>1, <2>2 DEF PhoneInv
  <2>5. \A c \in connected : c[2] \in Listener => c[2] # data[2]
    BY <2>2 DEF PhoneInv
  <2> QED
    BY <2>1, <2>2, <2>3, <2>4, <2>5 DEF PhoneInv
<1>6. CASE talk \/ Unexpected
  BY <1>6, <1>q DEF talk, Unexpected, Handles, Becomes, Crash, InitialName,
     NoPickUp, Takes, phones
<1>7. CASE q0 \/ q1 \/ q2 \/ handle_other \/ NoClause \/ init
           \/ handle_event \/ handle_request \/ handle_info \/ stop
           \/ handle_call \/ handle_stray
  <2>1. app' # "fsm" /\ UNCHANGED phones
    BY <1>7 DEF q0, q1, q2, handle_other, NoClause, init, handle_event, phones,
       handle_request, handle_info, stop, handle_call, handle_stray, Bits,
       Handles, Becomes, Keeps, Crash
  <2>2. mailbox' = mailbox \/ mailbox' = <<>> \/ Takes
    BY <1>7 DEF q0, q1, q2, handle_other, NoClause, init, handle_event,
       handle_request, handle_info, stop, handle_call, handle_stray, Bits,
       Handles, Becomes, Keeps, Crash, Takes
  <2> QED
    BY <1>q, <2>1, <2>2 DEF NoPickUp, phones
<1>8. CASE UNCHANGED vars \/ Calm
  BY <1>8, <1>q DEF vars, Calm, NoPickUp, process, phones
<1>9. CASE add_handler
  <2>1. app' = "event" /\ UNCHANGED phones
    BY <1>9 DEF add_handler
  <2>2. NoPickUp
    BY <1>9, EveryMailStep DEF add_handler, Posted, Posts, UpPhone, NoPickUp,
       PickUp, MailMessage, Body, Addressed, Nothing, phones
  <2> QED
    BY <1>q, <2>1, <2>2 DEF phones
<1> QED
  BY <1>1, <1>2, <1>3, <1>4, <1>5, <1>6, <1>7, <1>8, <1>9
     DEF Next, ProcessStep

\* Whoever is connected was called by a process, and is connected once.
THEOREM TalksHaveCallersHolds == Spec => []TalksHaveCallers
<1>1. Init => PhoneInv
  BY DEF Init, PhoneInv, PickUps, InitialName
<1>2. PhoneInv => TalksHaveCallers
  BY DEF PhoneInv, TalksHaveCallers
<1> QED
  BY <1>1, <1>2, TypeInvHolds, PhoneStep, PTL DEF Spec

----------------------------------------------------------------------------
(* Calls.  Whose call is in the mailbox waits for its answer, and has no   *)
(* other call there.                                                       *)

CallsInv ==
  /\ \A i \in DOMAIN mailbox :
       mailbox[i].tag = "call" =>
         /\ mailbox[i].from \in Process /\ mailbox[i].body # Nothing
         /\ calling[mailbox[i].from] = mailbox[i].body
  /\ \A i, j \in DOMAIN mailbox :
       /\ mailbox[i].tag = "call" /\ mailbox[j].tag = "call"
       /\ mailbox[i].from = mailbox[j].from
       => i = j

\* Steps in which nobody calls, and is answered at most whose call is taken.
NoCall ==
  \/ mailbox' = <<>>
  \/ mailbox' = mailbox /\ calling' = calling
  \/ Takes /\ calling' = calling
  \/ Takes /\ Message.tag = "call" /\ Answered
  \/ /\ \E m \in MailMessage : m.tag # "call" /\ Posts(m)
     /\ calling' = calling

\* A step in which nobody calls leaves the calls in the mailbox waited for.
LEMMA NoCallStep ==
  ASSUME TypeInv, CallsInv, NoCall
  PROVE  CallsInv'
<1>0. /\ mailbox \in Seq(MailMessage)
      /\ calling \in [Process -> Body \cup {Nothing}]
  BY DEF TypeInv, TypeOK
<1>1. CASE mailbox' = <<>> \/ (mailbox' = mailbox /\ calling' = calling)
  BY <1>0, <1>1 DEF CallsInv
<1>2. CASE Takes
  <2>1. /\ Message = mailbox[1] /\ 1 \in DOMAIN mailbox
        /\ \A i \in DOMAIN mailbox' :
             /\ i + 1 \in DOMAIN mailbox /\ i + 1 # 1
             /\ mailbox'[i] = mailbox[i + 1]
        /\ DOMAIN mailbox' \subseteq Int
    BY <1>0, <1>2, Taking DEF Takes, Message
  <2>2. CASE calling' = calling
    BY <2>1, <2>2 DEF CallsInv
  <2>3. CASE Message.tag = "call" /\ Answered
    <3>1. \A i \in DOMAIN mailbox' :
            mailbox'[i].tag = "call" => mailbox'[i].from # Message.from
      BY <2>1, <2>3 DEF CallsInv
    <3>2. \A p \in Process : p # Message.from => calling'[p] = calling[p]
      BY <1>0, <2>3 DEF Answered
    <3> QED
      BY <2>1, <3>1, <3>2 DEF CallsInv
  <2>4. mailbox # <<>> /\ mailbox' = Tail(mailbox) /\ mailbox' # mailbox
    BY <1>0, <1>2 DEF Takes
  <2>5. CASE mailbox' = <<>>
    BY <2>5 DEF CallsInv
  <2>6. CASE \E m \in MailMessage : Posts(m)
    BY <1>0, <2>4, <2>6 DEF Posts
  <2> QED
    BY <2>2, <2>3, <2>4, <2>5, <2>6 DEF NoCall
<1>3. ASSUME NEW m \in MailMessage, m.tag # "call", Posts(m), calling' = calling
      PROVE  CallsInv'
  <2>1. /\ DOMAIN mailbox' = DOMAIN mailbox \cup {Len(mailbox) + 1}
        /\ mailbox'[Len(mailbox) + 1] = m
        /\ \A i \in DOMAIN mailbox : mailbox'[i] = mailbox[i]
    BY <1>0, <1>3, Appending DEF Posts
  <2> QED
    BY <1>3, <2>1 DEF CallsInv
<1> QED
  BY <1>1, <1>2, <1>3 DEF NoCall

\* Whose call is in the mailbox waits for it, and has one call there.
LEMMA CallsStep == TypeInv /\ CallsInv /\ [Next]_vars => CallsInv'
<1> SUFFICES ASSUME TypeInv, CallsInv, [Next]_vars PROVE CallsInv'
  OBVIOUS
<1>0. /\ mailbox \in Seq(MailMessage)
      /\ calling \in [Process -> Body \cup {Nothing}]
  BY DEF TypeInv, TypeOK
<1>1. ASSUME NEW p \in Process, Call(p) PROVE CallsInv'
  <2>1. PICK body \in Requests :
          /\ calling[p] = Nothing /\ calling' = [calling EXCEPT ![p] = body]
          /\ mailbox' = Append(mailbox, [tag |-> "call", from |-> p,
                                         body |-> body, to |-> Nothing])
    BY <1>1 DEF Call, Sends, Posted
  <2> DEFINE m == [tag |-> "call", from |-> p, body |-> body, to |-> Nothing]
  <2>2. m \in MailMessage /\ body # Nothing
    BY DEF MailMessage, Body, Requests, Symbols, Bit, Nothing
  <2>3. m.from = p /\ m.body = body
    OBVIOUS
  <2>4. mailbox' = Append(mailbox, m)
    BY <2>1
  <2> HIDE DEF m
  <2>5. /\ DOMAIN mailbox' = DOMAIN mailbox \cup {Len(mailbox) + 1}
        /\ mailbox'[Len(mailbox) + 1] = m
        /\ \A i \in DOMAIN mailbox : mailbox'[i] = mailbox[i]
    BY <1>0, <2>2, <2>4, Appending
  <2>6. \A i \in DOMAIN mailbox :
          mailbox[i].tag = "call" => mailbox[i].from # p
    BY <2>1 DEF CallsInv
  <2>7. /\ calling'[p] = body
        /\ \A q \in Process : q # p => calling'[q] = calling[q]
    BY <1>0, <2>1
  <2> QED
    BY <2>2, <2>3, <2>5, <2>6, <2>7 DEF CallsInv
<1>2. ASSUME NEW p \in Process, Notify(p) \/ Stray(p) PROVE CallsInv'
  <2>1. calling' = calling
    BY <1>2 DEF Notify, Stray
  <2>2. \/ mailbox' = mailbox
        \/ \E m \in MailMessage : m.tag # "call" /\ Posts(m)
    BY <1>2 DEF Notify, Stray, Sends, Posted, Posts, Addressed, Notices,
       MailMessage, Body, UpPhone, Nothing, Callee
  <2> QED
    BY <2>1, <2>2, NoCallStep DEF NoCall
<1>3. ASSUME NEW p \in Process, Misdial(p) PROVE CallsInv'
  BY <1>3, NoCallStep DEF Misdial, NoCall
<1>4. ASSUME NEW l \in Listener, WaitCall(l) PROVE CallsInv'
  <2>1. \/ mailbox' = mailbox
        \/ \E m \in MailMessage : m.tag # "call" /\ Posts(m)
    BY <1>4 DEF WaitCall, Posted, Posts, Addressed, MailMessage, Body, UpPhone,
       Nothing, Callee
  <2>2. calling' = calling
    BY <1>4 DEF WaitCall, clients
  <2> QED
    BY <2>1, <2>2, NoCallStep DEF NoCall
<1>5. CASE q0 \/ q1 \/ q2
  BY <1>5, NoCallStep DEF q0, q1, q2, Bits, Handles, Becomes, Says, Takes,
     NoCall
<1>6. CASE handle_other \/ handle_request \/ handle_call
  BY <1>6, NoCallStep DEF handle_other, handle_request, handle_call, Handles,
     Becomes, Keeps, Takes, NoCall
<1>7. CASE NoClause \/ Unexpected \/ stop \/ handle_stray
  BY <1>7, NoCallStep DEF NoClause, Unexpected, stop, handle_stray, Crash,
     Handles, Keeps, Becomes, Takes, NoCall, clients
<1>8. CASE wait \/ call \/ talk \/ init \/ handle_event \/ handle_info
  BY <1>8, NoCallStep DEF wait, call, talk, init, handle_event, handle_info,
     Handles, Becomes, Takes, NoCall, clients
<1>9. CASE UNCHANGED vars \/ Calm
  BY <1>9, NoCallStep DEF vars, Calm, NoCall, clients
<1>10. CASE add_handler
  BY <1>10, NoCallStep DEF add_handler, Posted, Posts, Addressed, MailMessage,
     Body, UpPhone, Nothing, NoCall, clients
<1> QED
  BY <1>1, <1>2, <1>3, <1>4, <1>5, <1>6, <1>7, <1>8, <1>9, <1>10
     DEF Next, ProcessStep

----------------------------------------------------------------------------
(* The refinement.                                                         *)

Last   == IF app = "statem" /\ name = "q1" THEN "1" ELSE "0"
Asking == IF app = "statem" THEN calling ELSE [p \in Process |-> Nothing]

\* A step of the four processes is one of the delay, or none.
LEMMA DelayStep ==
  ASSUME TypeInv, CallsInv, [Next]_vars
  PROVE  DelayOfAll!Next \/ UNCHANGED <<Last, Asking, answers>>
<1>0. calling \in [Process -> Body \cup {Nothing}]
  BY DEF TypeInv, TypeOK
<1>m. ASSUME mailbox # <<>>, Message.tag = "call"
      PROVE  Message.from \in Process /\ calling[Message.from] = Message.body
  BY <1>m, Taking DEF TypeInv, TypeOK, CallsInv, Message
<1>1. CASE app # "statem"
  <2>1. app' = app
    BY DEF vars, Next, Call, Notify, Stray, Misdial, Sends, WaitCall,
       ProcessStep, Calm, q0, q1, q2, handle_other, NoClause, wait, call, talk,
       Unexpected, add_handler, init, handle_event, handle_request,
       handle_info, stop, handle_call, handle_stray, Bits, Handles, Becomes,
       Keeps, Crash
  <2>2. answers' = answers
    BY <1>1 DEF vars, Next, Call, Notify, Stray, Misdial, Sends, WaitCall,
       ProcessStep, Calm, q0, q1, q2, handle_other, NoClause, wait, call, talk,
       Unexpected, add_handler, init, handle_event, handle_request,
       handle_info, stop, handle_call, handle_stray, Bits, Handles, Crash,
       clients
  <2> QED
    BY <1>1, <2>1, <2>2 DEF Last, Asking
<1>2. CASE app = "statem"
  <2> USE <1>2
  <2>1. ASSUME NEW p \in Process, Call(p) PROVE DelayOfAll!Ask(p)
    BY <2>1 DEF Call, Sends, Requests, DelayOfAll!Ask, process
  <2>2. ASSUME NEW p \in Process, Notify(p) \/ Stray(p) \/ Misdial(p)
        PROVE  UNCHANGED <<Last, Asking, answers>>
    BY <2>2 DEF Notify, Notices, Stray, Misdial, Sends, process, Last, Asking
  <2>3. ASSUME NEW l \in Listener, WaitCall(l)
        PROVE  UNCHANGED <<Last, Asking, answers>>
    BY <2>3 DEF WaitCall, process, clients, Last, Asking
  <2>4. CASE q0 \/ q1 \/ q2
    <3>1. /\ Message.from \in Process /\ Message.body \in Bit
          /\ calling[Message.from] = Message.body
      BY <2>4, <1>m DEF q0, q1, q2, Bits, Handles
    <3>2. /\ Answered /\ app' = app
          /\ answers' = [answers EXCEPT ![Message.from] = Append(@, Last)]
      BY <2>4 DEF q0, q1, q2, Says, Becomes, Last
    <3>3. Last' = Message.body
      BY <2>4, <3>1 DEF q0, q1, q2, Becomes, NextQ, Bit, Last
    <3>4. DelayOfAll!Give(Message.from)
      BY <3>1, <3>2, <3>3 DEF DelayOfAll!Give, DelayOfAll!Bit, Bit, Answered,
         Last
    <3> QED
      BY <3>1, <3>4 DEF DelayOfAll!Next
  <2>5. CASE handle_other
    <3>1. /\ Message.from \in Process
          /\ calling[Message.from] = Message.body
      BY <2>5, <1>m DEF handle_other, Handles
    <3>2. CASE Message.body = "refresh"
      <4>1. DelayOfAll!Refresh(Message.from)
        BY <2>5, <3>1, <3>2 DEF handle_other, Becomes, Answered,
           DelayOfAll!Refresh
      <4> QED
        BY <3>1, <4>1 DEF DelayOfAll!Next
    <3>3. CASE Message.body # "refresh"
      BY <2>5, <3>3 DEF handle_other, Keeps, Becomes, Last, Asking
    <3> QED
      BY <3>2, <3>3
  <2>6. CASE NoClause
    BY <2>6 DEF NoClause, Crash, InitialName, DelayOfAll!Next,
       DelayOfAll!Restart
  <2>7. CASE UNCHANGED vars \/ Calm
    BY <2>7 DEF vars, Calm, process, clients, Last, Asking
  <2>8. ~(wait \/ call \/ talk \/ Unexpected \/ add_handler \/ init
          \/ handle_event \/ handle_request \/ handle_info \/ stop
          \/ handle_call \/ handle_stray)
    BY DEF wait, call, talk, Unexpected, add_handler, init, handle_event,
       handle_request, handle_info, stop, handle_call, handle_stray, Handles
  <2> QED
    BY <2>1, <2>2, <2>3, <2>4, <2>5, <2>6, <2>7, <2>8
       DEF Next, ProcessStep, DelayOfAll!Next
<1> QED
  BY <1>1, <1>2

\* st_wrapper implements a delay by one bit, for any number of clients.
THEOREM ImplementsDelayHolds == Spec => ImplementsDelay
<1>1. Init => CallsInv
  BY DEF Init, CallsInv
<1>2. Init => DelayOfAll!Init
  BY DEF Init, InitialName, DelayOfAll!Init
<1>3. TypeInv /\ CallsInv /\ [Next]_vars
        => [DelayOfAll!Next]_<<
              IF app = "statem" /\ name = "q1" THEN "1" ELSE "0",
              IF app = "statem" THEN calling ELSE [p \in Process |-> Nothing],
              answers>>
  BY DelayStep DEF Last, Asking
<1> QED
  BY <1>1, <1>2, <1>3, TypeInvHolds, CallsStep, PTL
     DEF Spec, ImplementsDelay, DelayOfAll!Spec

----------------------------------------------------------------------------
(* EventsAreCounted.  How far the start of the event manager has come says *)
(* what its mailbox holds, and what has been counted.                      *)

\* The events in a mailbox can be counted.
LEMMA AwaitingIsFinite ==
  ASSUME NEW q \in Seq(MailMessage)
  PROVE  IsFiniteSet(Awaiting(q)) /\ Cardinality(Awaiting(q)) \in Nat
<1>1. DOMAIN q = 1..Len(q) /\ Len(q) \in Nat
  OBVIOUS
<1>2. IsFiniteSet(DOMAIN q) /\ Awaiting(q) \subseteq DOMAIN q
  BY <1>1, FS_Interval DEF Awaiting
<1> QED
  BY <1>2, FS_Subset, FS_CardinalityType

\* An event that arrives is one more to count, any other message is none.
LEMMA OneMoreEvent ==
  ASSUME NEW q \in Seq(MailMessage), NEW m \in MailMessage, m.tag # "add"
  PROVE  Cardinality(Awaiting(Append(q, m))) =
           Cardinality(Awaiting(q)) + IF m.body = "event" THEN 1 ELSE 0
<1>1. /\ DOMAIN Append(q, m) = DOMAIN q \cup {Len(q) + 1}
      /\ Append(q, m)[Len(q) + 1] = m
      /\ \A i \in DOMAIN q : Append(q, m)[i] = q[i] /\ i < Len(q) + 1
      /\ Len(q) \in Nat
  OBVIOUS
<1>2. CASE m.body = "event"
  <2>1. Awaiting(Append(q, m)) = Awaiting(q) \cup {Len(q) + 1}
    BY <1>1, <1>2 DEF Awaiting
  <2>2. Len(q) + 1 \notin Awaiting(q)
    BY <1>1 DEF Awaiting
  <2> QED
    BY <1>2, <2>1, <2>2, AwaitingIsFinite, FS_AddElement
<1>3. CASE m.body # "event"
  <2>1. Awaiting(Append(q, m)) = Awaiting(q)
    BY <1>1, <1>3 DEF Awaiting
  <2> QED
    BY <1>3, <2>1, AwaitingIsFinite
<1> QED
  BY <1>2, <1>3

\* What is ahead of the request for the handler does not find it.
LEMMA NoneAwaited ==
  ASSUME NEW q \in Seq(MailMessage), NEW m \in MailMessage,
         m.tag = "add", m.body # "event"
  PROVE  Awaiting(Append(q, m)) = {}
<1>1. /\ DOMAIN Append(q, m) = DOMAIN q \cup {Len(q) + 1}
      /\ Append(q, m)[Len(q) + 1] = m
      /\ \A i \in DOMAIN q : i < Len(q) + 1
  OBVIOUS
<1> QED
  BY <1>1 DEF Awaiting

\* An event that is taken is one less.
LEMMA OneEventLess ==
  ASSUME NEW q \in Seq(MailMessage), q # <<>>
  PROVE  Cardinality(Awaiting(q)) =
           Cardinality(Awaiting(Tail(q)))
           + IF 1 \in Awaiting(q) THEN 1 ELSE 0
<1> DEFINE later == Awaiting(q) \ {1}
           shift == [i \in later |-> i - 1]
<1>1. /\ Head(q) = q[1] /\ 1 \in DOMAIN q /\ Tail(q) \in Seq(MailMessage)
      /\ \A i \in DOMAIN Tail(q) :
           /\ i + 1 \in DOMAIN q /\ i + 1 # 1 /\ Tail(q)[i] = q[i + 1]
           /\ i >= 1
      /\ \A i \in DOMAIN q \ {1} : i - 1 \in DOMAIN Tail(q)
      /\ DOMAIN q \subseteq Int /\ DOMAIN Tail(q) \subseteq Int
  OBVIOUS
<1>2. shift \in Bijection(later, Awaiting(Tail(q)))
  <2>1. \A i \in later : i - 1 \in Awaiting(Tail(q)) /\ i \in Int
    <3> SUFFICES ASSUME NEW i \in later
                 PROVE  i - 1 \in Awaiting(Tail(q)) /\ i \in Int
      OBVIOUS
    <3>1. /\ i - 1 \in DOMAIN Tail(q) /\ i \in Int
          /\ (i - 1) + 1 = i /\ q[i].body = "event"
      BY <1>1 DEF Awaiting
    <3>2. Tail(q)[i - 1] = q[i]
      BY <1>1, <3>1
    <3>3. ASSUME NEW j \in DOMAIN Tail(q), i - 1 < j
          PROVE  Tail(q)[j].tag # "add"
      <4>1. j + 1 \in DOMAIN q /\ i < j + 1 /\ Tail(q)[j] = q[j + 1]
        BY <1>1, <3>1, <3>3
      <4> QED
        BY <4>1 DEF Awaiting
    <3> QED
      BY <3>1, <3>2, <3>3 DEF Awaiting
  <2>2. \A j \in Awaiting(Tail(q)) : j + 1 \in later /\ (j + 1) - 1 = j
    <3> SUFFICES ASSUME NEW j \in Awaiting(Tail(q))
                 PROVE  j + 1 \in later /\ (j + 1) - 1 = j
      OBVIOUS
    <3>1. /\ j \in DOMAIN Tail(q) /\ j \in Int /\ j + 1 \in DOMAIN q
          /\ j + 1 # 1 /\ q[j + 1].body = "event" /\ (j + 1) - 1 = j
          /\ j >= 1
      BY <1>1 DEF Awaiting
    <3>2. ASSUME NEW i \in DOMAIN q, j + 1 < i PROVE q[i].tag # "add"
      <4>1. i - 1 \in DOMAIN Tail(q) /\ j < i - 1 /\ (i - 1) + 1 = i
        BY <1>1, <3>1, <3>2
      <4>2. Tail(q)[i - 1] = q[i]
        BY <1>1, <4>1
      <4> QED
        BY <4>1, <4>2 DEF Awaiting
    <3> QED
      BY <3>1, <3>2 DEF Awaiting
  <2>3. shift \in [later -> Awaiting(Tail(q))]
    BY <2>1
  <2>4. \A i, j \in later : shift[i] = shift[j] => i = j
    BY <2>1
  <2>5. \A j \in Awaiting(Tail(q)) : \E i \in later : shift[i] = j
    BY <2>2
  <2> HIDE DEF shift, later
  <2> QED
    BY <2>3, <2>4, <2>5 DEF Bijection, Injection, Surjection, IsInjective
<1>3. IsFiniteSet(later) /\ Cardinality(later) = Cardinality(Awaiting(Tail(q)))
  <2>1. IsFiniteSet(Awaiting(q)) /\ IsFiniteSet(later)
    BY AwaitingIsFinite, FS_RemoveElement
  <2>2. ExistsBijection(later, Awaiting(Tail(q)))
    BY <1>2 DEF ExistsBijection
  <2> QED
    BY <2>1, <2>2, FS_Bijection
<1>4. CASE 1 \in Awaiting(q)
  <2>1. Cardinality(later) = Cardinality(Awaiting(q)) - 1
    BY <1>4, AwaitingIsFinite, FS_RemoveElement
  <2> QED
    BY <1>1, <1>3, <1>4, <2>1, AwaitingIsFinite
<1>5. CASE 1 \notin Awaiting(q)
  <2>1. later = Awaiting(q)
    BY <1>5
  <2> HIDE DEF later
  <2>2. Cardinality(Awaiting(q)) = Cardinality(Awaiting(Tail(q)))
    BY <1>3, <2>1
  <2>3. Cardinality(Awaiting(q)) \in Nat
    BY AwaitingIsFinite
  <2> QED
    BY <1>5, <2>2, <2>3
<1> QED
  BY <1>4, <1>5

\* The mail of the event manager: the request for the handler is there once
\* the supervisor has asked for it; and as long as nothing is spoilt, nobody
\* stops the manager, and stray messages come ahead of that request.
EventMail ==
  /\ \A i \in DOMAIN mailbox :
       mailbox[i].tag = "event" <=> mailbox[i].body = "event"
  /\ adding # "asked" => \A i \in DOMAIN mailbox : mailbox[i].tag # "add"
  /\ adding = "asked" =>
       \E a \in DOMAIN mailbox :
         /\ mailbox[a].tag = "add"
         /\ \A i \in DOMAIN mailbox : mailbox[i].tag = "add" => i = a
  /\ ~spoilt =>
       \A i \in DOMAIN mailbox :
         /\ mailbox[i].body # "stop"
         /\ mailbox[i].tag = "info" /\ adding # "ask" =>
              \E a \in DOMAIN mailbox : i < a /\ mailbox[a].tag = "add"

\* The account of the events, before the handler is there and after.
Account ==
  /\ reported + data + Cardinality(Pending) <= made
  /\ ~spoilt => /\ reported + data + Cardinality(Pending) = made
                /\ adding = "done" => Installed
  /\ adding # "done" => name = "none" /\ data = 0 /\ reported = 0
  /\ adding = "ask" => made = 0
  /\ node = "down" => adding = "ask"

CountInv ==
  /\ app # "fsm" => \A l \in Listener : listener[l].inbox = <<>>
  /\ app = "event" => EventMail /\ Account

\* A message that is no request for the handler comes last.
LEMMA PostedMail ==
  ASSUME TypeInv, EventMail, NEW m \in MailMessage,
         mailbox' = Append(mailbox, m), adding' = adding,
         ~spoilt' => ~spoilt, m.tag # "add",
         m.tag = "event" <=> m.body = "event",
         ~spoilt' => m.body # "stop" /\ (m.tag = "info" => adding = "ask")
  PROVE  EventMail'
<1>1. /\ mailbox \in Seq(MailMessage)
      /\ DOMAIN mailbox' = DOMAIN mailbox \cup {Len(mailbox) + 1}
      /\ mailbox'[Len(mailbox) + 1] = m
      /\ \A i \in DOMAIN mailbox : mailbox'[i] = mailbox[i]
  BY Appending DEF TypeInv, TypeOK
<1> QED
  BY <1>1 DEF EventMail

\* The request for the handler comes after what was sent before.
LEMMA AskedMail ==
  ASSUME TypeInv, EventMail, NEW m \in MailMessage,
         mailbox' = Append(mailbox, m), adding = "ask", adding' = "asked",
         spoilt' = spoilt, m.tag = "add", m.body = "add_handler"
  PROVE  EventMail'
<1>1. /\ mailbox \in Seq(MailMessage)
      /\ DOMAIN mailbox' = DOMAIN mailbox \cup {Len(mailbox) + 1}
      /\ mailbox'[Len(mailbox) + 1] = m
      /\ \A i \in DOMAIN mailbox :
           mailbox'[i] = mailbox[i] /\ i < Len(mailbox) + 1
  <2>1. mailbox \in Seq(MailMessage)
    BY DEF TypeInv, TypeOK
  <2>2. \A i \in DOMAIN mailbox : i < Len(mailbox) + 1
    BY <2>1
  <2> QED
    BY <2>1, <2>2, Appending
<1> QED
  BY <1>1 DEF EventMail

\* The messages after the first move up.
LEMMA TakenMail ==
  ASSUME TypeInv, EventMail, Takes, spoilt' = spoilt,
         IF Message.tag = "add" THEN adding' = "done" ELSE adding' = adding
  PROVE  EventMail'
<1>1. /\ mailbox \in Seq(MailMessage) /\ Message = mailbox[1]
      /\ 1 \in DOMAIN mailbox
      /\ \A i \in DOMAIN mailbox' :
           /\ i + 1 \in DOMAIN mailbox /\ i + 1 # 1
           /\ mailbox'[i] = mailbox[i + 1]
      /\ \A i \in DOMAIN mailbox :
           i # 1 => i - 1 \in DOMAIN mailbox' /\ mailbox'[i - 1] = mailbox[i]
      /\ DOMAIN mailbox \subseteq Int /\ DOMAIN mailbox' \subseteq Int
  BY DEF TypeInv, TypeOK, Takes, Message
<1>2. \A i \in DOMAIN mailbox' :
        mailbox'[i].tag = "event" <=> mailbox'[i].body = "event"
  BY <1>1 DEF EventMail
<1>3. CASE Message.tag = "add"
  <2>1. \A i \in DOMAIN mailbox' : mailbox'[i].tag # "add"
    BY <1>1, <1>3 DEF EventMail
  <2>2. adding = "asked" /\ adding' = "done"
    BY <1>1, <1>3 DEF EventMail
  <2>3. ASSUME ~spoilt, NEW i \in DOMAIN mailbox'
        PROVE  mailbox'[i].body # "stop" /\ mailbox'[i].tag # "info"
    <3>1. ASSUME mailbox[i + 1].tag = "info" PROVE FALSE
      <4>1. PICK a \in DOMAIN mailbox : i + 1 < a /\ mailbox[a].tag = "add"
        BY <1>1, <2>2, <2>3, <3>1 DEF EventMail
      <4>2. a = 1
        BY <1>1, <1>3, <2>2, <4>1 DEF EventMail
      <4>3. i \in 1..Len(mailbox')
        BY <1>1 DEF Takes
      <4> QED
        BY <4>1, <4>2, <4>3
    <3>2. i + 1 \in DOMAIN mailbox /\ mailbox'[i] = mailbox[i + 1]
      BY <1>1
    <3>3. mailbox[i + 1].body # "stop"
      BY <2>3, <3>2 DEF EventMail
    <3> QED
      BY <3>1, <3>2, <3>3
  <2> QED
    BY <1>2, <2>1, <2>2, <2>3 DEF EventMail
<1>4. CASE Message.tag # "add"
  <2>1. adding' # "asked" => \A i \in DOMAIN mailbox' : mailbox'[i].tag # "add"
    BY <1>1, <1>4 DEF EventMail
  <2>2. ASSUME adding' = "asked"
        PROVE  \E a \in DOMAIN mailbox' :
                 /\ mailbox'[a].tag = "add"
                 /\ \A i \in DOMAIN mailbox' : mailbox'[i].tag = "add" => i = a
    <3>1. PICK a \in DOMAIN mailbox :
            /\ mailbox[a].tag = "add"
            /\ \A i \in DOMAIN mailbox : mailbox[i].tag = "add" => i = a
      BY <1>4, <2>2 DEF EventMail
    <3>2. a # 1 /\ a - 1 \in DOMAIN mailbox' /\ mailbox'[a - 1] = mailbox[a]
      BY <1>1, <1>4, <3>1
    <3>3. ASSUME NEW i \in DOMAIN mailbox', mailbox'[i].tag = "add"
          PROVE  i = a - 1
      <4>1. i + 1 \in DOMAIN mailbox /\ mailbox[i + 1].tag = "add"
        BY <1>1, <3>3
      <4>2. i + 1 = a
        BY <3>1, <4>1
      <4>3. i \in Int /\ a \in Int
        BY <1>1
      <4> QED
        BY <4>2, <4>3
    <3> QED
      BY <3>1, <3>2, <3>3
  <2>3. ASSUME ~spoilt, NEW i \in DOMAIN mailbox'
        PROVE  /\ mailbox'[i].body # "stop"
               /\ mailbox'[i].tag = "info" /\ adding' # "ask" =>
                    \E a \in DOMAIN mailbox' : i < a /\ mailbox'[a].tag = "add"
    <3>1. mailbox'[i].body # "stop"
      BY <1>1, <2>3 DEF EventMail
    <3>2. ASSUME mailbox'[i].tag = "info", adding' # "ask"
          PROVE  \E a \in DOMAIN mailbox' : i < a /\ mailbox'[a].tag = "add"
      <4>1. PICK a \in DOMAIN mailbox : i + 1 < a /\ mailbox[a].tag = "add"
        BY <1>1, <1>4, <2>3, <3>2 DEF EventMail
      <4>2. a # 1 /\ i < a - 1
        BY <1>1, <1>4, <4>1
      <4> QED
        BY <1>1, <4>1, <4>2
    <3> QED
      BY <3>1, <3>2
  <2> QED
    BY <1>2, <1>4, <2>1, <2>2, <2>3 DEF EventMail
<1> QED
  BY <1>3, <1>4

\* Events are reported, counted, awaited, or lost before the handler was
\* asked for and after it was removed.
LEMMA CountStep == TypeInv /\ CountInv /\ [Next]_vars => CountInv'
<1> SUFFICES ASSUME TypeInv, CountInv, [Next]_vars PROVE CountInv'
  OBVIOUS
<1>t. /\ mailbox \in Seq(MailMessage) /\ made \in Nat /\ reported \in Nat
      /\ app = "event" => data \in Nat
      /\ Cardinality(Awaiting(mailbox)) \in Nat
      /\ spoilt \in BOOLEAN /\ adding \in {"ask", "asked", "done"}
  BY AwaitingIsFinite DEF TypeInv, TypeOK
<1>1. app' = app
  BY DEF vars, Next, Call, Notify, Stray, Misdial, Sends, WaitCall,
     ProcessStep, Calm, q0, q1, q2, handle_other, NoClause, wait, call, talk,
     Unexpected, add_handler, init, handle_event, handle_request,
     handle_info, stop, handle_call, handle_stray, Bits, Handles, Becomes,
     Keeps, Crash
<1>2. app # "fsm" => \A l \in Listener : listener'[l].inbox = <<>>
  <2> SUFFICES ASSUME app # "fsm" PROVE UNCHANGED listener
    BY DEF CountInv
  <2>1. ASSUME NEW l \in Listener PROVE ~WaitCall(l)
    BY DEF WaitCall, CountInv
  <2> QED
    BY <2>1 DEF vars, Next, Call, Notify, Stray, Misdial, Sends, ProcessStep,
       Calm, q0, q1, q2, handle_other, NoClause, wait, call, talk, Unexpected,
       add_handler, init, handle_event, handle_request, handle_info, stop,
       handle_call, handle_stray, Bits, Handles, phones
<1>3. CASE app # "event"
  BY <1>1, <1>2, <1>3 DEF CountInv
<1>4. CASE app = "event"
  <2> SUFFICES EventMail' /\ Account'
    BY <1>1, <1>2 DEF CountInv
  <2> USE <1>4
  <2>0. EventMail /\ Account /\ data \in Nat
    BY <1>t DEF CountInv
  <2>i. Installed <=> name = "handler"
    BY DEF Installed
  <2>u. adding # "ask" => node # "down"
    BY <2>0 DEF Account
  <2>m. ASSUME Takes, adding # "ask"
        PROVE  Cardinality(Awaiting(mailbox)) =
                 Cardinality(Awaiting(mailbox'))
                 + IF 1 \in Awaiting(mailbox) THEN 1 ELSE 0
    BY <1>t, <2>m, OneEventLess DEF Takes
  <2>h. ASSUME Takes
        PROVE  /\ Message = mailbox[1] /\ 1 \in DOMAIN mailbox
               /\ Message.tag = "event" <=> Message.body = "event"
               /\ mailbox' \in Seq(MailMessage)
               /\ Cardinality(Awaiting(mailbox')) \in Nat
    BY <1>t, <2>0, <2>h, Taking, AwaitingIsFinite DEF Takes, Message, EventMail
  <2>1. ASSUME NEW p \in Process, Call(p) PROVE EventMail' /\ Account'
    <3>1. PICK body \in {"request", "stop"} :
            /\ mailbox' = Append(mailbox, [tag |-> "call", from |-> p,
                                           body |-> body, to |-> Nothing])
            /\ spoilt' = (spoilt \/ body = "stop")
      BY <2>1 DEF Call, Requests, Sends, Posted
    <3> DEFINE m == [tag |-> "call", from |-> p, body |-> body, to |-> Nothing]
    <3>2. /\ m \in MailMessage /\ m.body # "event" /\ m.tag = "call"
          /\ ~spoilt' => ~spoilt /\ m.body # "stop"
      BY <3>1 DEF MailMessage, Body
    <3>3. mailbox' = Append(mailbox, m)
      BY <3>1
    <3> HIDE DEF m
    <3>4. UNCHANGED <<node, adding, name, data, made, reported>>
      BY <2>1 DEF Call, Sends, process, supervisor
    <3>5. EventMail'
      BY <2>0, <3>2, <3>3, <3>4, PostedMail
    <3>6. Cardinality(Awaiting(mailbox')) = Cardinality(Awaiting(mailbox))
      BY <1>t, <3>2, <3>3, OneMoreEvent
    <3>7. Cardinality(Pending') = Cardinality(Pending)
      BY <3>4, <3>6 DEF Pending
    <3> QED
      BY <2>0, <3>2, <3>4, <3>5, <3>7 DEF Account, Installed
  <2>2. ASSUME NEW p \in Process, Notify(p) PROVE EventMail' /\ Account'
    <3>1. PICK m \in MailMessage :
            /\ m.body = "event" /\ m.tag = "event"
            /\ mailbox' = IF node = "down" THEN mailbox ELSE Append(mailbox, m)
            /\ made' = IF adding # "ask" THEN made + 1 ELSE made
      <4> DEFINE m == [tag |-> "event", from |-> p, body |-> "event",
                       to |-> Nothing]
      <4>1. Notices = {"event"}
        BY DEF Notices
      <4>2. /\ Posted(m)
            /\ made' = IF adding # "ask" THEN made + 1 ELSE made
        BY <2>2, <4>1 DEF Notify, Sends, UpPhone
      <4>3. m \in MailMessage
        BY DEF MailMessage, Body
      <4> QED
        BY <4>2, <4>3 DEF Posted
    <3>2. UNCHANGED <<node, adding, name, data, reported, spoilt>>
      BY <2>2 DEF Notify, Sends, process, supervisor
    <3>3. EventMail'
      <4>1. CASE node = "down"
        BY <2>0, <3>1, <3>2, <4>1 DEF EventMail
      <4>2. CASE node # "down"
        BY <2>0, <3>1, <3>2, <4>2, PostedMail
      <4> QED
        BY <4>1, <4>2
    <3>4. CASE adding = "ask"
      <4>1. Pending' = {} /\ Pending = {} /\ made' = made
        BY <3>1, <3>2, <3>4 DEF Pending
      <4> QED
        BY <2>0, <3>2, <3>3, <4>1 DEF Account, Installed
    <3>5. CASE adding # "ask"
      <4>1. mailbox' = Append(mailbox, m)
        BY <2>u, <3>1, <3>5
      <4>2. Cardinality(Awaiting(mailbox')) = Cardinality(Awaiting(mailbox)) + 1
        BY <1>t, <3>1, <4>1, OneMoreEvent
      <4>3. Cardinality(Pending') = Cardinality(Pending) + 1 /\ made' = made + 1
        BY <3>1, <3>2, <3>5, <4>2 DEF Pending
      <4>4. Cardinality(Pending) \in Nat
        BY <1>t, <3>5 DEF Pending
      <4>5. reported' + data' + Cardinality(Pending') <= made'
        BY <1>t, <2>0, <3>2, <4>3, <4>4 DEF Account
      <4>6. ~spoilt' => reported' + data' + Cardinality(Pending') = made'
        BY <1>t, <2>0, <3>2, <4>3, <4>4 DEF Account
      <4> QED
        BY <2>0, <3>2, <3>3, <3>5, <4>5, <4>6 DEF Account, Installed
    <3> QED
      BY <3>4, <3>5
  <2>3. ASSUME NEW p \in Process, Stray(p) PROVE EventMail' /\ Account'
    <3>1. PICK m \in MailMessage :
            /\ m.tag = "info" /\ m.body = "stray"
            /\ mailbox' = IF node = "down" THEN mailbox ELSE Append(mailbox, m)
      BY <2>3 DEF Stray, Sends, Posted, MailMessage, Body, Callee
    <3>2. /\ spoilt' = (spoilt \/ adding # "ask")
          /\ UNCHANGED <<node, adding, name, data, made, reported>>
      BY <2>3 DEF Stray, Sends, process, supervisor
    <3>3. CASE node = "down"
      BY <2>0, <2>u, <3>1, <3>2, <3>3 DEF EventMail, Account, Pending, Installed
    <3>4. CASE node # "down"
      <4>1. EventMail'
        BY <2>0, <3>1, <3>2, <3>4, PostedMail
      <4>2. Cardinality(Awaiting(mailbox')) = Cardinality(Awaiting(mailbox))
        BY <1>t, <3>1, <3>4, OneMoreEvent
      <4>3. Cardinality(Pending') = Cardinality(Pending)
        BY <3>2, <4>2 DEF Pending
      <4> QED
        BY <2>0, <3>2, <4>1, <4>3 DEF Account, Installed
    <3> QED
      BY <3>3, <3>4
  <2>4. ASSUME NEW l \in Listener PROVE ~WaitCall(l)
    BY DEF WaitCall, CountInv
  <2>5. CASE handle_event
    <3>1. /\ Takes /\ Message.tag = "event" /\ name' = name
          /\ data' = (IF name = "handler" THEN data + 1 ELSE data)
          /\ UNCHANGED <<node, adding, made, reported, spoilt>>
      BY <2>5 DEF handle_event, Handles, Takes, Becomes, Installed, books,
         supervisor
    <3>2. EventMail'
      BY <2>0, <3>1, TakenMail
    <3>3. CASE adding = "ask"
      BY <2>0, <3>1, <3>2, <3>3 DEF Account, Pending, Installed
    <3>4. CASE adding = "asked"
      <4>1. 1 \notin Awaiting(mailbox)
        <5>1. PICK a \in DOMAIN mailbox : mailbox[a].tag = "add"
          BY <2>0, <3>4 DEF EventMail
        <5>2. a > 1
          BY <1>t, <2>h, <3>1, <5>1
        <5> QED
          BY <5>1, <5>2 DEF Awaiting
      <4> QED
        BY <1>t, <2>0, <2>m, <2>h, <3>1, <3>2, <3>4, <4>1
           DEF Account, Pending, Installed
    <3>5. CASE adding = "done"
      <4>1. 1 \in Awaiting(mailbox)
        BY <2>0, <2>h, <3>1, <3>5 DEF EventMail, Awaiting
      <4> QED
        BY <1>t, <2>0, <2>m, <2>h, <3>1, <3>2, <3>5, <4>1
           DEF Account, Pending, Installed
    <3> QED
      BY <1>t, <3>3, <3>4, <3>5
  <2>6. CASE handle_request \/ handle_info \/ init
    <3>1. Takes /\ Message.tag # "event"
      BY <2>6 DEF handle_request, handle_info, init, Handles, Takes, Becomes
    <3>2. 1 \notin Awaiting(mailbox)
      BY <2>h, <3>1 DEF Awaiting
    <3>3. CASE handle_request
      <4>1. /\ Message.tag = "call" /\ name' = name /\ data' = 0
            /\ reported' = (IF name = "handler" THEN reported + data
                                                ELSE reported)
            /\ UNCHANGED <<node, adding, made, spoilt>>
        BY <3>3 DEF handle_request, Becomes, Installed, supervisor
      <4>2. EventMail'
        BY <2>0, <3>1, <4>1, TakenMail
      <4> QED
        BY <1>t, <2>0, <2>m, <2>h, <3>1, <3>2, <4>1, <4>2
           DEF Account, Pending, Installed
    <3>4. CASE handle_info
      <4>1. /\ Message.tag = "info" /\ name' = "none" /\ data' = 0
            /\ UNCHANGED <<node, adding, made, reported, spoilt>>
        BY <3>4 DEF handle_info, Becomes, supervisor, books
      <4>2. EventMail'
        BY <2>0, <3>1, <4>1, TakenMail
      <4>3. adding = "done" => spoilt
        BY <2>0, <2>h, <3>1, <4>1 DEF EventMail
      <4> QED
        BY <1>t, <2>0, <2>m, <2>h, <3>1, <3>2, <4>1, <4>2, <4>3
           DEF Account, Pending, Installed
    <3>5. CASE init
      <4>1. /\ Message.tag = "add" /\ name' = "handler" /\ data' = 0
            /\ adding' = "done" /\ node' = "up"
            /\ UNCHANGED <<made, reported, spoilt>>
        BY <3>5 DEF init, books
      <4>2. EventMail'
        BY <2>0, <3>1, <4>1, TakenMail
      <4>3. adding = "asked"
        BY <2>0, <2>h, <3>1, <4>1 DEF EventMail
      <4> QED
        BY <1>t, <2>0, <2>m, <2>h, <3>1, <3>2, <4>1, <4>2, <4>3
           DEF Account, Pending, Installed
    <3> QED
      BY <2>6, <3>3, <3>4, <3>5
  <2>7. CASE stop
    <3>1. /\ mailbox' = <<>> /\ name' = "none" /\ data' = 0 /\ adding' = "ask"
          /\ made' = 0 /\ reported' = 0
      BY <2>7 DEF stop, Crash, InitialName, InitialData, InitialAdding
    <3>2. Cardinality(Pending') = 0
      BY <3>1, FS_EmptySet DEF Pending
    <3>3. EventMail'
      BY <3>1 DEF EventMail
    <3> QED
      BY <3>1, <3>2, <3>3 DEF Account
  <2>8. CASE UNCHANGED vars \/ Calm
    <3>1. UNCHANGED <<node, adding, name, data, mailbox, made, reported,
                      spoilt>>
      BY <2>8 DEF vars, Calm, process, books, supervisor
    <3> QED
      BY <2>0, <3>1 DEF EventMail, Account, Pending, Installed
  <2>9. CASE add_handler
    <3> DEFINE m == [tag |-> "add", from |-> Nothing, body |-> "add_handler",
                     to |-> Nothing]
    <3>1. /\ m \in MailMessage /\ m.tag = "add" /\ m.body = "add_handler"
      BY DEF MailMessage, Body
    <3>2. /\ mailbox' = Append(mailbox, m) /\ adding = "ask"
          /\ adding' = "asked" /\ node # "down"
          /\ UNCHANGED <<node, name, data, made, reported, spoilt>>
      BY <2>9 DEF add_handler, Posted, process, books
    <3> HIDE DEF m
    <3>3. EventMail'
      BY <2>0, <3>1, <3>2, AskedMail
    <3>4. Awaiting(mailbox') = {}
      BY <1>t, <3>1, <3>2, NoneAwaited
    <3> QED
      BY <2>0, <3>2, <3>3, <3>4, FS_EmptySet DEF Account, Pending
  <2>10. ~\E p \in Process : Misdial(p)
    BY DEF Misdial
  <2>11. ~(q0 \/ q1 \/ q2 \/ handle_other \/ NoClause \/ wait \/ call \/ talk
           \/ Unexpected \/ handle_call \/ handle_stray)
    BY DEF q0, q1, q2, Bits, handle_other, NoClause, wait, call, talk,
       Unexpected, handle_call, handle_stray, Handles
  <2> QED
    BY <2>1, <2>2, <2>3, <2>4, <2>5, <2>6, <2>7, <2>8, <2>9, <2>10, <2>11
       DEF Next, ProcessStep
<1> QED
  BY <1>3, <1>4

\* In each life of ge_main, whatever is sent to it and whoever stops it, an
\* event notified after its handler was asked for is reported once at most;
\* and, while no stray message is sent from then on and nobody stops it, is
\* reported, counted or on its way.
THEOREM EventsAreCountedHolds == Spec => []EventsAreCounted
<1>1. Init => CountInv
  <2> SUFFICES ASSUME Init PROVE CountInv
    OBVIOUS
  <2>1. \A l \in Listener : listener[l].inbox = <<>>
    BY DEF Init
  <2>2. app = "event" => /\ name = "none" /\ data = 0 /\ adding = "ask"
                         /\ made = 0 /\ reported = 0
    BY DEF Init, InitialName, InitialData, InitialAdding
  <2>3. mailbox = <<>>
    BY DEF Init
  <2>4. app = "event" => EventMail
    BY <2>2, <2>3 DEF EventMail
  <2>5. app = "event" => Cardinality(Pending) = 0
    BY <2>2, FS_EmptySet DEF Pending
  <2>6. app = "event" => Account
    BY <2>2, <2>5 DEF Account
  <2> QED
    BY <2>1, <2>4, <2>6 DEF CountInv
<1>2. CountInv => EventsAreCounted
  BY DEF CountInv, Account, EventsAreCounted
<1> QED
  BY <1>1, <1>2, TypeInvHolds, CountStep, PTL DEF Spec
=============================================================================
