--------------------------- MODULE TerminalProofs ---------------------------
(***************************************************************************)
(* Theorems about the two programs a user drives from the terminal, the    *)
(* command interpreter of lesson 20 and the file manager: for any lines    *)
(* and any number of commands, and for any directories, files and texts.   *)
(***************************************************************************)
EXTENDS Pipeline, FileManager, FiniteSetTheorems, TLAPS

----------------------------------------------------------------------------
(* Pipelines: the ranges of the variables.                                 *)

Kind == {"source", "filter", "head"}
Text == Nat \X Nat
Descriptors == SUBSET (Nat \X {"r", "w"})
Process ==
  [kind : Kind, line : Nat, ser : Nat \ {0},
   pipes : Seq(Nat \ {0}) \cup {NoPipes}, fds : Descriptors,
   in : Nat, out : Nat,
   state : {"forked", "running", "zombie", "reaped"},
   count : Nat, hold : Text \cup {NoLine}]

PipeTypeOK ==
  /\ shell \in {"prompt", "pipes", "fork", "wait", "exited", "crashed"}
  /\ typed \in Nat /\ ser \in Nat \ {0}
  /\ cmd \in Seq(Kind) /\ Len(cmd) <= UINT_RANGE
  /\ pipe_fd \in Seq(Nat \ {0}) \cup {NoPipes}
  /\ content \in Seq(Seq(Text))
  /\ shellFd \subseteq (DOMAIN content) \X {"r", "w"}
  /\ proc \in Seq(Process)
  /\ terminal \in Seq(Text)

\* Pipes that are there, each at one place.
Wired(pipes) ==
  /\ \A i \in DOMAIN pipes : pipes[i] \in DOMAIN content
  /\ \A i, j \in DOMAIN pipes : pipes[i] = pipes[j] => i = j

Apart(s, t) == \A i \in DOMAIN s, j \in DOMAIN t : s[i] # t[j]

\* Commands of one line share their pipes, commands of two lines none, and a
\* line has one command of each number.
Siblings(p, q) ==
  IF p.line = q.line THEN p.pipes = q.pipes /\ p.ser # q.ser
  ELSE p.pipes # NoPipes /\ q.pipes # NoPipes => Apart(p.pipes, q.pipes)

LineInv ==
  /\ \A p, q \in DOMAIN proc : p # q => Siblings(proc[p], proc[q])
  /\ \A p \in DOMAIN proc :
       /\ proc[p].line <= typed
       /\ shell = "pipes" => proc[p].line < typed
       /\ proc[p].pipes # NoPipes =>
            /\ Wired(proc[p].pipes) /\ proc[p].ser <= Len(proc[p].pipes) + 1
  /\ shell \in {"fork", "wait"} =>
       /\ \A p \in DOMAIN proc :
            IF proc[p].line = typed
            THEN /\ proc[p].pipes = pipe_fd
                 /\ proc[p].ser < ser \/ (shell = "wait" /\ proc[p].ser = ser)
            ELSE pipe_fd # NoPipes /\ proc[p].pipes # NoPipes =>
                   Apart(pipe_fd, proc[p].pipes)
       /\ pipe_fd # NoPipes =>
            /\ Wired(pipe_fd) /\ Len(cmd) <= Len(pipe_fd) + 1
            /\ \A i \in DOMAIN pipe_fd : Ends(pipe_fd[i]) \subseteq shellFd

Own(p) == UNION {Ends(p.pipes[i]) : i \in DOMAIN p.pipes}

\* What the bridge of a process makes of its descriptors, and that what it
\* read and has not written is its next line.
Bridged(p) ==
  /\ p.state = "forked" =>
       /\ p.count = 0 /\ p.hold = NoLine
       /\ p.pipes # NoPipes => Own(p) \subseteq p.fds
  /\ p.state = "running" =>
       /\ p.pipes # NoPipes /\ p.in = Input(p) /\ p.out = Output(p)
       /\ p.fds \cap Own(p) = Own(p) \ Closed(p)
  /\ p.hold # NoLine => p.kind # "source" /\ p.hold = <<p.line, p.count + 1>>

BridgeInv == \A p \in DOMAIN proc : Bridged(proc[p])

\* Of what process k is one of the pipes, which reads from it and writes to
\* it, and which writes to the terminal.
HasPipe(p, k) == p.pipes # NoPipes /\ \E i \in DOMAIN p.pipes : p.pipes[i] = k
Reads(p, k)  == p.pipes # NoPipes /\ p.ser # 1 /\ p.pipes[p.ser - 1] = k
Writes(p, k) ==
  p.pipes # NoPipes /\ p.ser \in DOMAIN p.pipes /\ p.pipes[p.ser] = k
Shows(p) == p.pipes # NoPipes /\ p.ser = Len(p.pipes) + 1

\* How many lines a process has read.
Got(p) == IF p.kind = "source" THEN 0
          ELSE IF p.hold = NoLine THEN p.count ELSE p.count + 1

\* How many lines were read from pipe k, and how many written to it.
Taken(ps, k) ==
  LET reader == {p \in DOMAIN ps : Reads(ps[p], k)}
  IN  IF reader = {} THEN 0 ELSE Got(ps[CHOOSE p \in reader : TRUE])
Given(ps, k) ==
  LET writer == {p \in DOMAIN ps : Writes(ps[p], k)}
  IN  IF writer = {} THEN 0 ELSE ps[CHOOSE p \in writer : TRUE].count

FlowInv ==
  \A k \in DOMAIN content :
    /\ Given(proc, k) = Taken(proc, k) + Len(content[k])
    /\ \A i \in DOMAIN content[k] :
         /\ content[k][i][2] = Taken(proc, k) + i
         /\ \A p \in DOMAIN proc : HasPipe(proc[p], k) =>
              content[k][i][1] = proc[p].line

TerminalInv ==
  /\ TextInOrder
  /\ \A i \in DOMAIN terminal : \E p \in DOMAIN proc :
       Shows(proc[p]) /\ terminal[i][1] = proc[p].line
  /\ \A p \in DOMAIN proc : Shows(proc[p]) =>
       Cardinality({i \in DOMAIN terminal : terminal[i][1] = proc[p].line})
         = proc[p].count

----------------------------------------------------------------------------
\* Of a process only its descriptors, its state and its count ever change,
\* and the line it holds.
SameCommand(p, q) ==
  /\ p.kind = q.kind /\ p.line = q.line /\ p.ser = q.ser
  /\ p.pipes = q.pipes

\* A process is changed, the others are not.
Only(p) ==
  /\ proc' \in Seq(Process) /\ DOMAIN proc' = DOMAIN proc
  /\ SameCommand(proc'[p], proc[p])
  /\ \A q \in DOMAIN proc : q # p => proc'[q] = proc[q]

\* What a command does changes its own entry only.
LEMMA ChangeOne ==
  ASSUME PipeTypeOK, NEW p \in DOMAIN proc, NEW r \in Process,
         SameCommand(r, proc[p]), proc' = [proc EXCEPT ![p] = r]
  PROVE  Only(p) /\ proc'[p] = r
BY DEF PipeTypeOK, Only

\* The ranges of a command.
LEMMA ProcessRange ==
  ASSUME PipeTypeOK, NEW p \in DOMAIN proc
  PROVE  /\ proc[p] \in Process /\ p \in Nat \ {0}
         /\ proc[p].pipes \in Seq(Nat \ {0}) \cup {NoPipes}
<1>1. proc[p] \in Process /\ p \in Nat \ {0}
  BY DEF PipeTypeOK
<1> QED
  BY <1>1 DEF Process

\* Where a running process reads and writes.
LEMMA Running ==
  ASSUME PipeTypeOK, LineInv, NEW p \in DOMAIN proc,
         proc[p].pipes # NoPipes
  PROVE  /\ proc[p] \in Process
         /\ proc[p].pipes \in Seq(Nat \ {0}) /\ Wired(proc[p].pipes)
         /\ proc[p].ser \in 1..(Len(proc[p].pipes) + 1)
         /\ \/ Input(proc[p]) = Terminal /\ proc[p].ser = 1
            \/ /\ proc[p].ser # 1
               /\ proc[p].ser - 1 \in DOMAIN proc[p].pipes
               /\ Input(proc[p]) = proc[p].pipes[proc[p].ser - 1]
               /\ Input(proc[p]) \in DOMAIN content /\ Input(proc[p]) # Terminal
         /\ \/ Output(proc[p]) = Terminal /\ Shows(proc[p])
            \/ /\ proc[p].ser \in DOMAIN proc[p].pipes
               /\ Output(proc[p]) = proc[p].pipes[proc[p].ser]
               /\ Output(proc[p]) \in DOMAIN content
               /\ Output(proc[p]) # Terminal /\ ~Shows(proc[p])
         /\ Input(proc[p]) \in Nat /\ Output(proc[p]) \in Nat
<1> DEFINE P == proc[p]
<1>1. P \in Process /\ P.pipes \in Seq(Nat \ {0}) /\ Wired(P.pipes)
  BY ProcessRange DEF LineInv
<1>2. P.ser \in Nat \ {0} /\ P.ser <= Len(P.pipes) + 1
  BY <1>1 DEF Process, LineInv
<1> HIDE DEF P
<1>3. \A i \in DOMAIN P.pipes : P.pipes[i] \in DOMAIN content /\ P.pipes[i] # 0
                               /\ P.pipes[i] \in Nat
  BY <1>1 DEF Wired
<1>4. DOMAIN P.pipes = 1..Len(P.pipes) /\ Len(P.pipes) \in Nat
  BY <1>1
<1>5. P.ser # 1 => P.ser - 1 \in DOMAIN P.pipes
  BY <1>2, <1>4
<1>6. P.ser # Len(P.pipes) + 1 => P.ser \in DOMAIN P.pipes
  BY <1>2, <1>4
<1>7. P.ser = Len(P.pipes) + 1 => P.ser \notin DOMAIN P.pipes
  BY <1>2, <1>4
<1>8. /\ \/ Input(P) = Terminal /\ P.ser = 1
         \/ /\ P.ser # 1 /\ P.ser - 1 \in DOMAIN P.pipes
            /\ Input(P) = P.pipes[P.ser - 1]
            /\ Input(P) \in DOMAIN content /\ Input(P) # Terminal
      /\ Input(P) \in Nat
  BY <1>3, <1>5 DEF Input, Terminal
<1>9. /\ \/ Output(P) = Terminal /\ Shows(P)
         \/ /\ P.ser \in DOMAIN P.pipes /\ Output(P) = P.pipes[P.ser]
            /\ Output(P) \in DOMAIN content /\ Output(P) # Terminal
            /\ ~Shows(P)
      /\ Output(P) \in Nat
  <2>1. P.pipes # NoPipes
    BY DEF P
  <2> QED
    BY <1>3, <1>6, <1>7, <2>1 DEF Output, Terminal, Shows
<1> QED
  BY <1>1, <1>2, <1>4, <1>8, <1>9 DEF P

\* What the actions of a process do to it.
LEMMA BridgeEffect ==
  ASSUME PipeTypeOK, LineInv, BridgeInv, NEW p \in DOMAIN proc,
         MakePipeBridge(p)
  PROVE  /\ Only(p)
         /\ proc'[p].state = "running" /\ proc'[p].pipes # NoPipes
         /\ proc'[p].fds = proc[p].fds \ Closed(proc[p])
         /\ proc'[p].in = Input(proc[p]) /\ proc'[p].out = Output(proc[p])
         /\ UNCHANGED <<proc[p].count, proc[p].hold>>
<1> DEFINE r == [proc[p] EXCEPT !.fds = proc[p].fds \ Closed(proc[p]),
                                !.in = Input(proc[p]),
                                !.out = Output(proc[p]),
                                !.state = "running"]
<1>1. proc[p] \in Process /\ proc[p].pipes # NoPipes
  BY ProcessRange DEF MakePipeBridge
<1>2. Input(proc[p]) \in Nat /\ Output(proc[p]) \in Nat
  BY <1>1, Running
<1>3. r \in Process /\ SameCommand(r, proc[p])
  <2>1. proc[p].fds \ Closed(proc[p]) \in Descriptors
    BY <1>1 DEF Process, Descriptors
  <2>2. ASSUME NEW q \in Process, NEW f \in Descriptors, NEW i \in Nat,
               NEW o \in Nat
        PROVE  /\ [q EXCEPT !.fds = f, !.in = i, !.out = o,
                            !.state = "running"] \in Process
               /\ SameCommand([q EXCEPT !.fds = f, !.in = i, !.out = o,
                                        !.state = "running"], q)
    BY <2>2 DEF Process, SameCommand
  <2> QED
    BY <1>1, <1>2, <2>1, <2>2, Zenon
<1>4. proc' = [proc EXCEPT ![p] = r]
  BY DEF MakePipeBridge
<1>5. /\ r.state = "running" /\ r.fds = proc[p].fds \ Closed(proc[p])
      /\ r.in = Input(proc[p]) /\ r.out = Output(proc[p])
      /\ r.count = proc[p].count /\ r.hold = proc[p].hold
      /\ r.pipes = proc[p].pipes
  BY <1>1 DEF Process
<1> HIDE DEF r
<1> QED
  BY <1>1, <1>3, <1>4, <1>5, ChangeOne

\* A command that ends leaves what it has written and read.
LEMMA EndEffect ==
  ASSUME PipeTypeOK, NEW p \in DOMAIN proc,
         BridgeFails(p) \/ WriteFails(p) \/ End(p)
  PROVE  /\ Only(p) /\ proc'[p].state = "zombie"
         /\ UNCHANGED <<proc[p].count, proc[p].hold>>
<1> DEFINE r == Ended(proc[p])
<1>1. proc[p] \in Process
  BY ProcessRange
<1>2. r \in Process /\ SameCommand(r, proc[p])
  BY <1>1 DEF Process, SameCommand, Ended, Descriptors
<1>3. proc' = [proc EXCEPT ![p] = r]
  BY DEF BridgeFails, WriteFails, End
<1>4. r.state = "zombie" /\ r.count = proc[p].count /\ r.hold = proc[p].hold
  BY <1>1 DEF Process, Ended
<1> HIDE DEF r
<1> QED
  BY <1>2, <1>3, <1>4, ChangeOne

\* A command that writes has nothing to pass on then, and one line more.
LEMMA WriteEffect ==
  ASSUME PipeTypeOK, LineInv, BridgeInv, NEW p \in DOMAIN proc, WriteLine(p)
  PROVE  /\ Only(p)
         /\ proc'[p].count = proc[p].count + 1 /\ proc'[p].hold = NoLine
         /\ UNCHANGED <<proc[p].in, proc[p].out, proc[p].state, proc[p].fds>>
         /\ Got(proc'[p]) = Got(proc[p])
         /\ NextLine(p) = <<proc[p].line, proc[p].count + 1>>
         /\ NextLine(p) \in Text
<1> DEFINE r == [proc[p] EXCEPT !.count = proc[p].count + 1, !.hold = NoLine]
<1>1. proc[p] \in Process /\ proc[p].state = "running"
  BY ProcessRange DEF WriteLine, Writing
<1>2. r \in Process /\ SameCommand(r, proc[p])
  <2>1. proc[p].count + 1 \in Nat
    BY <1>1 DEF Process
  <2>2. ASSUME NEW q \in Process, NEW n \in Nat
        PROVE  /\ [q EXCEPT !.count = n, !.hold = NoLine] \in Process
               /\ SameCommand([q EXCEPT !.count = n, !.hold = NoLine], q)
    BY DEF Process, SameCommand
  <2> QED
    BY <1>1, <2>1, <2>2, Zenon
<1>3. proc' = [proc EXCEPT ![p] = r]
  BY DEF WriteLine
<1>4. /\ r.count = proc[p].count + 1 /\ r.hold = NoLine
      /\ r.in = proc[p].in /\ r.out = proc[p].out /\ r.state = proc[p].state
      /\ r.fds = proc[p].fds /\ r.kind = proc[p].kind
  BY <1>1 DEF Process
<1> HIDE DEF r
<1>5. Got(r) = Got(proc[p])
  BY <1>4 DEF WriteLine, Writing, Got
<1>6. NextLine(p) = <<proc[p].line, proc[p].count + 1>>
  BY DEF WriteLine, Writing, NextLine, BridgeInv, Bridged
<1>7. NextLine(p) \in Text
  BY <1>1, <1>6 DEF Process, Text
<1> QED
  BY <1>2, <1>3, <1>4, <1>5, <1>6, <1>7, ChangeOne

\* A pipe is of one line, has one reader and one writer, and a line has one
\* command that writes to the terminal.
LEMMA SameRoles ==
  ASSUME NEW p, NEW q, SameCommand(p, q)
  PROVE  /\ Shows(p) <=> Shows(q)
         /\ \A k : HasPipe(p, k) <=> HasPipe(q, k)
         /\ \A k : Reads(p, k) <=> Reads(q, k)
         /\ \A k : Writes(p, k) <=> Writes(q, k)
BY DEF SameCommand, Shows, HasPipe, Reads, Writes

\* A pipe has one reader and one writer, and a line one last command.
LEMMA Roles ==
  ASSUME PipeTypeOK, LineInv, NEW p \in DOMAIN proc, NEW q \in DOMAIN proc,
         NEW k
  PROVE  /\ Reads(proc[p], k) \/ Writes(proc[p], k) => HasPipe(proc[p], k)
         /\ HasPipe(proc[p], k) /\ HasPipe(proc[q], k) =>
              proc[p].line = proc[q].line /\ proc[p].pipes = proc[q].pipes
         /\ Reads(proc[p], k) /\ Reads(proc[q], k) => p = q
         /\ Writes(proc[p], k) /\ Writes(proc[q], k) => p = q
         /\ Shows(proc[p]) /\ Shows(proc[q])
              /\ proc[p].line = proc[q].line => p = q
<1>1. ASSUME NEW r \in DOMAIN proc, proc[r].pipes # NoPipes
      PROVE  /\ proc[r].ser \in 1..(Len(proc[r].pipes) + 1)
             /\ DOMAIN proc[r].pipes = 1..Len(proc[r].pipes)
             /\ proc[r].ser # 1 => proc[r].ser - 1 \in DOMAIN proc[r].pipes
             /\ Wired(proc[r].pipes) /\ Len(proc[r].pipes) \in Nat
  <2>1. proc[r].pipes \in Seq(Nat \ {0}) /\ Wired(proc[r].pipes)
        /\ proc[r].ser \in 1..(Len(proc[r].pipes) + 1)
    BY <1>1, Running
  <2> QED
    BY <2>1
<1>2. \A r \in DOMAIN proc :
        Reads(proc[r], k) \/ Writes(proc[r], k) => HasPipe(proc[r], k)
  BY <1>1 DEF Reads, Writes, HasPipe
<1>3. HasPipe(proc[p], k) /\ HasPipe(proc[q], k) =>
        proc[p].line = proc[q].line /\ proc[p].pipes = proc[q].pipes
  BY DEF LineInv, Siblings, HasPipe, Apart
<1>4. HasPipe(proc[p], k) /\ HasPipe(proc[q], k)
        /\ proc[p].ser = proc[q].ser => p = q
  BY <1>3 DEF LineInv, Siblings
<1>5. Reads(proc[p], k) /\ Reads(proc[q], k) => p = q
  <2> SUFFICES ASSUME Reads(proc[p], k), Reads(proc[q], k) PROVE p = q
    OBVIOUS
  <2>1. proc[p].pipes = proc[q].pipes /\ proc[p].pipes # NoPipes
    BY <1>2, <1>3 DEF Reads
  <2>2. proc[p].ser - 1 = proc[q].ser - 1
    BY <1>1, <2>1 DEF Reads, Wired
  <2>3. proc[p].ser = proc[q].ser
    BY <1>1, <2>1, <2>2
  <2> QED
    BY <1>2, <1>4, <2>3
<1>6. Writes(proc[p], k) /\ Writes(proc[q], k) => p = q
  <2> SUFFICES ASSUME Writes(proc[p], k), Writes(proc[q], k) PROVE p = q
    OBVIOUS
  <2>1. proc[p].pipes = proc[q].pipes /\ proc[p].pipes # NoPipes
    BY <1>2, <1>3 DEF Writes
  <2>2. proc[p].ser = proc[q].ser
    BY <1>1, <2>1 DEF Writes, Wired
  <2> QED
    BY <1>2, <1>4, <2>2
<1>7. Shows(proc[p]) /\ Shows(proc[q])
        /\ proc[p].line = proc[q].line => p = q
  BY DEF LineInv, Siblings, Shows
<1> QED
  BY <1>2, <1>3, <1>5, <1>6, <1>7

\* What went through a pipe is what its reader and its writer say.
LEMMA FlowOf ==
  ASSUME NEW ps, NEW k,
         \A p, q \in DOMAIN ps : Reads(ps[p], k) /\ Reads(ps[q], k) => p = q,
         \A p, q \in DOMAIN ps : Writes(ps[p], k) /\ Writes(ps[q], k) => p = q
  PROVE  /\ \A p \in DOMAIN ps : Reads(ps[p], k) => Taken(ps, k) = Got(ps[p])
         /\ (\A p \in DOMAIN ps : ~Reads(ps[p], k)) => Taken(ps, k) = 0
         /\ \A p \in DOMAIN ps : Writes(ps[p], k) => Given(ps, k) = ps[p].count
         /\ (\A p \in DOMAIN ps : ~Writes(ps[p], k)) => Given(ps, k) = 0
<1>1. ASSUME NEW p \in DOMAIN ps, Reads(ps[p], k)
      PROVE  Taken(ps, k) = Got(ps[p])
  <2>1. {q \in DOMAIN ps : Reads(ps[q], k)} = {p}
    BY <1>1
  <2>2. (CHOOSE q \in {p} : TRUE) = p
    OBVIOUS
  <2> QED
    BY <2>1, <2>2 DEF Taken
<1>2. ASSUME NEW p \in DOMAIN ps, Writes(ps[p], k)
      PROVE  Given(ps, k) = ps[p].count
  <2>1. {q \in DOMAIN ps : Writes(ps[q], k)} = {p}
    BY <1>2
  <2>2. (CHOOSE q \in {p} : TRUE) = p
    OBVIOUS
  <2> QED
    BY <2>1, <2>2 DEF Given
<1>3. (\A p \in DOMAIN ps : ~Reads(ps[p], k)) => Taken(ps, k) = 0
  BY DEF Taken
<1>4. (\A p \in DOMAIN ps : ~Writes(ps[p], k)) => Given(ps, k) = 0
  BY DEF Given
<1> QED
  BY <1>1, <1>2, <1>3, <1>4

\* A step of a process counts for the pipes it reads from and writes to.
LEMMA FlowStep ==
  ASSUME PipeTypeOK, LineInv, NEW p \in DOMAIN proc, Only(p), NEW k
  PROVE  /\ Taken(proc', k) =
              IF Reads(proc[p], k) THEN Got(proc'[p]) ELSE Taken(proc, k)
         /\ Given(proc', k) =
              IF Writes(proc[p], k) THEN proc'[p].count ELSE Given(proc, k)
<1>1. /\ DOMAIN proc' = DOMAIN proc
      /\ \A q \in DOMAIN proc : q # p => proc'[q] = proc[q]
  BY DEF Only
<1>2. /\ \A q \in DOMAIN proc : Reads(proc'[q], k) <=> Reads(proc[q], k)
      /\ \A q \in DOMAIN proc : Writes(proc'[q], k) <=> Writes(proc[q], k)
  BY <1>1, SameRoles DEF Only
<1>3. \A q, r \in DOMAIN proc :
        /\ Reads(proc[q], k) /\ Reads(proc[r], k) => q = r
        /\ Writes(proc[q], k) /\ Writes(proc[r], k) => q = r
  BY Roles
<1>4. /\ \A q \in DOMAIN proc :
           Reads(proc[q], k) => Taken(proc, k) = Got(proc[q])
      /\ (\A q \in DOMAIN proc : ~Reads(proc[q], k)) => Taken(proc, k) = 0
      /\ \A q \in DOMAIN proc :
           Writes(proc[q], k) => Given(proc, k) = proc[q].count
      /\ (\A q \in DOMAIN proc : ~Writes(proc[q], k)) => Given(proc, k) = 0
  BY <1>3, FlowOf
<1>5. /\ \A q \in DOMAIN proc :
           Reads(proc[q], k) => Taken(proc', k) = Got(proc'[q])
      /\ (\A q \in DOMAIN proc : ~Reads(proc[q], k)) => Taken(proc', k) = 0
      /\ \A q \in DOMAIN proc :
           Writes(proc[q], k) => Given(proc', k) = proc'[q].count
      /\ (\A q \in DOMAIN proc : ~Writes(proc[q], k)) => Given(proc', k) = 0
  <2>1. \A q, r \in DOMAIN proc' :
          /\ Reads(proc'[q], k) /\ Reads(proc'[r], k) => q = r
          /\ Writes(proc'[q], k) /\ Writes(proc'[r], k) => q = r
    BY <1>1, <1>2, <1>3
  <2>2. /\ \A q \in DOMAIN proc' :
             Reads(proc'[q], k) => Taken(proc', k) = Got(proc'[q])
        /\ (\A q \in DOMAIN proc' : ~Reads(proc'[q], k)) => Taken(proc', k) = 0
        /\ \A q \in DOMAIN proc' :
             Writes(proc'[q], k) => Given(proc', k) = proc'[q].count
        /\ (\A q \in DOMAIN proc' : ~Writes(proc'[q], k)) =>
             Given(proc', k) = 0
    BY <2>1, FlowOf
  <2> QED
    BY <1>1, <1>2, <2>2
<1>6. Taken(proc', k) = IF Reads(proc[p], k) THEN Got(proc'[p])
                                             ELSE Taken(proc, k)
  <2>1. CASE \E q \in DOMAIN proc : Reads(proc[q], k)
    BY <1>1, <1>3, <1>4, <1>5, <2>1
  <2> QED
    BY <1>4, <1>5, <2>1
<1>7. Given(proc', k) = IF Writes(proc[p], k) THEN proc'[p].count
                                              ELSE Given(proc, k)
  <2>1. CASE \E q \in DOMAIN proc : Writes(proc[q], k)
    BY <1>1, <1>3, <1>4, <1>5, <2>1
  <2> QED
    BY <1>4, <1>5, <2>1
<1> QED
  BY <1>6, <1>7

\* What a step of a process keeps: the wiring of the lines always, the flow
\* and the terminal when it moves no text there.
LEMMA LineKept ==
  ASSUME PipeTypeOK, LineInv, NEW p \in DOMAIN proc, Only(p),
         UNCHANGED <<shell, typed, cmd, ser, pipe_fd, shellFd>>,
         DOMAIN content' = DOMAIN content
  PROVE  LineInv'
<1>1. /\ DOMAIN proc' = DOMAIN proc
      /\ \A q \in DOMAIN proc : SameCommand(proc'[q], proc[q])
  BY DEF Only, SameCommand
<1>2. \A q, r \in DOMAIN proc :
        Siblings(proc'[q], proc'[r]) <=> Siblings(proc[q], proc[r])
  BY <1>1 DEF SameCommand, Siblings
<1>3. /\ \A s : Wired(s)' <=> Wired(s)
  BY DEF Wired
<1>4. \A q \in DOMAIN proc :
        /\ proc'[q].line <= typed
        /\ shell = "pipes" => proc'[q].line < typed
        /\ proc'[q].pipes # NoPipes =>
             /\ Wired(proc'[q].pipes)
             /\ proc'[q].ser <= Len(proc'[q].pipes) + 1
  BY <1>1 DEF SameCommand, LineInv
<1>5. shell \in {"fork", "wait"} =>
        \A q \in DOMAIN proc :
            IF proc'[q].line = typed
            THEN /\ proc'[q].pipes = pipe_fd
                 /\ proc'[q].ser < ser \/ (shell = "wait" /\ proc'[q].ser = ser)
            ELSE pipe_fd # NoPipes /\ proc'[q].pipes # NoPipes =>
                   Apart(pipe_fd, proc'[q].pipes)
  BY <1>1 DEF SameCommand, LineInv
<1> QED
  BY <1>1, <1>2, <1>3, <1>4, <1>5 DEF LineInv, Wired

\* What changes one command keeps the bridges of the others.
LEMMA BridgeKept ==
  ASSUME BridgeInv, NEW p \in DOMAIN proc, Only(p), Bridged(proc'[p])
  PROVE  BridgeInv'
BY DEF BridgeInv, Only

\* What moves no line keeps the balance of every pipe.
LEMMA FlowKept ==
  ASSUME PipeTypeOK, LineInv, FlowInv, NEW p \in DOMAIN proc, Only(p),
         UNCHANGED content, Got(proc'[p]) = Got(proc[p]),
         (\E k \in DOMAIN content : Writes(proc[p], k)) =>
            proc'[p].count = proc[p].count
  PROVE  FlowInv'
<1>1. \A q \in DOMAIN proc : SameCommand(proc'[q], proc[q])
  BY DEF Only, SameCommand
<1>3. ASSUME NEW k \in DOMAIN content
      PROVE  /\ Taken(proc', k) = Taken(proc, k)
             /\ Given(proc', k) = Given(proc, k)
  <2>1. \A q, r \in DOMAIN proc :
          /\ Reads(proc[q], k) /\ Reads(proc[r], k) => q = r
          /\ Writes(proc[q], k) /\ Writes(proc[r], k) => q = r
    BY Roles
  <2>2. /\ Reads(proc[p], k) => Taken(proc, k) = Got(proc[p])
        /\ Writes(proc[p], k) => Given(proc, k) = proc[p].count
    BY <2>1, FlowOf
  <2> QED
    BY <2>2, FlowStep
<1>4. \A k : \A q \in DOMAIN proc :
        /\ HasPipe(proc'[q], k) <=> HasPipe(proc[q], k)
        /\ proc'[q].line = proc[q].line
  BY <1>1, SameRoles DEF SameCommand
<1> QED
  BY <1>3, <1>4 DEF FlowInv, Only

\* What shows no line keeps the terminal in order.
LEMMA TerminalKept ==
  ASSUME TerminalInv, NEW p \in DOMAIN proc, Only(p), UNCHANGED terminal,
         Shows(proc[p]) => proc'[p].count = proc[p].count
  PROVE  TerminalInv'
<1>1. \A q \in DOMAIN proc : SameCommand(proc'[q], proc[q])
  BY DEF Only, SameCommand
<1>2. \A q \in DOMAIN proc :
        (Shows(proc'[q]) <=> Shows(proc[q])) /\ proc'[q].line = proc[q].line
  BY <1>1, SameRoles DEF SameCommand
<1>3. TextInOrder'
  BY DEF TerminalInv, TextInOrder
<1>4. \A q \in DOMAIN proc : Shows(proc[q]) => proc'[q].count = proc[q].count
  BY DEF Only
<1> QED
  BY <1>2, <1>3, <1>4 DEF TerminalInv, Only

\* A line that arrives at the terminal is counted for its command line.
Lines(t, i, n) == {j \in 1..i : t[j][1] = n}

\* A line that is shown is counted among those of its command line.
LEMMA LinesGrow ==
  ASSUME NEW t \in Seq(Text), NEW m \in Text, NEW n
  PROVE  /\ \A i \in DOMAIN t : Lines(Append(t, m), i, n) = Lines(t, i, n)
         /\ Lines(Append(t, m), Len(t) + 1, n) =
              IF m[1] = n THEN Lines(t, Len(t), n) \cup {Len(t) + 1}
                          ELSE Lines(t, Len(t), n)
         /\ Len(t) + 1 \notin Lines(t, Len(t), n)
         /\ IsFiniteSet(Lines(t, Len(t), n))
         /\ Cardinality(Lines(t, Len(t), n)) \in Nat
<1>1. Len(t) \in Nat /\ DOMAIN t = 1..Len(t)
  OBVIOUS
<1>2. \A j \in 1..Len(t) : Append(t, m)[j] = t[j]
  OBVIOUS
<1>3. Append(t, m)[Len(t) + 1] = m
  OBVIOUS
<1>4. \A i \in DOMAIN t : Lines(Append(t, m), i, n) = Lines(t, i, n)
  BY <1>1, <1>2 DEF Lines
<1>5. 1..(Len(t) + 1) = 1..Len(t) \cup {Len(t) + 1}
  BY <1>1
<1>6. Lines(Append(t, m), Len(t) + 1, n) =
        IF m[1] = n THEN Lines(t, Len(t), n) \cup {Len(t) + 1}
                    ELSE Lines(t, Len(t), n)
  BY <1>2, <1>3, <1>5 DEF Lines
<1>7. Len(t) + 1 \notin 1..Len(t) /\ Lines(t, Len(t), n) \subseteq 1..Len(t)
  BY <1>1 DEF Lines
<1>8. IsFiniteSet(Lines(t, Len(t), n))
  <2>1. IsFiniteSet(1..Len(t))
    BY <1>1, FS_Interval
  <2> QED
    BY <1>7, <2>1, FS_Subset
<1> QED
  BY <1>4, <1>6, <1>7, <1>8, FS_CardinalityType

\* The next line of the last command keeps the terminal in order.
LEMMA TerminalGrows ==
  ASSUME PipeTypeOK, LineInv, TerminalInv, NEW p \in DOMAIN proc, Only(p),
         Shows(proc[p]), proc'[p].count = proc[p].count + 1,
         terminal' = Append(terminal, <<proc[p].line, proc[p].count + 1>>)
  PROVE  TerminalInv'
<1> DEFINE m == <<proc[p].line, proc[p].count + 1>>
           top == Len(terminal) + 1
<1>0. /\ terminal \in Seq(Text) /\ m \in Text
      /\ proc[p].line \in Nat /\ proc[p].count \in Nat
  <2>1. proc[p] \in Process /\ terminal \in Seq(Text)
    BY ProcessRange DEF PipeTypeOK
  <2>2. proc[p].line \in Nat /\ proc[p].count \in Nat
    BY <2>1 DEF Process
  <2> QED
    BY <2>1, <2>2 DEF Text
<1>1. /\ m[1] = proc[p].line /\ m[2] = proc[p].count + 1
      /\ terminal' = Append(terminal, m)
  OBVIOUS
<1> HIDE DEF m
<1>2. /\ DOMAIN terminal' = DOMAIN terminal \cup {top}
      /\ DOMAIN terminal = 1..Len(terminal) /\ DOMAIN terminal' = 1..top
      /\ terminal'[top] = m /\ top \in 1..top
      /\ \A i \in DOMAIN terminal : terminal'[i] = terminal[i]
  <2>1. ASSUME NEW t \in Seq(Text), NEW n \in Text
        PROVE  /\ DOMAIN Append(t, n) = DOMAIN t \cup {Len(t) + 1}
               /\ DOMAIN t = 1..Len(t)
               /\ DOMAIN Append(t, n) = 1..(Len(t) + 1)
               /\ Append(t, n)[Len(t) + 1] = n
               /\ Len(t) + 1 \in 1..(Len(t) + 1)
               /\ \A i \in DOMAIN t : Append(t, n)[i] = t[i]
    OBVIOUS
  <2>2. /\ DOMAIN Append(terminal, m) = DOMAIN terminal \cup {top}
        /\ DOMAIN terminal = 1..Len(terminal)
        /\ DOMAIN Append(terminal, m) = 1..top
        /\ Append(terminal, m)[top] = m /\ top \in 1..top
        /\ \A i \in DOMAIN terminal : Append(terminal, m)[i] = terminal[i]
    BY <1>0, <2>1, Zenon
  <2> QED
    BY <1>1, <2>2, Zenon
<1> HIDE DEF top
<1>3. \A q \in DOMAIN proc :
        (Shows(proc'[q]) <=> Shows(proc[q])) /\ proc'[q].line = proc[q].line
  BY SameRoles DEF SameCommand, Only
<1>4. ASSUME NEW n
      PROVE  /\ \A i \in DOMAIN terminal :
                  Lines(terminal', i, n) = Lines(terminal, i, n)
             /\ Lines(terminal', top, n) =
                  IF m[1] = n THEN Lines(terminal, Len(terminal), n) \cup {top}
                              ELSE Lines(terminal, Len(terminal), n)
             /\ top \notin Lines(terminal, Len(terminal), n)
             /\ IsFiniteSet(Lines(terminal, Len(terminal), n))
             /\ Cardinality(Lines(terminal, Len(terminal), n)) \in Nat
  <2>1. /\ \A i \in DOMAIN terminal :
             Lines(Append(terminal, m), i, n) = Lines(terminal, i, n)
        /\ Lines(Append(terminal, m), Len(terminal) + 1, n) =
             IF m[1] = n
             THEN Lines(terminal, Len(terminal), n) \cup {Len(terminal) + 1}
             ELSE Lines(terminal, Len(terminal), n)
        /\ Len(terminal) + 1 \notin Lines(terminal, Len(terminal), n)
        /\ IsFiniteSet(Lines(terminal, Len(terminal), n))
        /\ Cardinality(Lines(terminal, Len(terminal), n)) \in Nat
    BY <1>0, LinesGrow, Zenon
  <2> QED
    BY <1>1, <2>1, Zenon DEF top
<1>5. \A q \in DOMAIN proc : Shows(proc[q]) =>
        Cardinality(Lines(terminal, Len(terminal), proc[q].line)) =
          proc[q].count
  BY <1>2 DEF TerminalInv, Lines
<1>6. Cardinality(Lines(terminal', top, m[1])) = proc[p].count + 1
  <2> DEFINE old == Lines(terminal, Len(terminal), m[1])
  <2>1. /\ Lines(terminal', top, m[1]) = old \cup {top}
        /\ top \notin old /\ IsFiniteSet(old)
    BY <1>4
  <2>2. Cardinality(old) = proc[p].count
    BY <1>1, <1>5
  <2> HIDE DEF old
  <2> QED
    BY <2>1, <2>2, FS_AddElement
<1>7. \A q \in DOMAIN proc : Shows(proc'[q]) =>
        Cardinality(Lines(terminal', top, proc'[q].line)) = proc'[q].count
  <2> SUFFICES ASSUME NEW q \in DOMAIN proc, Shows(proc[q])
               PROVE  Cardinality(Lines(terminal', top, proc[q].line)) =
                        proc'[q].count
    BY <1>3
  <2>1. CASE q = p
    BY <1>1, <1>6, <2>1
  <2>2. CASE q # p
    <3>1. proc[q].line # m[1]
      BY <1>1, <2>2, Roles
    <3> QED
      BY <1>4, <1>5, <2>2, <3>1 DEF Only
  <2> QED
    BY <2>1, <2>2
<1>8. TextInOrder'
  <2>1. \A i \in DOMAIN terminal :
          terminal[i][2] = Cardinality(Lines(terminal, i, terminal[i][1]))
    BY DEF TerminalInv, TextInOrder, Lines
  <2>2. ASSUME NEW i \in DOMAIN terminal'
        PROVE  terminal'[i][2] =
                 Cardinality(Lines(terminal', i, terminal'[i][1]))
    <3>1. CASE i \in DOMAIN terminal
      <4>1. terminal'[i] = terminal[i]
        BY <1>2, <3>1
      <4>2. Lines(terminal', i, terminal[i][1]) =
              Lines(terminal, i, terminal[i][1])
        BY <1>4, <3>1, Zenon
      <4> QED
        BY <2>1, <3>1, <4>1, <4>2
    <3>2. CASE i = top
      BY <1>1, <1>2, <1>6, <3>2
    <3> QED
      BY <1>2, <3>1, <3>2
  <2> QED
    BY <2>2 DEF TextInOrder, Lines
<1>9. \A i \in DOMAIN terminal' : \E q \in DOMAIN proc :
        Shows(proc'[q]) /\ terminal'[i][1] = proc'[q].line
  BY <1>1, <1>2, <1>3 DEF TerminalInv
<1> QED
  BY <1>2, <1>7, <1>8, <1>9, ZenonT(60) DEF TerminalInv, Lines, Only

PipeInv == PipeTypeOK /\ LineInv /\ BridgeInv /\ FlowInv /\ TerminalInv

\* A command that reads holds the next line of its pipe.
LEMMA ReadEffect ==
  ASSUME PipeInv, NEW p \in DOMAIN proc, ReadLine(p)
  PROVE  /\ Only(p)
         /\ proc'[p].hold = <<proc[p].line, proc[p].count + 1>>
         /\ proc'[p].hold # NoLine /\ proc[p].kind # "source"
         /\ UNCHANGED <<proc[p].in, proc[p].out, proc[p].state, proc[p].fds,
                        proc[p].count>>
         /\ Reads(proc[p], proc[p].in) /\ proc[p].in \in DOMAIN content
         /\ Got(proc'[p]) = Got(proc[p]) + 1
<1> DEFINE k == proc[p].in
           q == proc[p]
           r == [q EXCEPT !.hold = Head(content[k])]
<1>1. /\ q \in Process /\ q.state = "running" /\ q.hold = NoLine
      /\ q.kind # "source" /\ k # Terminal /\ content[k] # <<>>
      /\ q.pipes # NoPipes /\ k = Input(q)
  BY ProcessRange DEF PipeInv, BridgeInv, Bridged, ReadLine, Reading
<1>2. /\ q.ser # 1 /\ q.ser - 1 \in DOMAIN q.pipes
      /\ k = q.pipes[q.ser - 1] /\ k \in DOMAIN content
  BY <1>1, Running DEF PipeInv
<1>3. Reads(q, k) /\ HasPipe(q, k)
  BY <1>1, <1>2 DEF Reads, HasPipe
<1>4. content[k] \in Seq(Text) /\ 1 \in DOMAIN content[k]
      /\ Head(content[k]) = content[k][1] /\ content[k][1] \in Text
  <2>1. content[k] \in Seq(Text)
    BY <1>2 DEF PipeInv, PipeTypeOK
  <2> QED
    BY <1>1, <2>1
<1>5. Taken(proc, k) = Got(q)
  BY <1>3, Roles, FlowOf DEF PipeInv
<1>6. content[k][1][1] = q.line /\ content[k][1][2] = q.count + 1
  BY <1>1, <1>2, <1>3, <1>4, <1>5 DEF PipeInv, FlowInv, Got
<1>7. Head(content[k]) = <<q.line, q.count + 1>>
  BY <1>4, <1>6 DEF Text
<1>8. r \in Process /\ SameCommand(r, q)
  BY <1>1, <1>4 DEF Process, SameCommand
<1>9. proc' = [proc EXCEPT ![p] = r]
  BY DEF ReadLine
<1>10. /\ r.hold = <<q.line, q.count + 1>> /\ r.in = q.in /\ r.out = q.out
       /\ r.state = q.state /\ r.fds = q.fds /\ r.count = q.count
       /\ r.kind = q.kind
  BY <1>1, <1>7 DEF Process
<1> HIDE DEF r
<1>11. <<q.line, q.count + 1>> # NoLine
  BY DEF NoLine
<1>12. q.count \in Nat
  BY <1>1 DEF Process
<1> QED
  BY <1>1, <1>2, <1>3, <1>8, <1>9, <1>10, <1>11, <1>12, ChangeOne
     DEF PipeInv, Got

\* What a process has made of itself after an action: it is still bridged.
LEMMA SameOwn ==
  ASSUME NEW p, NEW q, SameCommand(p, q)
  PROVE  /\ Own(p) = Own(q) /\ Closed(p) = Closed(q)
         /\ Input(p) = Input(q) /\ Output(p) = Output(q)
BY DEF SameCommand, Own, Closed, Input, Output

\* Whatever a command does, it keeps its bridge.
LEMMA RunBridge ==
  ASSUME PipeInv, NEW p \in DOMAIN proc, Run(p)
  PROVE  Only(p) /\ Bridged(proc'[p])
<1>0. Bridged(proc[p]) /\ PipeTypeOK /\ LineInv /\ BridgeInv
  BY DEF PipeInv, BridgeInv
<1>1. CASE MakePipeBridge(p)
  <2>1. /\ Only(p) /\ proc'[p].state = "running" /\ proc'[p].pipes # NoPipes
        /\ proc'[p].fds = proc[p].fds \ Closed(proc[p])
        /\ proc'[p].in = Input(proc[p]) /\ proc'[p].out = Output(proc[p])
        /\ proc'[p].hold = proc[p].hold
    BY <1>0, <1>1, BridgeEffect
  <2>2. /\ proc[p].hold = NoLine /\ Own(proc[p]) \subseteq proc[p].fds
    BY <1>0, <1>1 DEF MakePipeBridge, Bridged
  <2>3. /\ Own(proc'[p]) = Own(proc[p]) /\ Closed(proc'[p]) = Closed(proc[p])
        /\ Input(proc'[p]) = Input(proc[p])
        /\ Output(proc'[p]) = Output(proc[p])
    BY <2>1, SameOwn DEF Only
  <2>4. proc'[p].fds \cap Own(proc'[p]) = Own(proc'[p]) \ Closed(proc'[p])
    BY <2>1, <2>2, <2>3
  <2> QED
    BY <2>1, <2>2, <2>3, <2>4 DEF Bridged
<1>2. CASE BridgeFails(p) \/ WriteFails(p) \/ End(p)
  BY <1>0, <1>2, EndEffect DEF Bridged, Only, SameCommand
<1>3. CASE WriteLine(p)
  <2>1. /\ Only(p) /\ proc'[p].hold = NoLine
        /\ UNCHANGED <<proc[p].in, proc[p].out, proc[p].state, proc[p].fds>>
    BY <1>0, <1>3, WriteEffect
  <2>2. proc[p].state = "running"
    BY <1>3 DEF WriteLine, Writing
  <2>3. SameCommand(proc'[p], proc[p])
    BY <2>1 DEF Only
  <2> QED
    BY <1>0, <2>1, <2>2, <2>3, SameOwn DEF Bridged, SameCommand
<1>4. CASE ReadLine(p)
  <2>1. /\ Only(p) /\ proc'[p].hold = <<proc[p].line, proc[p].count + 1>>
        /\ proc[p].kind # "source"
        /\ UNCHANGED <<proc[p].in, proc[p].out, proc[p].state, proc[p].fds,
                       proc[p].count>>
    BY <1>4, ReadEffect
  <2>2. proc[p].state = "running"
    BY <1>4 DEF ReadLine, Reading
  <2>3. SameCommand(proc'[p], proc[p])
    BY <2>1 DEF Only
  <2> QED
    BY <1>0, <2>1, <2>2, <2>3, SameOwn DEF Bridged, SameCommand
<1> QED
  BY <1>1, <1>2, <1>3, <1>4 DEF Run

\* A line written to a pipe, and one read from it.
LEMMA PipeFills ==
  ASSUME PipeInv, NEW p \in DOMAIN proc, WriteLine(p),
         proc[p].out # Terminal
  PROVE  FlowInv' /\ content' \in Seq(Seq(Text))
         /\ DOMAIN content' = DOMAIN content /\ ~Shows(proc[p])
<1> DEFINE k == proc[p].out
           m == NextLine(p)
<1>0. PipeTypeOK /\ LineInv /\ BridgeInv /\ FlowInv /\ Bridged(proc[p])
  BY DEF PipeInv, BridgeInv
<1>1. /\ Only(p) /\ proc'[p].count = proc[p].count + 1
      /\ Got(proc'[p]) = Got(proc[p])
      /\ m = <<proc[p].line, proc[p].count + 1>> /\ m \in Text
  BY <1>0, WriteEffect
<1>2. /\ proc[p].pipes # NoPipes /\ k = Output(proc[p])
      /\ content' = [content EXCEPT ![k] = Append(content[k], m)]
  BY <1>0 DEF WriteLine, Writing, Bridged
<1>3. k \in DOMAIN content /\ Writes(proc[p], k) /\ ~Shows(proc[p])
  BY <1>0, <1>2, Running DEF Writes
<1>4. \A j : Writes(proc[p], j) => j = k
  BY <1>3 DEF Writes
<1> HIDE DEF m, k
<1>5. content \in Seq(Seq(Text)) /\ content[k] \in Seq(Text)
  <2>1. content \in Seq(Seq(Text))
    BY <1>0 DEF PipeTypeOK
  <2> QED
    BY <1>3, <2>1
<1>6. Append(content[k], m) \in Seq(Text)
  BY <1>1, <1>5
<1>7. /\ content' \in Seq(Seq(Text)) /\ DOMAIN content' = DOMAIN content
      /\ content'[k] = Append(content[k], m)
      /\ \A j \in DOMAIN content : j # k => content'[j] = content[j]
  <2>1. \A u \in Seq(Text) :
          /\ [content EXCEPT ![k] = u] \in Seq(Seq(Text))
          /\ DOMAIN [content EXCEPT ![k] = u] = DOMAIN content
          /\ [content EXCEPT ![k] = u][k] = u
          /\ \A j \in DOMAIN content :
               j # k => [content EXCEPT ![k] = u][j] = content[j]
    BY <1>3, <1>5
  <2> QED
    BY <1>2, <1>6, <2>1, Zenon
<1>8. \A j \in DOMAIN content :
        /\ \A q, r \in DOMAIN proc :
             /\ Reads(proc[q], j) /\ Reads(proc[r], j) => q = r
             /\ Writes(proc[q], j) /\ Writes(proc[r], j) => q = r
        /\ Reads(proc[p], j) => Taken(proc, j) = Got(proc[p])
        /\ Writes(proc[p], j) => Given(proc, j) = proc[p].count
  <2> TAKE j \in DOMAIN content
  <2>1. \A q, r \in DOMAIN proc :
             /\ Reads(proc[q], j) /\ Reads(proc[r], j) => q = r
             /\ Writes(proc[q], j) /\ Writes(proc[r], j) => q = r
    BY <1>0, Roles
  <2> QED
    BY <2>1, FlowOf
<1>9. \A j \in DOMAIN content :
        /\ Taken(proc', j) = Taken(proc, j)
        /\ Given(proc', j) = IF j = k THEN proc[p].count + 1
                                      ELSE Given(proc, j)
  BY <1>0, <1>1, <1>3, <1>4, <1>8, FlowStep
<1>10. Given(proc, k) = proc[p].count
  BY <1>3, <1>8
<1>11. \A q \in DOMAIN proc :
         /\ \A j : HasPipe(proc'[q], j) <=> HasPipe(proc[q], j)
         /\ proc'[q].line = proc[q].line
  BY <1>1, SameRoles DEF SameCommand, Only
<1>12. \A q \in DOMAIN proc : HasPipe(proc[q], k) =>
         proc[q].line = proc[p].line
  BY <1>0, <1>3, Roles
<1>13. ASSUME NEW j \in DOMAIN content
       PROVE  /\ Given(proc', j) = Taken(proc', j) + Len(content'[j])
              /\ \A i \in DOMAIN content'[j] :
                   /\ content'[j][i][2] = Taken(proc', j) + i
                   /\ \A q \in DOMAIN proc : HasPipe(proc[q], j) =>
                        content'[j][i][1] = proc[q].line
  <2>1. /\ Given(proc, j) = Taken(proc, j) + Len(content[j])
        /\ \A i \in DOMAIN content[j] :
             /\ content[j][i][2] = Taken(proc, j) + i
             /\ \A q \in DOMAIN proc : HasPipe(proc[q], j) =>
                  content[j][i][1] = proc[q].line
    BY <1>0 DEF FlowInv
  <2>2. CASE j # k
    BY <1>7, <1>9, <2>1, <2>2
  <2>3. CASE j = k
    <3>1. Taken(proc, k) \in Int /\ proc[p].count \in Nat
      <4>1. Taken(proc, k) \in Nat
        <5>1. \A q \in DOMAIN proc : Got(proc[q]) \in Nat
          BY <1>0, ProcessRange DEF Got, Process
        <5> QED
          BY <5>1 DEF Taken
      <4> QED
        BY <1>0, <4>1, ProcessRange DEF Process
    <3>2. /\ Len(content'[k]) = Len(content[k]) + 1
          /\ DOMAIN content'[k] = DOMAIN content[k] \cup {Len(content[k]) + 1}
          /\ \A i \in DOMAIN content[k] : content'[k][i] = content[k][i]
          /\ content'[k][Len(content[k]) + 1] = m
          /\ Len(content[k]) \in Nat
      <4> DEFINE Grown(w, t, v) ==
                   /\ Len(w) = Len(t) + 1
                   /\ DOMAIN w = DOMAIN t \cup {Len(t) + 1}
                   /\ \A i \in DOMAIN t : w[i] = t[i]
                   /\ w[Len(t) + 1] = v
                   /\ Len(t) \in Nat
      <4>1. \A t \in Seq(Text), v \in Text : Grown(Append(t, v), t, v)
        OBVIOUS
      <4>2. content'[k] = Append(content[k], m)
        BY <1>7
      <4>3. content[k] \in Seq(Text) /\ m \in Text
        BY <1>1, <1>5
      <4>4. SUFFICES Grown(content'[k], content[k], m)
        OBVIOUS
      <4> HIDE DEF Grown
      <4> QED
        BY ONLY <4>1, <4>2, <4>3, Zenon
    <3>3. m[1] = proc[p].line /\ m[2] = proc[p].count + 1
      BY <1>1
    <3>4. proc[p].count = Taken(proc, k) + Len(content[k])
      BY <1>10, <2>1, <2>3
    <3>5. Given(proc', j) = Taken(proc', j) + Len(content'[j])
      BY <1>9, <2>3, <3>1, <3>2, <3>4
    <3>6. m[2] = Taken(proc', j) + (Len(content[k]) + 1)
      BY <1>9, <2>3, <3>1, <3>2, <3>3, <3>4
    <3> QED
      BY <1>9, <1>12, <2>1, <2>3, <3>2, <3>3, <3>5, <3>6
  <2> QED
    BY <2>2, <2>3
<1>14. FlowInv'
  BY <1>1, <1>7, <1>11, <1>13 DEF FlowInv, Only
<1> QED
  BY <1>3, <1>7, <1>14

\* A line that is read leaves its pipe to its reader.
LEMMA PipeDrains ==
  ASSUME PipeInv, NEW p \in DOMAIN proc, ReadLine(p)
  PROVE  FlowInv' /\ content' \in Seq(Seq(Text))
         /\ DOMAIN content' = DOMAIN content
<1> DEFINE k == proc[p].in
<1>0. PipeTypeOK /\ LineInv /\ BridgeInv /\ FlowInv
  BY DEF PipeInv
<1>1. /\ Only(p) /\ proc'[p].count = proc[p].count
      /\ Got(proc'[p]) = Got(proc[p]) + 1
      /\ Reads(proc[p], k) /\ k \in DOMAIN content
  BY ReadEffect
<1>2. content[k] # <<>> /\ content' = [content EXCEPT ![k] = Tail(content[k])]
  BY DEF ReadLine
<1>3. \A j : Reads(proc[p], j) => j = k
  BY <1>1 DEF Reads
<1> HIDE DEF k
<1>4. content \in Seq(Seq(Text)) /\ content[k] \in Seq(Text)
  <2>1. content \in Seq(Seq(Text))
    BY <1>0 DEF PipeTypeOK
  <2> QED
    BY <1>1, <2>1
<1>5. Tail(content[k]) \in Seq(Text)
  BY <1>2, <1>4
<1>6. /\ content' \in Seq(Seq(Text)) /\ DOMAIN content' = DOMAIN content
      /\ content'[k] = Tail(content[k])
      /\ \A j \in DOMAIN content : j # k => content'[j] = content[j]
  <2>1. \A u \in Seq(Text) :
          /\ [content EXCEPT ![k] = u] \in Seq(Seq(Text))
          /\ DOMAIN [content EXCEPT ![k] = u] = DOMAIN content
          /\ [content EXCEPT ![k] = u][k] = u
          /\ \A j \in DOMAIN content :
               j # k => [content EXCEPT ![k] = u][j] = content[j]
    BY <1>1, <1>4
  <2> QED
    BY <1>2, <1>5, <2>1, Zenon
<1>7. \A j \in DOMAIN content :
        /\ Reads(proc[p], j) => Taken(proc, j) = Got(proc[p])
        /\ Writes(proc[p], j) => Given(proc, j) = proc[p].count
  <2> TAKE j \in DOMAIN content
  <2>1. \A q, r \in DOMAIN proc :
             /\ Reads(proc[q], j) /\ Reads(proc[r], j) => q = r
             /\ Writes(proc[q], j) /\ Writes(proc[r], j) => q = r
    BY <1>0, Roles
  <2> QED
    BY <2>1, FlowOf
<1>8. \A j \in DOMAIN content :
        /\ Taken(proc', j) = IF j = k THEN Taken(proc, k) + 1
                                      ELSE Taken(proc, j)
        /\ Given(proc', j) = Given(proc, j)
  BY <1>0, <1>1, <1>3, <1>7, FlowStep
<1>9. \A q \in DOMAIN proc :
        /\ \A j : HasPipe(proc'[q], j) <=> HasPipe(proc[q], j)
        /\ proc'[q].line = proc[q].line
  BY <1>1, SameRoles DEF SameCommand, Only
<1>10. ASSUME NEW j \in DOMAIN content
       PROVE  /\ Given(proc', j) = Taken(proc', j) + Len(content'[j])
              /\ \A i \in DOMAIN content'[j] :
                   /\ content'[j][i][2] = Taken(proc', j) + i
                   /\ \A q \in DOMAIN proc : HasPipe(proc[q], j) =>
                        content'[j][i][1] = proc[q].line
  <2>1. /\ Given(proc, j) = Taken(proc, j) + Len(content[j])
        /\ \A i \in DOMAIN content[j] :
             /\ content[j][i][2] = Taken(proc, j) + i
             /\ \A q \in DOMAIN proc : HasPipe(proc[q], j) =>
                  content[j][i][1] = proc[q].line
    BY <1>0 DEF FlowInv
  <2>2. CASE j # k
    BY <1>6, <1>8, <2>1, <2>2
  <2>3. CASE j = k
    <3>1. Taken(proc, k) \in Nat
      <4>1. \A q \in DOMAIN proc : Got(proc[q]) \in Nat
        BY <1>0, ProcessRange DEF Got, Process
      <4> QED
        BY <4>1 DEF Taken
    <3>2. /\ Len(content'[k]) = Len(content[k]) - 1
          /\ \A i \in DOMAIN content'[k] :
               i + 1 \in DOMAIN content[k] /\ i \in Nat
               /\ content'[k][i] = content[k][i + 1]
          /\ Len(content[k]) \in Nat
      BY <1>2, <1>4, <1>6
    <3>3. Given(proc', j) = Taken(proc', j) + Len(content'[j])
      BY <1>8, <2>1, <2>3, <3>1, <3>2
    <3>4. \A i \in DOMAIN content'[k] : content'[k][i][2] = Taken(proc', k) + i
      <4>1. \A i \in DOMAIN content[k] : content[k][i][2] = Taken(proc, k) + i
        BY <2>1, <2>3
      <4>2. \A i \in DOMAIN content'[k] :
              i \in Nat /\ content'[k][i][2] = Taken(proc, k) + (i + 1)
        BY <3>2, <4>1
      <4>3. Taken(proc', k) = Taken(proc, k) + 1
        BY <1>1, <1>8
      <4> QED
        BY <3>1, <4>2, <4>3
    <3> QED
      BY <2>1, <2>3, <3>2, <3>3, <3>4
  <2> QED
    BY <2>2, <2>3
<1>11. FlowInv'
  BY <1>1, <1>6, <1>9, <1>10 DEF FlowInv, Only
<1> QED
  BY <1>6, <1>11

\* Every action of a process keeps the invariant.
LEMMA RunStep ==
  ASSUME PipeInv, NEW p \in DOMAIN proc, Run(p)
  PROVE  PipeInv'
<1>0. /\ PipeTypeOK /\ LineInv /\ BridgeInv /\ FlowInv /\ TerminalInv
      /\ Bridged(proc[p])
  BY DEF PipeInv, BridgeInv
<1>1. Only(p) /\ Bridged(proc'[p])
  BY RunBridge
<1>2. UNCHANGED <<shell, typed, cmd, ser, pipe_fd, shellFd>>
  BY DEF Run, MakePipeBridge, BridgeFails, WriteLine, WriteFails, ReadLine, End
<1>3. BridgeInv'
  BY <1>0, <1>1, BridgeKept
<1>4. /\ DOMAIN content' = DOMAIN content /\ content' \in Seq(Seq(Text))
      /\ terminal' \in Seq(Text)
      /\ FlowInv' /\ TerminalInv'
  <2>1. CASE MakePipeBridge(p)
    <3>1. UNCHANGED <<content, terminal>>
      BY <2>1 DEF MakePipeBridge
    <3>2. proc'[p].count = proc[p].count /\ proc'[p].hold = proc[p].hold
      BY <1>0, <2>1, BridgeEffect
    <3>3. Got(proc'[p]) = Got(proc[p])
      BY <1>1, <3>2 DEF Got, Only, SameCommand
    <3>4. FlowInv'
      BY <1>0, <1>1, <3>1, <3>2, <3>3, FlowKept
    <3>5. TerminalInv'
      BY <1>0, <1>1, <3>1, <3>2, TerminalKept
    <3> QED
      BY <1>0, <3>1, <3>4, <3>5 DEF PipeTypeOK
  <2>2. CASE BridgeFails(p) \/ WriteFails(p) \/ End(p)
    <3>1. UNCHANGED <<content, terminal>>
      BY <2>2 DEF BridgeFails, WriteFails, End
    <3>2. proc'[p].count = proc[p].count /\ proc'[p].hold = proc[p].hold
      BY <1>0, <2>2, EndEffect
    <3>3. Got(proc'[p]) = Got(proc[p])
      BY <1>1, <3>2 DEF Got, Only, SameCommand
    <3>4. FlowInv'
      BY <1>0, <1>1, <3>1, <3>2, <3>3, FlowKept
    <3>5. TerminalInv'
      BY <1>0, <1>1, <3>1, <3>2, TerminalKept
    <3> QED
      BY <1>0, <3>1, <3>4, <3>5 DEF PipeTypeOK
  <2>3. CASE WriteLine(p) /\ proc[p].out = Terminal
    <3>1. UNCHANGED content /\ terminal' = Append(terminal, NextLine(p))
      BY <2>3 DEF WriteLine
    <3>2. /\ NextLine(p) = <<proc[p].line, proc[p].count + 1>>
          /\ NextLine(p) \in Text /\ Got(proc'[p]) = Got(proc[p])
          /\ proc'[p].count = proc[p].count + 1
      BY <1>0, <2>3, WriteEffect
    <3>3. proc[p].pipes # NoPipes /\ Output(proc[p]) = Terminal
      BY <1>0, <2>3 DEF WriteLine, Writing, Bridged
    <3>4. Shows(proc[p]) /\ proc[p].ser \notin DOMAIN proc[p].pipes
      <4>1. Shows(proc[p]) /\ proc[p].pipes \in Seq(Nat \ {0})
        BY <1>0, <3>3, Running
      <4> QED
        BY <4>1 DEF Shows
    <3>5. \A k : ~Writes(proc[p], k)
      BY <3>4 DEF Writes
    <3>6. FlowInv'
      BY <1>0, <1>1, <3>1, <3>2, <3>5, FlowKept
    <3>7. TerminalInv'
      BY <1>0, <1>1, <3>1, <3>2, <3>4, TerminalGrows
    <3>8. terminal' \in Seq(Text)
      BY <1>0, <3>1, <3>2 DEF PipeTypeOK
    <3> QED
      BY <1>0, <3>1, <3>6, <3>7, <3>8 DEF PipeTypeOK
  <2>4. CASE WriteLine(p) /\ proc[p].out # Terminal
    <3>1. UNCHANGED terminal
      BY <2>4 DEF WriteLine
    <3>2. /\ FlowInv' /\ content' \in Seq(Seq(Text)) /\ ~Shows(proc[p])
          /\ DOMAIN content' = DOMAIN content
      BY <2>4, PipeFills
    <3>3. TerminalInv'
      BY <1>0, <1>1, <3>1, <3>2, TerminalKept
    <3> QED
      BY <1>0, <3>1, <3>2, <3>3 DEF PipeTypeOK
  <2>5. CASE ReadLine(p)
    <3>1. UNCHANGED terminal
      BY <2>5 DEF ReadLine
    <3>2. /\ FlowInv' /\ content' \in Seq(Seq(Text))
          /\ DOMAIN content' = DOMAIN content
      BY <2>5, PipeDrains
    <3>3. proc'[p].count = proc[p].count
      BY <2>5, ReadEffect
    <3>4. TerminalInv'
      BY <1>0, <1>1, <3>1, <3>3, TerminalKept
    <3> QED
      BY <1>0, <3>1, <3>2, <3>4 DEF PipeTypeOK
  <2> QED
    BY <2>1, <2>2, <2>3, <2>4, <2>5 DEF Run
<1>5. LineInv'
  BY <1>0, <1>1, <1>2, <1>4, LineKept
<1>6. PipeTypeOK'
  BY <1>0, <1>1, <1>2, <1>4 DEF PipeTypeOK, Only
<1> QED
  BY <1>3, <1>4, <1>5, <1>6 DEF PipeInv

\* The steps of the shell that only change what it is about to do.
LEMMA ShellTurns ==
  ASSUME PipeInv, Type \/ ExitApp \/ MallocFails \/ Prompt
  PROVE  PipeInv'
<1>0. PipeTypeOK /\ LineInv /\ BridgeInv /\ FlowInv /\ TerminalInv
  BY DEF PipeInv
<1>1. UNCHANGED <<content, proc, terminal>>
  BY DEF Type, ExitApp, MallocFails, Prompt
<1>2. BridgeInv' /\ FlowInv' /\ TerminalInv'
  BY <1>0, <1>1 DEF BridgeInv, FlowInv, TerminalInv, TextInOrder
<1>3. \A s : Wired(s)' <=> Wired(s)
  BY <1>1 DEF Wired
<1>4. PipeTypeOK' /\ LineInv'
  <2>1. CASE Type
    <3>1. cmd' \in CommandLine
      BY <2>1 DEF Type
    <3>2. cmd' \in Seq(Kind) /\ Len(cmd') <= UINT_RANGE
      BY <3>1, PipelineAssumption DEF Kind
    <3>3. PipeTypeOK'
      BY <1>0, <1>1, <2>1, <3>2 DEF PipeTypeOK, Type
    <3>4. \A q \in DOMAIN proc : proc[q].line \in Nat
      BY <1>0, ProcessRange DEF Process
    <3>5. typed \in Nat /\ typed' = typed + 1 /\ shell' = "pipes"
      BY <1>0, <2>1 DEF PipeTypeOK, Type
    <3>6. \A q \in DOMAIN proc : proc[q].line <= typed' /\ proc[q].line < typed'
      BY <1>0, <3>4, <3>5 DEF LineInv
    <3> QED
      BY <1>0, <1>1, <1>3, <3>3, <3>5, <3>6 DEF LineInv
  <2>2. CASE ExitApp \/ MallocFails \/ Prompt
    <3>1. /\ shell' \in {"exited", "crashed", "prompt"}
          /\ UNCHANGED <<typed, cmd, ser, pipe_fd>>
          /\ shellFd' \subseteq shellFd
      BY <2>2 DEF ExitApp, MallocFails, Prompt
    <3>2. PipeTypeOK'
      BY <1>0, <1>1, <3>1 DEF PipeTypeOK
    <3> QED
      BY <1>0, <1>1, <1>3, <3>1, <3>2 DEF LineInv
  <2> QED
    BY <2>1, <2>2
<1> QED
  BY <1>2, <1>4 DEF PipeInv

\* What two sequences are one after the other.
LEMMA Concatenated ==
  \A S : \A f, g \in Seq(S) :
    /\ f \o g \in Seq(S) /\ Len(f \o g) = Len(f) + Len(g)
    /\ DOMAIN (f \o g) = 1..(Len(f) + Len(g))
    /\ DOMAIN f = 1..Len(f) /\ Len(f) \in Nat /\ Len(g) \in Nat
    /\ \A k \in 1..Len(f) : (f \o g)[k] = f[k]
    /\ \A k \in (Len(f) + 1)..(Len(f) + Len(g)) : (f \o g)[k] = g[k - Len(f)]
OBVIOUS

\* New pipes are empty and added to the old ones.
LEMMA MorePipes ==
  ASSUME NEW c \in Seq(Seq(Text)), NEW n \in Int
  PROVE  LET d == c \o [k \in 1..n |-> <<>>] IN
         /\ d \in Seq(Seq(Text)) /\ DOMAIN c \subseteq DOMAIN d
         /\ \A k \in DOMAIN c : d[k] = c[k]
         /\ \A k \in DOMAIN d \ DOMAIN c : d[k] = <<>>
         /\ \A k \in (Len(c) + 1)..(Len(c) + n) :
              k \in DOMAIN d /\ k \notin DOMAIN c
<1> DEFINE e == [k \in 1..n |-> <<>>]
           d == c \o e
           m == IF n >= 0 THEN n ELSE 0
<1>1. m \in Nat /\ 1..n = 1..m
  OBVIOUS
<1>2. <<>> \in Seq(Text)
  OBVIOUS
<1>3. e \in Seq(Seq(Text)) /\ Len(e) = m /\ \A k \in 1..m : e[k] = <<>>
  <2>1. ASSUME NEW j \in Nat, NEW S, NEW u \in S
        PROVE  /\ [k \in 1..j |-> u] \in Seq(S) /\ Len([k \in 1..j |-> u]) = j
               /\ \A k \in 1..j : [i \in 1..j |-> u][k] = u
    OBVIOUS
  <2>2. e = [k \in 1..m |-> <<>>]
    BY <1>1
  <2> HIDE DEF e, m
  <2> QED
    BY <1>1, <1>2, <2>1, <2>2
<1>4. n <= m
  OBVIOUS
<1> HIDE DEF e, m
<1>5. /\ d \in Seq(Seq(Text)) /\ DOMAIN d = 1..(Len(c) + m)
      /\ DOMAIN c = 1..Len(c) /\ Len(c) \in Nat
      /\ \A k \in 1..Len(c) : d[k] = c[k]
      /\ \A k \in (Len(c) + 1)..(Len(c) + m) : d[k] = e[k - Len(c)]
  <2>1. /\ c \o e \in Seq(Seq(Text)) /\ Len(c \o e) = Len(c) + Len(e)
        /\ DOMAIN (c \o e) = 1..(Len(c) + Len(e))
        /\ DOMAIN c = 1..Len(c) /\ Len(c) \in Nat /\ Len(e) \in Nat
        /\ \A k \in 1..Len(c) : (c \o e)[k] = c[k]
        /\ \A k \in (Len(c) + 1)..(Len(c) + Len(e)) :
             (c \o e)[k] = e[k - Len(c)]
    <3>1. c \in Seq(Seq(Text)) /\ e \in Seq(Seq(Text))
      BY <1>3
    <3> QED
      BY ONLY <3>1, Concatenated, ZenonT(60)
  <2>2. Len(e) = m
    BY <1>3
  <2> QED
    BY <2>1, <2>2, Zenon
<1> HIDE DEF d
<1>6. \A k \in DOMAIN d \ DOMAIN c : d[k] = <<>>
  <2> TAKE k \in DOMAIN d \ DOMAIN c
  <2>1. k \in (Len(c) + 1)..(Len(c) + m) /\ k - Len(c) \in 1..m
    BY <1>1, <1>5
  <2> QED
    BY <1>3, <1>5, <2>1
<1>7. /\ DOMAIN c \subseteq DOMAIN d
      /\ \A k \in (Len(c) + 1)..(Len(c) + n) :
           k \in DOMAIN d /\ k \notin DOMAIN c
  BY <1>1, <1>4, <1>5, SMTT(30)
<1> QED
  BY <1>5, <1>6, <1>7 DEF d, e

\* A small number is its own rest.
LEMMA SmallRest ==
  ASSUME NEW a \in Nat, NEW b \in Nat, a < b
  PROVE  a % b = a
OBVIOUS

\* Making the pipes of a line: they are new ones, so nobody has them yet.
LEMMA PipesMade ==
  ASSUME PipeInv, SetPipeSystem
  PROVE  PipeInv'
<1>0. PipeTypeOK /\ LineInv /\ BridgeInv /\ FlowInv /\ TerminalInv
  BY DEF PipeInv
<1>t. /\ content \in Seq(Seq(Text)) /\ Len(cmd) \in Nat
      /\ Len(cmd) <= UINT_RANGE
      /\ shellFd \subseteq (DOMAIN content) \X {"r", "w"}
      /\ Len(content) \in Nat /\ DOMAIN content = 1..Len(content)
  BY <1>0 DEF PipeTypeOK
<1>1. UNCHANGED <<typed, cmd, ser, proc, terminal>> /\ shell = "pipes"
      /\ shell' = "fork"
  BY DEF SetPipeSystem
<1>2. Room \in Int
  <2>1. IsFiniteSet(DOMAIN content) /\ IsFiniteSet({"r", "w"})
    <3>1. {"r", "w"} = {"r"} \cup {"w"}
      OBVIOUS
    <3>2. IsFiniteSet(1..Len(content))
      BY <1>t, FS_Interval
    <3>3. IsFiniteSet({"r"}) /\ IsFiniteSet({"w"})
      BY FS_Singleton
    <3>4. IsFiniteSet({"r"} \cup {"w"})
      BY <3>3, FS_Union
    <3> QED
      BY <1>t, <3>1, <3>2, <3>4
  <2>2. IsFiniteSet(shellFd)
    BY <1>t, <2>1, FS_Product, FS_Subset
  <2> QED
    BY <2>2, FS_CardinalityType, PipelineAssumption DEF Room
<1>3. /\ PipeCount \in Nat /\ Len(cmd) - 1 <= PipeCount
      /\ Made \in Int
      /\ PipeCount <= Room => Made = PipeCount
  <2>1. UINT_RANGE \in Nat /\ UINT_RANGE > 0
    BY PipelineAssumption
  <2>2. CASE Len(cmd) = 0
    <3>1. PipeCount \in Nat
      BY <2>1, <2>2 DEF PipeCount
    <3> QED
      BY <1>2, <2>2, <3>1 DEF Made
  <2>3. CASE Len(cmd) # 0
    <3>1. PipeCount = Len(cmd) - 1 /\ PipeCount \in Nat
      <4>1. Len(cmd) - 1 \in Nat /\ Len(cmd) - 1 < UINT_RANGE
        BY <1>t, <2>1, <2>3
      <4> QED
        BY <2>1, <4>1, SmallRest DEF PipeCount
    <3> QED
      BY <1>2, <3>1 DEF Made
  <2> QED
    BY <2>2, <2>3
<1>4. /\ content' \in Seq(Seq(Text)) /\ DOMAIN content \subseteq DOMAIN content'
      /\ \A k \in DOMAIN content : content'[k] = content[k]
      /\ \A k \in DOMAIN content' \ DOMAIN content : content'[k] = <<>>
      /\ \A k \in New : k \in DOMAIN content' /\ k \notin DOMAIN content
  <2> DEFINE d == content \o [k \in 1..Made |-> <<>>]
  <2>1. content' = d /\ New = (Len(content) + 1)..(Len(content) + Made)
    BY DEF SetPipeSystem, New
  <2>2. /\ d \in Seq(Seq(Text)) /\ DOMAIN content \subseteq DOMAIN d
        /\ \A k \in DOMAIN content : d[k] = content[k]
        /\ \A k \in DOMAIN d \ DOMAIN content : d[k] = <<>>
        /\ \A k \in (Len(content) + 1)..(Len(content) + Made) :
             k \in DOMAIN d /\ k \notin DOMAIN content
    BY <1>t, <1>3, MorePipes
  <2> HIDE DEF d
  <2> QED
    BY <2>1, <2>2
<1>5. shellFd' = shellFd \cup UNION {Ends(k) : k \in New}
  BY DEF SetPipeSystem
<1>6. shellFd' \subseteq (DOMAIN content') \X {"r", "w"}
  BY <1>t, <1>4, <1>5 DEF Ends
<1>7. \/ pipe_fd' = NoPipes
      \/ /\ pipe_fd' \in Seq(Nat \ {0}) /\ Len(pipe_fd') = PipeCount
         /\ \A i \in DOMAIN pipe_fd' : pipe_fd'[i] \in New
         /\ \A i, j \in DOMAIN pipe_fd' : pipe_fd'[i] = pipe_fd'[j] => i = j
  <2>1. CASE PipeCount <= Room
    <3>1. pipe_fd' = [k \in 1..PipeCount |-> Len(content) + k]
      BY <1>3, <2>1 DEF SetPipeSystem
    <3>2. New = (Len(content) + 1)..(Len(content) + PipeCount)
      BY <1>3, <2>1 DEF New
    <3> QED
      BY <1>t, <1>3, <3>1, <3>2
  <2> QED
    BY <2>1 DEF SetPipeSystem
<1>8. PipeTypeOK'
  BY <1>0, <1>1, <1>4, <1>6, <1>7 DEF PipeTypeOK
<1>9. LineInv'
  <2>1. \A s : Wired(s) => Wired(s)'
    BY <1>4 DEF Wired
  <2>2. pipe_fd' # NoPipes =>
          /\ Wired(pipe_fd)' /\ Len(cmd) <= Len(pipe_fd') + 1
          /\ \A i \in DOMAIN pipe_fd' : Ends(pipe_fd'[i]) \subseteq shellFd'
    BY <1>t, <1>3, <1>4, <1>5, <1>7 DEF Wired
  <2>3. \A q \in DOMAIN proc :
          /\ proc[q].line # typed /\ proc[q].line <= typed
          /\ pipe_fd' # NoPipes /\ proc[q].pipes # NoPipes =>
               Apart(pipe_fd', proc[q].pipes)
    <3> TAKE q \in DOMAIN proc
    <3>1. proc[q].line < typed /\ proc[q].line \in Nat /\ typed \in Nat
      BY <1>0, <1>1, ProcessRange DEF LineInv, Process, PipeTypeOK
    <3>2. ASSUME pipe_fd' # NoPipes, proc[q].pipes # NoPipes
          PROVE  Apart(pipe_fd', proc[q].pipes)
      <4>1. \A i \in DOMAIN proc[q].pipes : proc[q].pipes[i] \in DOMAIN content
        BY <1>0, <3>2 DEF LineInv, Wired
      <4> QED
        BY <1>4, <1>7, <3>2, <4>1 DEF Apart
    <3> QED
      BY <3>1, <3>2
  <2>4. \A q \in DOMAIN proc : proc[q].pipes # NoPipes =>
          /\ Wired(proc[q].pipes)' /\ proc[q].ser <= Len(proc[q].pipes) + 1
    BY <1>0, <1>1, <2>1 DEF LineInv
  <2> QED
    BY <1>0, <1>1, <2>2, <2>3, <2>4 DEF LineInv, Wired
<1>10. FlowInv'
  <2>1. \A k \in DOMAIN content' \ DOMAIN content : \A q \in DOMAIN proc :
          ~HasPipe(proc[q], k) /\ ~Reads(proc[q], k) /\ ~Writes(proc[q], k)
    <3>1. \A k : \A q \in DOMAIN proc :
            Reads(proc[q], k) \/ Writes(proc[q], k) => HasPipe(proc[q], k)
      BY <1>0, Roles
    <3>2. \A k : \A q \in DOMAIN proc : HasPipe(proc[q], k) =>
            k \in DOMAIN content
      BY <1>0 DEF HasPipe, LineInv, Wired
    <3> QED
      BY <3>1, <3>2
  <2>2. \A k \in DOMAIN content' \ DOMAIN content :
          Given(proc, k) = 0 /\ Taken(proc, k) = 0
    BY <2>1 DEF Given, Taken
  <2>3. \A k \in DOMAIN content' \ DOMAIN content :
          Len(content'[k]) = 0 /\ DOMAIN content'[k] = {}
    <3>1. Len(<<>>) = 0 /\ DOMAIN <<>> = {}
      OBVIOUS
    <3> QED
      BY <1>4, <3>1
  <2>4. \A k \in DOMAIN content :
          /\ Given(proc, k) = Taken(proc, k) + Len(content'[k])
          /\ \A i \in DOMAIN content'[k] :
               /\ content'[k][i][2] = Taken(proc, k) + i
               /\ \A q \in DOMAIN proc : HasPipe(proc[q], k) =>
                    content'[k][i][1] = proc[q].line
    BY <1>0, <1>4 DEF FlowInv
  <2> QED
    BY <1>1, <2>2, <2>3, <2>4 DEF FlowInv
<1>11. BridgeInv' /\ TerminalInv'
  BY <1>0, <1>1 DEF BridgeInv, TerminalInv, TextInOrder
<1> QED
  BY <1>8, <1>9, <1>10, <1>11 DEF PipeInv

\* A new command of a line takes a place of its pipes nobody has, and has
\* neither read nor written.
LEMMA CommandForked ==
  ASSUME PipeInv, Fork
  PROVE  PipeInv'
<1> DEFINE P == [kind |-> cmd[ser], line |-> typed, ser |-> ser,
                 pipes |-> pipe_fd, fds |-> shellFd,
                 in |-> Terminal, out |-> Terminal,
                 state |-> "forked", count |-> 0, hold |-> NoLine]
           n == Len(proc) + 1
<1>0. PipeTypeOK /\ LineInv /\ BridgeInv /\ FlowInv /\ TerminalInv
  BY DEF PipeInv
<1>1. /\ shell = "fork" /\ ser <= Len(cmd) /\ proc' = Append(proc, P)
      /\ UNCHANGED <<typed, cmd, pipe_fd, content, shellFd, terminal>>
      /\ \/ shell' = "fork" /\ ser = 1 /\ ser' = 2
         \/ shell' = "wait" /\ ser' = ser
  BY DEF Fork
<1>t. /\ typed \in Nat /\ ser \in Nat \ {0} /\ cmd \in Seq(Kind)
      /\ pipe_fd \in Seq(Nat \ {0}) \cup {NoPipes}
      /\ content \in Seq(Seq(Text)) /\ proc \in Seq(Process)
      /\ shellFd \subseteq (DOMAIN content) \X {"r", "w"}
  BY <1>0 DEF PipeTypeOK
<1>2. P \in Process
  <2>1. cmd[ser] \in Kind
    BY <1>1, <1>t
  <2>2. shellFd \in Descriptors
    <3>1. DOMAIN content \subseteq Nat
      BY <1>t
    <3> QED
      BY <1>t, <3>1 DEF Descriptors
  <2>3. Terminal \in Nat
    BY DEF Terminal
  <2> QED
    BY <1>t, <2>1, <2>2, <2>3 DEF Process
<1>3. /\ P.line = typed /\ P.ser = ser /\ P.pipes = pipe_fd
      /\ P.fds = shellFd /\ P.state = "forked" /\ P.count = 0
      /\ P.hold = NoLine /\ Got(P) = 0
  BY DEF Got
<1> HIDE DEF P
<1>4. /\ proc' \in Seq(Process) /\ DOMAIN proc' = DOMAIN proc \cup {n}
      /\ n \notin DOMAIN proc /\ proc'[n] = P
      /\ \A q \in DOMAIN proc : proc'[q] = proc[q]
  <2>1. ASSUME NEW s \in Seq(Process), NEW r \in Process
        PROVE  /\ Append(s, r) \in Seq(Process)
               /\ DOMAIN Append(s, r) = DOMAIN s \cup {Len(s) + 1}
               /\ Len(s) + 1 \notin DOMAIN s
               /\ Append(s, r)[Len(s) + 1] = r
               /\ \A q \in DOMAIN s : Append(s, r)[q] = s[q]
    OBVIOUS
  <2>2. /\ Append(proc, P) \in Seq(Process)
        /\ DOMAIN Append(proc, P) = DOMAIN proc \cup {n}
        /\ n \notin DOMAIN proc /\ Append(proc, P)[n] = P
        /\ \A q \in DOMAIN proc : Append(proc, P)[q] = proc[q]
    BY <1>2, <1>t, <2>1, Zenon
  <2> QED
    BY <1>1, <2>2, Zenon
<1> HIDE DEF n
<1>5. \A q \in DOMAIN proc :
        /\ proc[q].line = typed =>
             /\ proc[q].pipes = pipe_fd /\ proc[q].ser < ser
             /\ proc[q].ser # ser
        /\ proc[q].line # typed /\ pipe_fd # NoPipes
             /\ proc[q].pipes # NoPipes => Apart(pipe_fd, proc[q].pipes)
  <2>1. \A q \in DOMAIN proc : proc[q].ser \in Nat
    BY <1>0, ProcessRange DEF Process
  <2> QED
    BY <1>0, <1>1, <1>t, <2>1 DEF LineInv
<1>6. pipe_fd # NoPipes =>
        /\ Wired(pipe_fd) /\ Len(cmd) <= Len(pipe_fd) + 1
        /\ \A i \in DOMAIN pipe_fd : Ends(pipe_fd[i]) \subseteq shellFd
        /\ pipe_fd \in Seq(Nat \ {0})
  BY <1>0, <1>1, <1>t DEF LineInv
<1>7. pipe_fd # NoPipes => /\ ser <= Len(pipe_fd) + 1
                           /\ DOMAIN pipe_fd = 1..Len(pipe_fd)
                           /\ ser # 1 => ser - 1 \in DOMAIN pipe_fd
  <2>1. Len(cmd) \in Nat
    BY <1>t
  <2> SUFFICES ASSUME pipe_fd # NoPipes
               PROVE  /\ ser <= Len(pipe_fd) + 1
                      /\ DOMAIN pipe_fd = 1..Len(pipe_fd)
                      /\ ser # 1 => ser - 1 \in DOMAIN pipe_fd
    OBVIOUS
  <2>2. Len(pipe_fd) \in Nat /\ DOMAIN pipe_fd = 1..Len(pipe_fd)
    BY <1>6
  <2> QED
    BY <1>1, <1>t, <1>6, <2>1, <2>2
<1>8. PipeTypeOK'
  BY <1>0, <1>1, <1>t, <1>4 DEF PipeTypeOK
<1>9. LineInv'
  <2>1. \A q \in DOMAIN proc : Siblings(proc[q], P) /\ Siblings(P, proc[q])
    BY <1>3, <1>5 DEF Siblings, Apart
  <2>2. \A q, r \in DOMAIN proc' : q # r => Siblings(proc'[q], proc'[r])
    BY <1>0, <1>4, <2>1 DEF LineInv
  <2>3. \A s : Wired(s)' <=> Wired(s)
    BY <1>1 DEF Wired
  <2>4. \A q \in DOMAIN proc' :
          /\ proc'[q].line <= typed
          /\ proc'[q].pipes # NoPipes =>
               /\ Wired(proc'[q].pipes)
               /\ proc'[q].ser <= Len(proc'[q].pipes) + 1
    BY <1>0, <1>3, <1>4, <1>6, <1>7, <1>t DEF LineInv
  <2>5. \A q \in DOMAIN proc' :
          IF proc'[q].line = typed
          THEN /\ proc'[q].pipes = pipe_fd
               /\ \/ proc'[q].ser < ser'
                  \/ shell' = "wait" /\ proc'[q].ser = ser'
          ELSE pipe_fd # NoPipes /\ proc'[q].pipes # NoPipes =>
                 Apart(pipe_fd, proc'[q].pipes)
    <3> TAKE q \in DOMAIN proc'
    <3>1. CASE q = n
      BY <1>1, <1>3, <1>4, <3>1
    <3>2. CASE q \in DOMAIN proc
      <4>1. proc[q].ser \in Nat
        BY <1>0, <3>2, ProcessRange DEF Process
      <4> QED
        BY <1>1, <1>4, <1>5, <3>2, <4>1
    <3> QED
      BY <1>4, <3>1, <3>2
  <2> QED
    BY <1>1, <1>6, <2>2, <2>3, <2>4, <2>5 DEF LineInv, Wired
<1>10. BridgeInv'
  <2>1. Bridged(P)
    BY <1>3, <1>6 DEF Bridged, Own
  <2> QED
    BY <1>0, <1>4, <2>1 DEF BridgeInv
<1>11. \A k : \A q \in DOMAIN proc :
         /\ HasPipe(P, k) /\ HasPipe(proc[q], k) => proc[q].line = typed
         /\ Reads(P, k) => ~Reads(proc[q], k)
         /\ Writes(P, k) => ~Writes(proc[q], k)
  <2> TAKE k
  <2> TAKE q \in DOMAIN proc
  <2>1. HasPipe(P, k) /\ HasPipe(proc[q], k) => proc[q].line = typed
    BY <1>3, <1>5 DEF HasPipe, Apart
  <2>2. /\ Reads(P, k) \/ Writes(P, k) => HasPipe(P, k)
        /\ Reads(proc[q], k) \/ Writes(proc[q], k) => HasPipe(proc[q], k)
    <3>1. Reads(proc[q], k) \/ Writes(proc[q], k) => HasPipe(proc[q], k)
      BY <1>0, Roles
    <3> QED
      BY <1>3, <1>7, <3>1 DEF Reads, Writes, HasPipe
  <2>3. ASSUME Reads(P, k), Reads(proc[q], k) PROVE FALSE
    <3>1. /\ proc[q].pipes = pipe_fd /\ proc[q].ser # ser
          /\ pipe_fd # NoPipes /\ pipe_fd[ser - 1] = k
          /\ pipe_fd[proc[q].ser - 1] = k /\ ser # 1 /\ proc[q].ser # 1
      BY <1>3, <1>5, <2>1, <2>2, <2>3 DEF Reads
    <3>2. proc[q].ser \in 1..(Len(pipe_fd) + 1) /\ Len(pipe_fd) \in Nat
      BY <1>0, <1>6, <3>1, Running
    <3>3. proc[q].ser - 1 \in DOMAIN pipe_fd /\ ser - 1 \in DOMAIN pipe_fd
      BY <1>7, <3>1, <3>2
    <3>4. proc[q].ser - 1 = ser - 1
      BY <1>6, <3>1, <3>3 DEF Wired
    <3> QED
      BY <1>t, <3>1, <3>2, <3>4
  <2>4. ASSUME Writes(P, k), Writes(proc[q], k) PROVE FALSE
    <3>1. /\ proc[q].pipes = pipe_fd /\ proc[q].ser # ser
          /\ pipe_fd # NoPipes /\ pipe_fd[ser] = k /\ pipe_fd[proc[q].ser] = k
          /\ ser \in DOMAIN pipe_fd /\ proc[q].ser \in DOMAIN pipe_fd
      BY <1>3, <1>5, <2>1, <2>2, <2>4 DEF Writes
    <3> QED
      BY <1>6, <3>1 DEF Wired
  <2> QED
    BY <2>1, <2>3, <2>4
<1>12. FlowInv'
  <2>1. \A k : /\ Taken(proc', k) = Taken(proc, k)
               /\ Given(proc', k) = Given(proc, k)
    <3> TAKE k
    <3>1. \A q, r \in DOMAIN proc :
            /\ Reads(proc[q], k) /\ Reads(proc[r], k) => q = r
            /\ Writes(proc[q], k) /\ Writes(proc[r], k) => q = r
      BY <1>0, Roles
    <3>2. \A q, r \in DOMAIN proc' :
            /\ Reads(proc'[q], k) /\ Reads(proc'[r], k) => q = r
            /\ Writes(proc'[q], k) /\ Writes(proc'[r], k) => q = r
      BY <1>4, <1>11, <3>1
    <3>3. /\ \A q \in DOMAIN proc :
               Reads(proc[q], k) => Taken(proc, k) = Got(proc[q])
          /\ (\A q \in DOMAIN proc : ~Reads(proc[q], k)) => Taken(proc, k) = 0
          /\ \A q \in DOMAIN proc :
               Writes(proc[q], k) => Given(proc, k) = proc[q].count
          /\ (\A q \in DOMAIN proc : ~Writes(proc[q], k)) => Given(proc, k) = 0
      BY <3>1, FlowOf
    <3>4. /\ \A q \in DOMAIN proc' :
               Reads(proc'[q], k) => Taken(proc', k) = Got(proc'[q])
          /\ (\A q \in DOMAIN proc' : ~Reads(proc'[q], k)) =>
               Taken(proc', k) = 0
          /\ \A q \in DOMAIN proc' :
               Writes(proc'[q], k) => Given(proc', k) = proc'[q].count
          /\ (\A q \in DOMAIN proc' : ~Writes(proc'[q], k)) =>
               Given(proc', k) = 0
      BY <3>2, FlowOf
    <3>5. Taken(proc', k) = Taken(proc, k)
      BY <1>3, <1>4, <1>11, <3>3, <3>4
    <3>6. Given(proc', k) = Given(proc, k)
      BY <1>3, <1>4, <1>11, <3>3, <3>4
    <3> QED
      BY <3>5, <3>6
  <2>2. ASSUME NEW k \in DOMAIN content, NEW i \in DOMAIN content[k],
               HasPipe(P, k)
        PROVE  content[k][i][1] = typed
    <3>1. Taken(proc, k) \in Nat
      <4>1. \A q \in DOMAIN proc : Got(proc[q]) \in Nat
        BY <1>0, ProcessRange DEF Got, Process
      <4> QED
        BY <4>1 DEF Taken
    <3>2. Len(content[k]) \in Nat /\ Len(content[k]) > 0
      BY <1>t, <2>2
    <3>3. Given(proc, k) # 0
      BY <1>0, <3>1, <3>2 DEF FlowInv
    <3>4. PICK q \in DOMAIN proc : Writes(proc[q], k)
      BY <3>3 DEF Given
    <3>5. HasPipe(proc[q], k)
      BY <1>0, <3>4, Roles
    <3> QED
      BY <1>0, <1>11, <2>2, <3>5 DEF FlowInv
  <2> QED
    BY <1>0, <1>1, <1>3, <1>4, <2>1, <2>2 DEF FlowInv
<1>13. TerminalInv'
  <2>1. ASSUME Shows(P), NEW i \in DOMAIN terminal, terminal[i][1] = typed
        PROVE  FALSE
    <3>1. PICK q \in DOMAIN proc : Shows(proc[q]) /\ proc[q].line = typed
      BY <1>0, <2>1 DEF TerminalInv
    <3> QED
      BY <1>3, <1>5, <2>1, <3>1 DEF Shows
  <2>2. Shows(P) => Cardinality({i \in DOMAIN terminal :
                                   terminal[i][1] = typed}) = 0
    <3> SUFFICES ASSUME Shows(P)
                 PROVE  Cardinality({i \in DOMAIN terminal :
                                       terminal[i][1] = typed}) = 0
      OBVIOUS
    <3>1. {i \in DOMAIN terminal : terminal[i][1] = typed} = {}
      BY <2>1
    <3> QED
      BY <3>1, FS_EmptySet
  <2>3. TextInOrder'
    BY <1>0, <1>1 DEF TerminalInv, TextInOrder
  <2>4. \A i \in DOMAIN terminal' : \E q \in DOMAIN proc' :
          Shows(proc'[q]) /\ terminal'[i][1] = proc'[q].line
    <3> TAKE i \in DOMAIN terminal'
    <3>1. PICK q \in DOMAIN proc :
                 Shows(proc[q]) /\ terminal[i][1] = proc[q].line
      BY <1>0, <1>1 DEF TerminalInv
    <3> QED
      BY <1>1, <1>4, <3>1
  <2>5. \A q \in DOMAIN proc' : Shows(proc'[q]) =>
          Cardinality({i \in DOMAIN terminal : terminal[i][1] = proc'[q].line})
            = proc'[q].count
    <3> TAKE q \in DOMAIN proc'
    <3>1. CASE q = n
      BY <1>3, <1>4, <2>2, <3>1
    <3>2. CASE q \in DOMAIN proc
      BY <1>0, <1>4, <3>2 DEF TerminalInv
    <3> QED
      BY <1>4, <3>1, <3>2
  <2> QED
    BY <1>1, <2>3, <2>4, <2>5 DEF TerminalInv
<1> QED
  BY <1>8, <1>9, <1>10, <1>12, <1>13 DEF PipeInv

\* The shell that has waited for a child keeps the invariant.
LEMMA ChildWaitedFor ==
  ASSUME PipeInv, Wait
  PROVE  PipeInv'
<1>0. PipeTypeOK /\ LineInv /\ BridgeInv /\ FlowInv /\ TerminalInv
  BY DEF PipeInv
<1>1. /\ shell = "wait" /\ shell' = "fork" /\ ser' = ser + 1
      /\ ser \in Nat \ {0} /\ ser' \in Nat \ {0}
      /\ UNCHANGED <<typed, cmd, pipe_fd, content, shellFd, terminal>>
  BY <1>0 DEF Wait, PipeTypeOK
<1>2. /\ proc' \in Seq(Process) /\ DOMAIN proc' = DOMAIN proc
      /\ \A q \in DOMAIN proc : SameCommand(proc'[q], proc[q])
      /\ BridgeInv' /\ FlowInv' /\ TerminalInv'
  <2>1. CASE proc' = proc
    <3>1. /\ proc \in Seq(Process)
          /\ \A q \in DOMAIN proc : SameCommand(proc[q], proc[q])
      BY <1>0 DEF PipeTypeOK, SameCommand
    <3> QED
      BY <1>0, <1>1, <2>1, <3>1
         DEF BridgeInv, FlowInv, TerminalInv, TextInOrder
  <2>2. CASE \E p \in DOMAIN proc :
               /\ proc[p].state = "zombie"
               /\ proc' = [proc EXCEPT ![p].state = "reaped"]
    <3>1. PICK p \in DOMAIN proc :
                 /\ proc[p].state = "zombie"
                 /\ proc' = [proc EXCEPT ![p].state = "reaped"]
      BY <2>2
    <3> DEFINE r == [proc[p] EXCEPT !.state = "reaped"]
    <3>2. proc[p] \in Process
      BY <1>0, ProcessRange
    <3>3. r \in Process /\ SameCommand(r, proc[p])
      BY <3>2 DEF Process, SameCommand
    <3>4. proc' = [proc EXCEPT ![p] = r]
      BY <3>1
    <3>5. /\ r.state = "reaped" /\ r.count = proc[p].count
          /\ r.hold = proc[p].hold
      BY <3>2 DEF Process
    <3> HIDE DEF r
    <3>6. Only(p) /\ proc'[p] = r
      BY <1>0, <3>3, <3>4, ChangeOne
    <3>7. Bridged(proc'[p]) /\ Got(proc'[p]) = Got(proc[p])
      BY <1>0, <3>3, <3>5, <3>6 DEF BridgeInv, Bridged, Got, SameCommand
    <3>8. BridgeInv'
      BY <1>0, <3>6, <3>7, BridgeKept
    <3>9. FlowInv'
      BY <1>0, <1>1, <3>5, <3>6, <3>7, FlowKept
    <3>10. TerminalInv'
      BY <1>0, <1>1, <3>5, <3>6, TerminalKept
    <3> QED
      BY <3>6, <3>8, <3>9, <3>10 DEF Only, SameCommand
  <2> QED
    BY <2>1, <2>2 DEF Wait
<1>3. PipeTypeOK'
  BY <1>0, <1>1, <1>2 DEF PipeTypeOK
<1>4. LineInv'
  <2>1. \A q, r \in DOMAIN proc :
          q # r => Siblings(proc'[q], proc'[r])
    BY <1>0, <1>2 DEF SameCommand, Siblings, LineInv
  <2>2. \A q \in DOMAIN proc :
          /\ proc'[q].line <= typed
          /\ proc'[q].pipes # NoPipes =>
               /\ Wired(proc'[q].pipes)
               /\ proc'[q].ser <= Len(proc'[q].pipes) + 1
    BY <1>0, <1>2 DEF SameCommand, LineInv
  <2>3. \A q \in DOMAIN proc : proc[q].ser \in Nat
    BY <1>0, ProcessRange DEF Process
  <2>4. \A q \in DOMAIN proc :
          IF proc'[q].line = typed
          THEN proc'[q].pipes = pipe_fd /\ proc'[q].ser < ser'
          ELSE pipe_fd # NoPipes /\ proc'[q].pipes # NoPipes =>
                 Apart(pipe_fd, proc'[q].pipes)
    BY <1>0, <1>1, <1>2, <2>3 DEF SameCommand, LineInv
  <2>5. \A s : Wired(s)' <=> Wired(s)
    BY <1>1 DEF Wired
  <2>6. pipe_fd # NoPipes =>
          /\ Wired(pipe_fd) /\ Len(cmd) <= Len(pipe_fd) + 1
          /\ \A i \in DOMAIN pipe_fd : Ends(pipe_fd[i]) \subseteq shellFd
    BY <1>0, <1>1 DEF LineInv
  <2> QED
    BY <1>1, <1>2, <2>1, <2>2, <2>4, <2>5, <2>6 DEF LineInv, Wired
<1> QED
  BY <1>2, <1>3, <1>4 DEF PipeInv

\* The invariant holds at first, when there is neither a process nor a pipe.
LEMMA PipeInit ==
  ASSUME ShellInit
  PROVE  PipeInv
<1>1. /\ shell = "prompt" /\ typed = 0 /\ cmd = <<>> /\ ser = 1
      /\ pipe_fd = NoPipes /\ content = <<>> /\ shellFd = {} /\ proc = <<>>
      /\ terminal = <<>>
  BY DEF ShellInit
<1>2. DOMAIN <<>> = {} /\ Len(<<>>) = 0 /\ \A S : <<>> \in Seq(S)
  OBVIOUS
<1>3. UINT_RANGE \in Nat
  BY PipelineAssumption
<1>4. PipeTypeOK
  BY <1>1, <1>2, <1>3 DEF PipeTypeOK
<1>5. LineInv
  BY <1>1, <1>2 DEF LineInv
<1>6. BridgeInv /\ FlowInv /\ TerminalInv
  BY <1>1, <1>2 DEF BridgeInv, FlowInv, TerminalInv, TextInOrder
<1> QED
  BY <1>4, <1>5, <1>6 DEF PipeInv

\* The invariant of the pipelines: the types; that commands of one line share
\* their pipes and those of two lines none; what a bridge keeps open; that a
\* pipe holds what its writer wrote and its reader has not read; that the
\* terminal has what the last commands of the lines wrote.
THEOREM PipeInvHolds == ShellSpec => []PipeInv
<1>1. ShellInit => PipeInv
  BY PipeInit
<1>2. PipeInv /\ [ShellNext]_shellVars => PipeInv'
  <2> SUFFICES ASSUME PipeInv, [ShellNext]_shellVars PROVE PipeInv'
    OBVIOUS
  <2>1. CASE Type \/ ExitApp \/ MallocFails \/ Prompt
    BY <2>1, ShellTurns
  <2>2. CASE SetPipeSystem
    BY <2>2, PipesMade
  <2>3. CASE Fork
    BY <2>3, CommandForked
  <2>4. CASE Wait
    BY <2>4, ChildWaitedFor
  <2>5. CASE \E p \in DOMAIN proc : Run(p)
    BY <2>5, RunStep
  <2>6. CASE UNCHANGED shellVars
    <3>1. UNCHANGED <<shell, typed, cmd, ser, pipe_fd, content, shellFd, proc,
                     terminal>>
      BY <2>6 DEF shellVars
    <3>2. /\ PipeTypeOK' <=> PipeTypeOK
          /\ BridgeInv' <=> BridgeInv
          /\ FlowInv' <=> FlowInv
      BY <3>1 DEF PipeTypeOK, BridgeInv, FlowInv
    <3>3. LineInv' <=> LineInv
      BY <3>1, ZenonT(60) DEF LineInv, Wired
    <3>4. TerminalInv' <=> TerminalInv
      BY <3>1, Zenon DEF TerminalInv, TextInOrder
    <3> QED
      BY <3>2, <3>3, <3>4 DEF PipeInv
  <2> QED
    BY <2>1, <2>2, <2>3, <2>4, <2>5, <2>6 DEF ShellNext, Shell
<1> QED
  BY <1>1, <1>2, PTL DEF ShellSpec

\* A line of commands brings the lines of its source to the terminal once and
\* in order (the loops of the programs of lesson 20's pipelines), for any
\* number of lines typed and of commands in them.
THEOREM TextInOrderHolds == ShellSpec => []TextInOrder
<1>1. PipeInv => TextInOrder
  BY DEF PipeInv, TerminalInv
<1> QED
  BY <1>1, PipeInvHolds, PTL

\* What is left open by the loops of make_pipe_bridge(): the two ends of the
\* bridge, as no pipe of a line is there twice.
LEMMA OwnButClosed ==
  ASSUME PipeTypeOK, LineInv, NEW p \in DOMAIN proc, proc[p].pipes # NoPipes
  PROVE  Own(proc[p]) \ Closed(proc[p]) =
           (({Input(proc[p])} \X {"r"}) \cup ({Output(proc[p])} \X {"w"}))
             \cap Own(proc[p])
<1> DEFINE P == proc[p]
           s == P.pipes
<1>1. /\ s \in Seq(Nat \ {0}) /\ P.ser \in 1..(Len(s) + 1)
      /\ \A i, j \in DOMAIN s : s[i] = s[j] => i = j
      /\ \/ Input(P) = Terminal /\ P.ser = 1
         \/ P.ser - 1 \in DOMAIN s /\ Input(P) = s[P.ser - 1]
      /\ \/ Output(P) = Terminal /\ P.ser = Len(s) + 1
         \/ P.ser \in DOMAIN s /\ Output(P) = s[P.ser]
  BY Running DEF Wired, Shows
<1>2. DOMAIN s = 1..Len(s) /\ Len(s) \in Nat
      /\ \A i \in DOMAIN s : s[i] # Terminal
  BY <1>1 DEF Terminal
<1>3. /\ P.ser = 1 => P.ser - 1 \notin DOMAIN s
      /\ P.ser = Len(s) + 1 => P.ser \notin DOMAIN s
  BY <1>1, <1>2
<1> HIDE DEF s, P
<1>4. ASSUME NEW i \in DOMAIN s
      PROVE  /\ <<s[i], "r">> \in Closed(P) <=> i # P.ser - 1
             /\ <<s[i], "w">> \in Closed(P) <=> i # P.ser
             /\ s[i] = Input(P) <=> i = P.ser - 1
             /\ s[i] = Output(P) <=> i = P.ser
  <2>1. <<s[i], "r">> \in Closed(P) <=> i # P.ser - 1
    BY <1>1 DEF Closed, s
  <2>2. <<s[i], "w">> \in Closed(P) <=> i # P.ser
    BY <1>1 DEF Closed, s
  <2>3. s[i] = Input(P) <=> i = P.ser - 1
    BY <1>1, <1>2, <1>3
  <2>4. s[i] = Output(P) <=> i = P.ser
    BY <1>1, <1>2, <1>3
  <2> QED
    BY <2>1, <2>2, <2>3, <2>4
<1>5. \A e : e \in Own(P) <=>
        \E i \in DOMAIN s : e = <<s[i], "r">> \/ e = <<s[i], "w">>
  BY DEF Own, Ends, s
<1>6. ASSUME NEW e \in Own(P)
      PROVE  e \notin Closed(P) <=>
               e \in ({Input(P)} \X {"r"}) \cup ({Output(P)} \X {"w"})
  <2>1. PICK i \in DOMAIN s : e = <<s[i], "r">> \/ e = <<s[i], "w">>
    BY <1>5
  <2>2. CASE e = <<s[i], "r">>
    BY <1>4, <2>2
  <2>3. CASE e = <<s[i], "w">>
    BY <1>4, <2>3
  <2> QED
    BY <2>1, <2>2, <2>3
<1> QED
  BY <1>6 DEF P

\* The comment of make_pipe_bridge(): of the pipes of its line a running
\* process has the two ends of its bridge open and no others, and one pipe
\* joins two neighbours, in a line of any length and whatever lines ran before.
THEOREM BridgeIsPrivateHolds == ShellSpec => []BridgeIsPrivate
<1>1. PipeInv => BridgeIsPrivate
  <2> SUFFICES ASSUME PipeInv, NEW p \in DOMAIN proc,
                      proc[p].state = "running"
               PROVE  /\ proc[p].fds \cap Own(proc[p]) =
                           (({proc[p].in} \X {"r"}) \cup
                            ({proc[p].out} \X {"w"})) \cap Own(proc[p])
                      /\ \A q \in DOMAIN proc :
                           /\ proc[q].state = "running"
                           /\ proc[q].line = proc[p].line
                           /\ proc[q].ser = proc[p].ser + 1
                           => /\ proc[p].out = proc[q].in
                              /\ proc[p].out # Terminal
    BY DEF BridgeIsPrivate, Own
  <2>1. PipeTypeOK /\ LineInv /\ BridgeInv
    BY DEF PipeInv
  <2>2. /\ proc[p].pipes # NoPipes /\ proc[p].in = Input(proc[p])
        /\ proc[p].out = Output(proc[p])
        /\ proc[p].fds \cap Own(proc[p]) = Own(proc[p]) \ Closed(proc[p])
    BY <2>1 DEF BridgeInv, Bridged
  <2>3. ASSUME NEW q \in DOMAIN proc, proc[q].state = "running",
               proc[q].line = proc[p].line, proc[q].ser = proc[p].ser + 1
        PROVE  proc[p].out = proc[q].in /\ proc[p].out # Terminal
    <3>1. proc[q].in = Input(proc[q]) /\ proc[q].pipes # NoPipes
      BY <2>1, <2>3 DEF BridgeInv, Bridged
    <3>2. proc[p].ser \in Nat \ {0} /\ p # q
      BY <2>1, <2>3, ProcessRange DEF Process
    <3>3. proc[q].pipes = proc[p].pipes
      BY <2>1, <2>3, <3>2 DEF LineInv, Siblings
    <3>4. /\ proc[p].pipes \in Seq(Nat \ {0})
          /\ proc[q].ser \in 1..(Len(proc[p].pipes) + 1)
      BY <2>1, <3>1, <3>3, Running
    <3>5. proc[p].ser \in DOMAIN proc[p].pipes
          /\ proc[p].pipes[proc[p].ser] # 0
          /\ proc[p].ser # Len(proc[p].pipes) + 1
      BY <2>3, <3>2, <3>4
    <3>6. proc[q].ser # 1 /\ proc[q].ser - 1 = proc[p].ser
      BY <2>3, <3>2
    <3> QED
      BY <2>2, <3>1, <3>3, <3>5, <3>6 DEF Input, Output, Terminal
  <2> QED
    BY <2>1, <2>2, <2>3, OwnButClosed
<1> QED
  BY <1>1, PipeInvHolds, PTL

----------------------------------------------------------------------------
(* The file manager: lists of directories and texts.                       *)

\* A function to a smaller set takes a value twice.
LEMMA Collision ==
  \A S, T, f :
    IsFiniteSet(S) /\ IsFiniteSet(T) /\ Cardinality(T) < Cardinality(S)
      /\ f \in [S -> T]
    => \E x, y \in S : x # y /\ f[x] = f[y]
<1> SUFFICES ASSUME NEW S, IsFiniteSet(S), NEW T, IsFiniteSet(T),
                    Cardinality(T) < Cardinality(S), NEW f \in [S -> T]
             PROVE  \E x, y \in S : x # y /\ f[x] = f[y]
  OBVIOUS
<1> QED
  BY FS_PigeonHole

\* In a finite set of places there is an n-th one.
LEMMA NthPlace ==
  ASSUME NEW S, S \subseteq Nat \ {0}, IsFiniteSet(S),
         NEW n, n \in 1..Cardinality(S)
  PROVE  \E i \in S : Cardinality(S \cap 1..i) = n
<1> SUFFICES ASSUME \A i \in S : Cardinality(S \cap 1..i) # n PROVE FALSE
  OBVIOUS
<1> DEFINE T == (1..Cardinality(S)) \ {n}
           f == [i \in S |-> Cardinality(S \cap 1..i)]
<1>1. Cardinality(S) \in Nat
  BY FS_CardinalityType
<1>2. ASSUME NEW i \in S
      PROVE  /\ IsFiniteSet(S \cap 1..i) /\ Cardinality(S \cap 1..i) \in Nat
             /\ Cardinality(S \cap 1..i) <= Cardinality(S)
             /\ Cardinality(S \cap 1..i) # 0
  <2>1. /\ IsFiniteSet(S \cap 1..i)
        /\ Cardinality(S \cap 1..i) <= Cardinality(S)
    BY FS_Subset
  <2>2. i \in S \cap 1..i
    OBVIOUS
  <2> QED
    BY <2>1, <2>2, FS_EmptySet, FS_CardinalityType
<1>3. f \in [S -> T]
  BY <1>1, <1>2
<1>4. IsFiniteSet(T) /\ Cardinality(T) < Cardinality(S)
  <2>1. IsFiniteSet(1..Cardinality(S))
    BY <1>1, FS_Interval
  <2>2. Cardinality(1..Cardinality(S)) = Cardinality(S)
    BY <1>1, FS_Interval
  <2> HIDE DEF f
  <2>3. n \in 1..Cardinality(S)
    OBVIOUS
  <2>r. ASSUME NEW U, IsFiniteSet(U), NEW u \in U
        PROVE  IsFiniteSet(U \ {u}) /\ Cardinality(U \ {u}) = Cardinality(U) - 1
    BY <2>r, FS_RemoveElement
  <2>4. IsFiniteSet(T) /\ Cardinality(T) = Cardinality(S) - 1
    BY <2>1, <2>2, <2>3, <2>r
  <2> QED
    BY <1>1, <2>4
<1>5. PICK x, y \in S : x # y /\ f[x] = f[y]
  <2>1. IsFiniteSet(S)
    OBVIOUS
  <2> HIDE DEF T, f
  <2> QED
    BY ONLY <1>3, <1>4, <2>1, Collision
<1>6. ASSUME NEW a \in S, NEW b \in S, a < b
      PROVE  Cardinality(S \cap 1..a) < Cardinality(S \cap 1..b)
  <2>1. (S \cap 1..a) \cup {b} \subseteq S \cap 1..b /\ b \notin S \cap 1..a
    BY <1>6
  <2>2. Cardinality((S \cap 1..a) \cup {b}) = Cardinality(S \cap 1..a) + 1
    BY <1>2, <2>1, FS_AddElement
  <2>3. Cardinality((S \cap 1..a) \cup {b}) <= Cardinality(S \cap 1..b)
    BY <1>2, <2>1, FS_Subset
  <2> QED
    BY <1>2, <2>2, <2>3
<1>7. Cardinality(S \cap 1..x) = Cardinality(S \cap 1..y)
  BY <1>5
<1>8. x < y \/ y < x
  BY <1>5
<1> QED
  BY <1>2, <1>6, <1>7, <1>8

\* A pick takes as many elements as there are places, all of them from there.
LEMMA Picked ==
  ASSUME NEW T, NEW seq \in Seq(T), NEW P, P \subseteq DOMAIN seq
  PROVE  /\ Pick(seq, P) \in Seq({seq[i] : i \in P})
         /\ Len(Pick(seq, P)) = Cardinality(P)
         /\ IsFiniteSet(P) /\ Cardinality(P) \in Nat
<1> DEFINE n == Cardinality(P)
           e(k) == CHOOSE i \in P : Cardinality(P \cap 1..i) = k
           V == {seq[i] : i \in P}
<1>1. DOMAIN seq = 1..Len(seq) /\ Len(seq) \in Nat
  OBVIOUS
<1>2. P \subseteq Nat \ {0} /\ IsFiniteSet(P)
  <2>1. IsFiniteSet(1..Len(seq))
    BY <1>1, FS_Interval
  <2> QED
    BY <1>1, <2>1, FS_Subset
<1>3. n \in Nat
  BY <1>2, FS_CardinalityType
<1>4. \A k \in 1..n : e(k) \in P
  BY <1>2, NthPlace
<1>5. Pick(seq, P) = [k \in 1..n |-> seq[e(k)]]
  BY DEF Pick
<1>6. \A k \in 1..n : seq[e(k)] \in V
  BY <1>4
<1> HIDE DEF e, n, V
<1>7. [k \in 1..n |-> seq[e(k)]] \in Seq(V)
      /\ Len([k \in 1..n |-> seq[e(k)]]) = n
  BY <1>3, <1>6
<1> QED
  BY <1>2, <1>3, <1>5, <1>7 DEF n, V

\* Who picks every place has the sequence.
LEMMA PickedAll ==
  ASSUME NEW T, NEW seq \in Seq(T)
  PROVE  Pick(seq, DOMAIN seq) = seq
<1> DEFINE n == Len(seq)
           e(k) == CHOOSE i \in 1..n : Cardinality(1..n \cap 1..i) = k
<1>1. DOMAIN seq = 1..n /\ n \in Nat
  OBVIOUS
<1> HIDE DEF n
<1>2. ASSUME NEW i \in 1..n
      PROVE  Cardinality(1..n \cap 1..i) = i
  <2>1. 1..n \cap 1..i = 1..i /\ i \in Nat
    BY <1>1
  <2>2. ASSUME NEW m \in Nat
        PROVE  Cardinality(1..m) = m
    BY FS_Interval
  <2> QED
    BY <2>1, <2>2
<1>3. Cardinality(1..n) = n
  <2>1. ASSUME NEW m \in Nat
        PROVE  Cardinality(1..m) = m
    BY FS_Interval
  <2> QED
    BY <1>1, <2>1
<1>4. \A k \in 1..n : e(k) = k
  BY <1>2
<1>5. Pick(seq, DOMAIN seq) = [k \in 1..n |-> seq[e(k)]]
  BY <1>1, <1>3 DEF Pick
<1> HIDE DEF e
<1>6. Pick(seq, DOMAIN seq) = [k \in 1..n |-> seq[k]]
  BY <1>4, <1>5
<1> QED
  BY <1>1, <1>6 DEF n

\* scandir() returns entries, and "." at least.
LEMMA ScanReturns ==
  ASSUME NEW d, d \notin Unreadable
  PROVE  Scan(d) \in Seq(ToSet(Order)) /\ Len(Scan(d)) > 0
<1> DEFINE S == Entries(d)
<1>1. /\ Order \in Seq(Dir \cup File \cup {Dot, DotDot})
      /\ Dot \in {Order[i] : i \in DOMAIN Order}
  BY FileManagerAssumption DEF ToSet
<1>2. S \subseteq DOMAIN Order /\ S # {}
  BY <1>1 DEF Entries, Listed
<1> HIDE DEF S
<1>3. /\ Pick(Order, S) \in Seq({Order[i] : i \in S})
      /\ Len(Pick(Order, S)) = Cardinality(S)
      /\ IsFiniteSet(S) /\ Cardinality(S) \in Nat
  BY <1>1, <1>2, Picked
<1>4. Cardinality(S) > 0
  BY <1>2, <1>3, FS_EmptySet
<1>5. {Order[i] : i \in S} \subseteq ToSet(Order)
  BY <1>2 DEF ToSet
<1>6. Pick(Order, S) \in Seq(ToSet(Order))
  <2> HIDE DEF Pick
  <2>1. ASSUME NEW U, NEW V, U \subseteq V, NEW s \in Seq(U)
        PROVE  s \in Seq(V)
    BY <2>1
  <2> QED
    BY <1>3, <1>5, <2>1
<1> QED
  BY <1>3, <1>4, <1>6 DEF Scan, S

\* A text up to a character is a beginning of it without that character.
LEMMA UpToType ==
  ASSUME NEW text \in Texts, NEW c
  PROVE  /\ UpTo(text, c) \in Texts /\ Len(UpTo(text, c)) <= Len(text)
         /\ c \notin ToSet(UpTo(text, c))
         /\ \A x : x \notin ToSet(text) => x \notin ToSet(UpTo(text, c))
<1> DEFINE P == {i \in DOMAIN text : c \notin {text[j] : j \in 1..i}}
           n == Cardinality(P)
<1>1. text \in Seq(Char) /\ Len(text) \in Nat /\ DOMAIN text = 1..Len(text)
  BY DEF Texts
<1>2. IsFiniteSet(1..Len(text)) /\ Cardinality(1..Len(text)) = Len(text)
  BY <1>1, FS_Interval
<1>3. P \subseteq 1..Len(text)
  BY <1>1
<1>4. /\ IsFiniteSet(P) /\ n \in Nat /\ n <= Len(text)
  <2> HIDE DEF P
  <2> QED
    BY <1>2, <1>3, FS_Subset, FS_CardinalityType
<1>5. ASSUME NEW i \in 1..n, text[i] = c PROVE FALSE
  <2>1. \A m \in P : m < i
    BY <1>1, <1>4, <1>5
  <2>2. P \subseteq 1..(i - 1)
    BY <1>1, <2>1
  <2>3. IsFiniteSet(1..(i - 1)) /\ Cardinality(1..(i - 1)) = i - 1
    <3>1. i - 1 \in Nat
      BY <1>4
    <3>2. ASSUME NEW m \in Nat
          PROVE  IsFiniteSet(1..m) /\ Cardinality(1..m) = m
      BY FS_Interval
    <3> QED
      BY <3>1, <3>2
  <2>4. n <= i - 1
    <3> HIDE DEF P
    <3> QED
      BY <2>2, <2>3, FS_Subset, ZenonT(60)
  <2> QED
    BY <1>4, <2>4
<1>6. UpTo(text, c) = SubSeq(text, 1, n)
  BY DEF UpTo
<1> HIDE DEF n
<1>7. /\ SubSeq(text, 1, n) \in Seq(Char) /\ Len(SubSeq(text, 1, n)) = n
      /\ \A i \in 1..n : SubSeq(text, 1, n)[i] = text[i]
      /\ DOMAIN SubSeq(text, 1, n) = 1..n
  BY <1>1, <1>4
<1>8. \A x : x \in ToSet(UpTo(text, c)) => \E i \in 1..n : text[i] = x
  BY <1>6, <1>7 DEF ToSet
<1>9. \A i \in 1..n : text[i] \in ToSet(text)
  BY <1>1, <1>4 DEF ToSet
<1> QED
  BY <1>4, <1>5, <1>6, <1>7, <1>8, <1>9 DEF Texts

\* Where a text has its first c, or that it has none.
LEMMA UpToFirst ==
  ASSUME NEW text \in Texts, NEW c, NEW n \in Nat, n <= Len(text),
         \A j \in 1..n : text[j] # c, n < Len(text) => text[n + 1] = c
  PROVE  UpTo(text, c) = SubSeq(text, 1, n)
<1> DEFINE P == {i \in DOMAIN text : c \notin {text[j] : j \in 1..i}}
<1>1. text \in Seq(Char) /\ Len(text) \in Nat /\ DOMAIN text = 1..Len(text)
  BY DEF Texts
<1>2. P = 1..n
  <2>1. ASSUME NEW i \in 1..Len(text)
        PROVE  (c \notin {text[j] : j \in 1..i}) <=> i \in 1..n
    <3>1. CASE i <= n
      BY <3>1
    <3>2. CASE i > n
      <4>1. n + 1 \in 1..i /\ n < Len(text)
        BY <1>1, <3>2
      <4> QED
        BY <3>2, <4>1
    <3> QED
      BY <1>1, <3>1, <3>2
  <2> QED
    BY <1>1, <2>1
<1>3. Cardinality(1..n) = n
  <2>1. ASSUME NEW m \in Nat
        PROVE  Cardinality(1..m) = m
    BY FS_Interval
  <2> QED
    BY <2>1
<1> QED
  BY <1>2, <1>3 DEF UpTo

\* The first characters of a text.
LEMMA BeginningType ==
  ASSUME NEW text \in Texts, NEW n \in Nat
  PROVE  /\ Beginning(text, n) \in Texts /\ Len(Beginning(text, n)) <= n
         /\ Len(Beginning(text, n)) \in Nat
         /\ \A x : x \notin ToSet(text) => x \notin ToSet(Beginning(text, n))
         /\ Len(text) <= n => Beginning(text, n) = text
<1> DEFINE m == IF Len(text) < n THEN Len(text) ELSE n
           s == SubSeq(text, 1, m)
<1>1. text \in Seq(Char) /\ Len(text) \in Nat
  BY DEF Texts
<1>2. m \in Nat /\ m <= Len(text) /\ m <= n
  BY <1>1
<1>3. Len(text) <= n => m = Len(text)
  BY <1>1
<1> HIDE DEF m
<1>4. /\ s \in Seq(Char) /\ Len(s) = m /\ \A i \in 1..m : s[i] = text[i]
      /\ DOMAIN s = 1..m
  BY <1>1, <1>2
<1>5. m = Len(text) => s = text
  BY <1>1, <1>4
<1>6. \A x : x \in ToSet(s) => x \in ToSet(text)
  <2>1. \A i \in 1..m : text[i] \in ToSet(text)
    BY <1>1, <1>2 DEF ToSet
  <2>2. ToSet(s) = {s[i] : i \in 1..m}
    BY <1>4 DEF ToSet
  <2> HIDE DEF s
  <2> QED
    BY <1>4, <2>1, <2>2
<1> QED
  BY <1>2, <1>3, <1>4, <1>5, <1>6 DEF Beginning, m, Texts

\* The string in the buffer of the editor.
LEMMA AsStringType ==
  ASSUME NEW text \in Texts
  PROVE  AsString(text) \in Texts /\ NUL \notin ToSet(AsString(text))
<1>1. MAX_SIZE_OF_TEXT \in Nat
  BY FileManagerAssumption
<1>2. Beginning(text, MAX_SIZE_OF_TEXT) \in Texts
  BY <1>1, BeginningType
<1> QED
  BY <1>2, UpToType DEF AsString

\* What is printed of a string are characters of it.
LEMMA PrintedType ==
  ASSUME NEW string \in Texts
  PROVE  /\ Printed(string) \in Texts
         /\ \A x : x \notin ToSet(string) => x \notin ToSet(Printed(string))
<1> DEFINE P == {i \in DOMAIN string :
                   string[i] = PCT => RunTo(string, i) % 2 = 1}
           V == {string[i] : i \in P}
<1>1. string \in Seq(Char) /\ P \subseteq DOMAIN string
  BY DEF Texts
<1>2. V \subseteq ToSet(string) /\ V \subseteq Char
  BY <1>1 DEF ToSet
<1>3. Printed(string) = Pick(string, P)
  BY DEF Printed
<1> HIDE DEF P
<1>4. Pick(string, P) \in Seq(V)
  BY <1>1, Picked
<1> HIDE DEF V
<1>5. ASSUME NEW s \in Seq(V)
      PROVE  s \in Seq(Char) /\ \A x : x \in ToSet(s) => x \in V
  BY <1>2 DEF ToSet
<1>6. /\ Pick(string, P) \in Seq(Char)
      /\ \A x : x \in ToSet(Pick(string, P)) => x \in V
  BY <1>4, <1>5
<1> QED
  BY <1>2, <1>3, <1>6 DEF Texts

\* A short string without '%' is a format that prints itself.
LEMMA PrintedAsItIs ==
  ASSUME NEW string \in Texts, PCT \notin ToSet(string),
         Len(string) < MAX_SIZE_OF_TEXT
  PROVE  IsFormat(string) /\ Printed(string) = string
<1>1. string \in Seq(Char) /\ \A i \in DOMAIN string : string[i] # PCT
  BY DEF Texts, ToSet
<1>2. ASSUME NEW i \in DOMAIN string
      PROVE  RunTo(string, i) = 0
  <2>1. i \in Nat
    BY <1>1
  <2>2. {j \in 1..i : \A n \in j..i : string[n] = PCT} = {}
    BY <1>1, <1>2, <2>1
  <2> QED
    BY <2>2, FS_EmptySet DEF RunTo
<1>3. IsFormat(string)
  BY <1>2 DEF IsFormat
<1>4. {i \in DOMAIN string : string[i] = PCT => RunTo(string, i) % 2 = 1}
        = DOMAIN string
  BY <1>1
<1> QED
  BY <1>1, <1>3, <1>4, PickedAll DEF Printed

\* A line that was written to a new file, or with the zeros behind it over the
\* beginning of an old one, is the string that is read again.
LEMMA WrittenIsRead ==
  ASSUME NEW text \in Texts, NUL \notin ToSet(text),
         Len(text) < MAX_SIZE_OF_TEXT, NEW old \in Texts
  PROVE  /\ AsString(text) = text
         /\ Padded(text) \in Texts
         /\ AsString(Overwrite(old, Padded(text))) = text
<1> DEFINE M == MAX_SIZE_OF_TEXT
           n == Len(text)
           pad == Padded(text)
           rest == SubSeq(old, Len(pad) + 1, Len(old))
<1>1. /\ text \in Seq(Char) /\ old \in Seq(Char) /\ M \in Nat /\ n \in Nat
      /\ n < M /\ NUL \in Char /\ Len(old) \in Nat
  BY FileManagerAssumption DEF Texts
<1>2. \A j \in 1..n : text[j] # NUL
  BY <1>1 DEF ToSet
<1>3. /\ pad \in Seq(Char) /\ Len(pad) = M
      /\ \A j \in 1..n : pad[j] = text[j]
      /\ \A j \in (n + 1)..M : pad[j] = NUL
  <2> DEFINE z == [i \in 1..(M - n) |-> NUL]
  <2>1. z \in Seq(Char) /\ Len(z) = M - n /\ \A i \in 1..(M - n) : z[i] = NUL
    BY <1>1
  <2>2. pad = text \o z
    BY DEF Padded
  <2> HIDE DEF z, pad, M, n
  <2>3. /\ text \o z \in Seq(Char) /\ Len(text \o z) = n + (M - n)
        /\ \A j \in 1..n : (text \o z)[j] = text[j]
        /\ \A j \in (n + 1)..(n + (M - n)) : (text \o z)[j] = z[j - n]
    BY <1>1, <2>1 DEF n
  <2>4. n + (M - n) = M
    BY <1>1
  <2>5. \A j \in (n + 1)..M : j - n \in 1..(M - n)
    BY <1>1
  <2> QED
    BY <2>1, <2>2, <2>3, <2>4, <2>5
<1>4. rest \in Seq(Char)
  <2> HIDE DEF pad
  <2> QED
    BY <1>1, <1>3
<1>5. SubSeq(pad, 1, n) = text
  <2> HIDE DEF pad, M
  <2>1. SubSeq(pad, 1, n) \in Seq(Char) /\ Len(SubSeq(pad, 1, n)) = n
        /\ \A j \in 1..n : SubSeq(pad, 1, n)[j] = pad[j]
    BY <1>1, <1>3
  <2> QED
    BY <1>1, <1>3, <2>1
<1>6. Beginning(pad \o rest, M) = pad
  <2> HIDE DEF pad, rest, M, n
  <2>1. /\ pad \o rest \in Seq(Char) /\ Len(pad \o rest) = M + Len(rest)
        /\ \A j \in 1..M : (pad \o rest)[j] = pad[j]
        /\ Len(rest) \in Nat
    <3>1. pad \in Seq(Char) /\ rest \in Seq(Char)
      BY <1>3, <1>4
    <3>2. /\ pad \o rest \in Seq(Char)
          /\ Len(pad \o rest) = Len(pad) + Len(rest)
          /\ DOMAIN (pad \o rest) = 1..(Len(pad) + Len(rest))
          /\ DOMAIN pad = 1..Len(pad) /\ Len(pad) \in Nat /\ Len(rest) \in Nat
          /\ \A j \in 1..Len(pad) : (pad \o rest)[j] = pad[j]
          /\ \A j \in (Len(pad) + 1)..(Len(pad) + Len(rest)) :
               (pad \o rest)[j] = rest[j - Len(pad)]
      BY ONLY <3>1, Concatenated, ZenonT(60)
    <3> QED
      BY <1>3, <3>2, Zenon
  <2>2. M <= Len(pad \o rest) /\ Len(pad \o rest) \in Nat
    BY <1>1, <2>1
  <2>3. SubSeq(pad \o rest, 1, M) = pad
    <3>1. /\ SubSeq(pad \o rest, 1, M) \in Seq(Char)
          /\ Len(SubSeq(pad \o rest, 1, M)) = M
          /\ \A j \in 1..M : SubSeq(pad \o rest, 1, M)[j] = (pad \o rest)[j]
      BY <1>1, <2>1, <2>2
    <3> QED
      BY <1>1, <1>3, <2>1, <3>1
  <2>4. (IF Len(pad \o rest) < M THEN Len(pad \o rest) ELSE M) = M
    BY <1>1, <2>2
  <2> QED
    BY <2>3, <2>4 DEF Beginning
<1>7. Overwrite(old, pad) = pad \o rest
  BY DEF Overwrite
<1>8. UpTo(pad, NUL) = text
  <2> HIDE DEF pad, M
  <2>1. /\ pad \in Texts /\ n <= Len(pad) /\ \A j \in 1..n : pad[j] # NUL
        /\ n < Len(pad) => pad[n + 1] = NUL
    BY <1>1, <1>2, <1>3 DEF Texts
  <2> HIDE DEF n
  <2>2. UpTo(pad, NUL) = SubSeq(pad, 1, n)
    BY <1>1, <2>1, UpToFirst
  <2> QED
    BY <1>5, <2>2
<1>9. AsString(Overwrite(old, pad)) = text
  <2> HIDE DEF pad, rest
  <2> QED
    BY <1>6, <1>7, <1>8 DEF AsString
<1>10. AsString(text) = text
  <2>1. SubSeq(text, 1, n) = text
    BY <1>1
  <2>2. Beginning(text, M) = text
    <3>1. Len(text) <= M
      BY <1>1
    <3> HIDE DEF M
    <3> QED
      BY <1>1, <3>1, BeginningType
  <2>3. UpTo(text, NUL) = SubSeq(text, 1, n)
    BY <1>1, <1>2, UpToFirst
  <2> QED
    BY <2>1, <2>2, <2>3 DEF AsString
<1> HIDE DEF pad, rest
<1> QED
  BY <1>3, <1>9, <1>10 DEF Texts, pad

\* What write() takes of a text, over another.
LEMMA OverwriteType ==
  ASSUME NEW old \in Texts, NEW text \in Texts, NEW n \in 0..Len(text)
  PROVE  /\ Overwrite(old, SubSeq(text, 1, n)) \in Texts
         /\ n = Len(text) => SubSeq(text, 1, n) = text
         /\ old = <<>> => Overwrite(old, text) = text
<1>1. /\ old \in Seq(Char) /\ text \in Seq(Char) /\ Len(text) \in Nat
      /\ n \in Nat /\ n <= Len(text) /\ Len(old) \in Nat
  BY DEF Texts
<1> DEFINE s == SubSeq(text, 1, n)
           rest == SubSeq(old, Len(s) + 1, Len(old))
<1>2. s \in Seq(Char) /\ Len(s) \in Nat
  BY <1>1
<1>3. n = Len(text) => s = text
  BY <1>1
<1>4. ASSUME old = <<>>
      PROVE  Overwrite(old, text) = text
  <2>1. SubSeq(old, Len(text) + 1, Len(old)) = <<>>
    BY <1>1, <1>4
  <2>2. text \o <<>> = text
    BY <1>1
  <2> QED
    BY <2>1, <2>2 DEF Overwrite
<1> HIDE DEF s
<1>5. rest \in Seq(Char)
  BY <1>1, <1>2
<1> HIDE DEF rest
<1>6. s \o rest \in Seq(Char)
  BY <1>2, <1>5
<1> QED
  BY <1>3, <1>4, <1>6 DEF Overwrite, s, rest, Texts

----------------------------------------------------------------------------
(* The file manager: its invariant.                                        *)

Places(pl) == pl.file_list # NULL => pl.file_list_ptr < Len(pl.file_list)

PanelRecord ==
  [dir_path : Dir, file_list : Seq(ToSet(Order)) \cup {NULL},
   file_list_ptr : Nat]
GoodPanel == {pl \in PanelRecord : Places(pl)}

\* The panels of the manager that has the terminal, and of those that wait.
PanelInv ==
  /\ panel \in [1..2 -> GoodPanel] /\ active \in 1..2 /\ select_pos \in Nat
  /\ suspended \in Seq([panel : [1..2 -> GoodPanel], active : 1..2,
                        select_pos : Nat])
  /\ Len(suspended) <= MAX_NESTED

PlaceInv ==
  /\ pc \in {"enter", "key", "editor", "read", "write", "join", "closed",
             "crashed", "segfault"}
  /\ progress \in {"none", "check", "draw", "ended"}
  /\ file \in [File -> Texts \cup {Absent}]

CopyRecord ==
  [orig : ToSet(Order) \cup {NULL}, dest : File \cup {NoPath, NULL},
   rd : BOOLEAN, size : Nat, read_bytes : Int, offset : Nat, block : Texts,
   lost : Nat, spoiled : BOOLEAN]

\* While a file is copied, the copy, the block that was read last and what
\* write() did not take are as long as what was read so far; the first two are
\* the beginning of the file if nothing is missing between them.
Whole ==
  /\ copy.offset <= Len(file[copy.orig])
  /\ Len(file[copy.dest]) + Len(copy.block) + copy.lost = copy.offset
  /\ copy.lost = 0 =>
       file[copy.dest] \o copy.block = SubSeq(file[copy.orig], 1, copy.offset)
  /\ pc = "join" => copy.offset = Len(file[copy.orig])

CopyInv ==
  /\ copy \in CopyRecord
  /\ Copying =>
       /\ copy.dest \in File \cup {NoPath}
       /\ copy.dest # NoPath => file[copy.dest] \in Texts
       /\ copy.rd => copy.orig \in File /\ file[copy.orig] \in Texts
       /\ pc # "write" => copy.block = <<>>
       /\ copy.rd /\ ~copy.spoiled /\ copy.dest \notin {NoPath, copy.orig} =>
            Whole

\* The window holds what can be saved, and the file saved last what was saved.
EditorInv ==
  /\ window \in Texts /\ NUL \notin ToSet(window)
  /\ saved \in [path : File \cup {NoPath}, text : Texts]
  /\ saved.path # NoPath =>
       /\ file[saved.path] \in Texts
       /\ AsString(file[saved.path]) = saved.text
       /\ Len(saved.text) < MAX_SIZE_OF_TEXT
       /\ Copying => copy.dest # saved.path

FmInv == PanelInv /\ PlaceInv /\ CopyInv /\ EditorInv

\* open_dir() leaves the pointer inside the list.
LEMMA DirOpened ==
  ASSUME NEW pl \in GoodPanel, NEW d \in Dir
  PROVE  OpenDir(pl, d) \in GoodPanel
<1> DEFINE list == Scan(d)
           ptr == IF list = NULL THEN pl.file_list_ptr ELSE 0
           r == [dir_path |-> d, file_list |-> list, file_list_ptr |-> ptr]
<1>1. pl.file_list_ptr \in Nat
  BY DEF GoodPanel, PanelRecord
<1>2. list = NULL \/ (list \in Seq(ToSet(Order)) /\ Len(list) > 0)
  <2>1. CASE d \in Unreadable
    BY <2>1 DEF Scan
  <2>2. CASE d \notin Unreadable
    BY <2>2, ScanReturns
  <2> QED
    BY <2>1, <2>2
<1>3. ptr \in Nat /\ (list # NULL => ptr = 0)
  BY <1>1
<1>4. OpenDir(pl, d) = r
  BY DEF OpenDir
<1> HIDE DEF list, ptr
<1>5. r \in PanelRecord
  BY <1>2, <1>3 DEF PanelRecord
<1>6. Places(r)
  BY <1>2, <1>3 DEF Places
<1> QED
  BY <1>4, <1>5, <1>6 DEF GoodPanel

\* What Enter is pressed on is an entry of the list.
LEMMA ChosenListed ==
  ASSUME PanelInv, Panel.file_list # NULL
  PROVE  /\ Chosen \in ToSet(Order)
         /\ Chosen \in Dir \cup File \cup {Dot, DotDot}
         /\ Panel.dir_path \in Dir
<1>1. Panel \in GoodPanel
  BY DEF PanelInv, Panel
<1>2. /\ Panel.file_list \in Seq(ToSet(Order)) /\ Panel.file_list_ptr \in Nat
      /\ Panel.file_list_ptr < Len(Panel.file_list) /\ Panel.dir_path \in Dir
  BY <1>1 DEF GoodPanel, PanelRecord, Places
<1>3. Chosen \in ToSet(Order)
  BY <1>2 DEF Chosen
<1>4. Order \in Seq(Dir \cup File \cup {Dot, DotDot})
  BY FileManagerAssumption
<1>5. ToSet(Order) \subseteq Dir \cup File \cup {Dot, DotDot}
  BY <1>4, SMTT(30) DEF ToSet
<1> QED
  BY <1>2, <1>3, <1>5

\* The actions that move about the panels, and from one manager to another.
LEMMA PanelsStep ==
  ASSUME PanelInv, Next
  PROVE  PanelInv'
<1>1. /\ panel \in [1..2 -> GoodPanel] /\ active \in 1..2 /\ select_pos \in Nat
      /\ Panel \in GoodPanel /\ Panel.dir_path \in Dir
      /\ Panel.file_list_ptr \in Nat
      /\ suspended \in Seq([panel : [1..2 -> GoodPanel], active : 1..2,
                            select_pos : Nat])
      /\ Len(suspended) <= MAX_NESTED /\ MAX_NESTED \in Nat
  <2>1. panel \in [1..2 -> GoodPanel] /\ active \in 1..2
    BY DEF PanelInv
  <2>2. Panel \in GoodPanel
    BY <2>1 DEF Panel
  <2>3. Panel.dir_path \in Dir /\ Panel.file_list_ptr \in Nat
    BY <2>2 DEF GoodPanel, PanelRecord
  <2> QED
    BY <2>1, <2>2, <2>3, FileManagerAssumption DEF PanelInv
<1>2. ASSUME NEW r \in GoodPanel
      PROVE  [panel EXCEPT ![active] = r] \in [1..2 -> GoodPanel]
  BY <1>1
<1>3. ASSUME NEW d \in Dir,
             panel' = [panel EXCEPT ![active] = OpenDir(panel[active], d)]
      PROVE  panel' \in [1..2 -> GoodPanel]
  <2>1. OpenDir(panel[active], d) \in GoodPanel
    BY <1>1, DirOpened DEF Panel
  <2> QED
    BY <1>2, <1>3, <2>1
<1>4. CASE Enter \/ Copied
  <2>1. panel' = [panel EXCEPT ![active] =
                    OpenDir(panel[active], panel[active].dir_path)]
    BY <1>4 DEF Enter, Copied
  <2>2. panel' \in [1..2 -> GoodPanel]
    BY <1>1, <1>3, <2>1 DEF Panel
  <2>3. /\ UNCHANGED <<active, suspended>>
        /\ select_pos' = Panel.file_list_ptr \/ select_pos' = select_pos
    BY <1>4 DEF Enter, Copied
  <2> QED
    BY <1>1, <2>2, <2>3 DEF PanelInv
<1>5. CASE Move
  <2>1. PICK pos \in {select_pos - 1, select_pos + 1} :
               /\ pos \in 0..(FileCount(Panel) - 1)
               /\ select_pos' = pos
               /\ panel' = [panel EXCEPT ![active].file_list_ptr = pos]
    BY <1>5 DEF Move
  <2>2. /\ Panel.file_list # NULL => Panel.file_list \in Seq(ToSet(Order))
        /\ Panel \in PanelRecord
    BY <1>1 DEF GoodPanel, PanelRecord
  <2>3. pos \in Nat /\ Panel.file_list # NULL /\ pos < Len(Panel.file_list)
    BY <2>1, <2>2 DEF FileCount
  <2> DEFINE r == [Panel EXCEPT !.file_list_ptr = pos]
  <2>4. r \in PanelRecord /\ r.file_list_ptr = pos
        /\ r.file_list = Panel.file_list
    BY <2>2, <2>3 DEF PanelRecord
  <2>5. panel' = [panel EXCEPT ![active] = r]
    BY <2>1 DEF Panel
  <2> HIDE DEF r
  <2>6. r \in GoodPanel
    BY <2>3, <2>4 DEF GoodPanel, Places
  <2>7. panel' \in [1..2 -> GoodPanel]
    BY <1>2, <2>5, <2>6
  <2> QED
    BY <1>1, <1>5, <2>1, <2>3, <2>7 DEF Move, PanelInv
<1>6. CASE Switch
  <2>1. active' \in 1..2
    BY <1>1, <1>6 DEF Switch
  <2> QED
    BY <1>1, <1>6, <2>1 DEF Switch, PanelInv
<1>7. CASE Close \/ ChooseNothing \/ SegFault
  <2>1. \/ UNCHANGED <<panel, active, select_pos, suspended>>
        \/ /\ suspended # <<>> /\ suspended' = Front(suspended)
           /\ panel' = Last(suspended).panel
           /\ active' = Last(suspended).active
           /\ select_pos' = Last(suspended).select_pos
    BY <1>7 DEF Close, ChooseNothing, SegFault, ProcessEnds, manager
  <2>2. CASE UNCHANGED <<panel, active, select_pos, suspended>>
    BY <1>1, <2>2 DEF PanelInv
  <2>3. CASE /\ suspended # <<>> /\ suspended' = Front(suspended)
             /\ panel' = Last(suspended).panel
             /\ active' = Last(suspended).active
             /\ select_pos' = Last(suspended).select_pos
    <3> DEFINE S == [panel : [1..2 -> GoodPanel], active : 1..2,
                     select_pos : Nat]
    <3>1. /\ suspended[Len(suspended)] \in S /\ Len(suspended) \in Nat \ {0}
          /\ suspended \in Seq(S)
      <4>1. ASSUME NEW T, NEW s \in Seq(T), s # <<>>
            PROVE  s[Len(s)] \in T /\ Len(s) \in Nat \ {0}
        BY <4>1
      <4>2. suspended \in Seq(S) /\ suspended # <<>>
        BY <1>1, <2>3
      <4> HIDE DEF S
      <4> QED
        BY <4>1, <4>2
    <3>2. /\ panel' \in [1..2 -> GoodPanel] /\ active' \in 1..2
          /\ select_pos' \in Nat
      <4>1. Last(suspended) \in S
        BY <3>1 DEF Last
      <4> QED
        BY <2>3, <4>1
    <3> HIDE DEF S
    <3>3. suspended' \in Seq(S) /\ Len(suspended') = Len(suspended) - 1
      <4>1. ASSUME NEW T, NEW s \in Seq(T), Len(s) \in Nat \ {0}
            PROVE  /\ SubSeq(s, 1, Len(s) - 1) \in Seq(T)
                   /\ Len(SubSeq(s, 1, Len(s) - 1)) = Len(s) - 1
        BY <4>1, SMTT(30)
      <4>2. suspended' = SubSeq(suspended, 1, Len(suspended) - 1)
        BY <2>3 DEF Front
      <4> QED
        BY <3>1, <4>1, <4>2
    <3>4. Len(suspended') <= MAX_NESTED
      BY <1>1, <3>1, <3>3
    <3> QED
      BY <3>2, <3>3, <3>4 DEF PanelInv, S
  <2> QED
    BY <2>1, <2>2, <2>3
<1>8. CASE OpenChosenDir
  <2>1. TargetDir \in Dir
    <3>1. Chosen \in Dir \cup {Dot, DotDot} /\ UpOf \in [Dir -> Dir]
      BY <1>8, FileManagerAssumption DEF OpenChosenDir
    <3> QED
      BY <1>1, <3>1 DEF TargetDir
  <2>2. panel' = [panel EXCEPT ![active] = OpenDir(panel[active], TargetDir)]
    BY <1>8 DEF OpenChosenDir
  <2>3. panel' \in [1..2 -> GoodPanel]
    BY <1>3, <2>1, <2>2
  <2> QED
    BY <1>1, <1>8, <2>3 DEF OpenChosenDir, PanelInv
<1>9. CASE RunChosen
  <2> DEFINE S == [panel : [1..2 -> GoodPanel], active : 1..2,
                   select_pos : Nat]
             r == [panel |-> panel, active |-> active,
                   select_pos |-> select_pos]
  <2>1. r \in S /\ suspended \in Seq(S)
    BY <1>1
  <2>2. /\ suspended' = Append(suspended, r) /\ Len(suspended) < MAX_NESTED
        /\ UNCHANGED <<panel, active, select_pos>>
    BY <1>9 DEF RunChosen, manager
  <2> HIDE DEF r, S
  <2>3. suspended' \in Seq(S) /\ Len(suspended') <= MAX_NESTED
    BY <1>1, <2>1, <2>2
  <2> QED
    BY <1>1, <2>2, <2>3 DEF PanelInv, S
<1>10. CASE UNCHANGED <<panel, active, select_pos, suspended>>
  BY <1>10 DEF PanelInv
<1> QED
  BY <1>4, <1>5, <1>6, <1>7, <1>8, <1>9, <1>10
     DEF Next, Edit, Write, Load, Save, Leave, CopyChosen, Read, WriteBlock,
         Check, Draw, Outside, manager

\* The next block continues the part of the file that was read, to its end.
LEMMA BlockFollows ==
  ASSUME PlaceInv, CopyInv, copy.orig \in File, file[copy.orig] \in Texts
  PROVE  /\ NextBlock \in Texts
         /\ copy.offset <= Len(file[copy.orig]) =>
              /\ copy.offset + Len(NextBlock) <= Len(file[copy.orig])
              /\ SubSeq(file[copy.orig], 1, copy.offset) \o NextBlock =
                   SubSeq(file[copy.orig], 1, copy.offset + Len(NextBlock))
              /\ NextBlock = <<>> => copy.offset = Len(file[copy.orig])
<1> DEFINE t == file[copy.orig]
           k == copy.offset
           rest == SubSeq(t, k + 1, Len(t))
           m == IF Len(rest) < BLOCK_SIZE THEN Len(rest) ELSE BLOCK_SIZE
<1>1. t \in Seq(Char) /\ k \in Nat /\ Len(t) \in Nat /\ BLOCK_SIZE \in Nat \ {0}
  BY FileManagerAssumption DEF Texts, CopyInv, CopyRecord
<1>2. NextBlock = SubSeq(rest, 1, m)
  BY DEF NextBlock, Beginning
<1> HIDE DEF t, k
<1>3. rest \in Seq(Char) /\ Len(rest) \in Nat
  BY <1>1
<1>4. m \in Nat /\ m <= Len(rest) /\ (m = 0 => Len(rest) = 0)
  BY <1>1, <1>3
<1> HIDE DEF m
<1>5. /\ SubSeq(rest, 1, m) \in Seq(Char) /\ Len(SubSeq(rest, 1, m)) = m
      /\ \A i \in 1..m : SubSeq(rest, 1, m)[i] = rest[i]
  <2> HIDE DEF rest
  <2> QED
    BY <1>3, <1>4
<1>6. ASSUME k <= Len(t)
      PROVE  /\ k + m <= Len(t)
             /\ SubSeq(t, 1, k) \o SubSeq(rest, 1, m) = SubSeq(t, 1, k + m)
             /\ m = 0 => k = Len(t)
  <2>1. Len(rest) = Len(t) - k /\ \A i \in 1..Len(rest) : rest[i] = t[k + i]
    BY <1>1, <1>6
  <2>2. k + m <= Len(t) /\ (m = 0 => k = Len(t))
    BY <1>1, <1>4, <1>6, <2>1
  <2> DEFINE b == SubSeq(rest, 1, m)
             a == SubSeq(t, 1, k)
             c == SubSeq(t, 1, k + m)
  <2>3. a \in Seq(Char) /\ Len(a) = k /\ \A i \in 1..k : a[i] = t[i]
    BY <1>1, <1>6
  <2>4. c \in Seq(Char) /\ Len(c) = k + m /\ \A i \in 1..(k + m) : c[i] = t[i]
    BY <1>1, <1>4, <2>2
  <2>5. b \in Seq(Char) /\ Len(b) = m /\ \A i \in 1..m : b[i] = t[k + i]
    <3> HIDE DEF rest
    <3> QED
      BY <1>3, <1>4, <1>5, <2>1
  <2> HIDE DEF a, b, c, rest
  <2>6. a \o b = c
    <3>1. /\ a \o b \in Seq(Char) /\ Len(a \o b) = k + m
          /\ \A i \in 1..k : (a \o b)[i] = a[i]
          /\ \A i \in (k + 1)..(k + m) : (a \o b)[i] = b[i - k]
      <4>1. /\ a \o b \in Seq(Char) /\ Len(a \o b) = Len(a) + Len(b)
            /\ DOMAIN (a \o b) = 1..(Len(a) + Len(b))
            /\ DOMAIN a = 1..Len(a) /\ Len(a) \in Nat /\ Len(b) \in Nat
            /\ \A i \in 1..Len(a) : (a \o b)[i] = a[i]
            /\ \A i \in (Len(a) + 1)..(Len(a) + Len(b)) :
                 (a \o b)[i] = b[i - Len(a)]
        BY ONLY <2>3, <2>5, Concatenated, ZenonT(60)
      <4>2. Len(a) = k /\ Len(b) = m
        BY <2>3, <2>5
      <4> QED
        BY <4>1, <4>2, Zenon
    <3>2. \A i \in (k + 1)..(k + m) : i - k \in 1..m /\ k + (i - k) = i
      BY <1>1, <1>4
    <3>3. \A i \in 1..(k + m) : (a \o b)[i] = c[i]
      <4> TAKE i \in 1..(k + m)
      <4>1. CASE i \in 1..k
        BY <2>3, <2>4, <3>1, <4>1
      <4>2. CASE i \in (k + 1)..(k + m)
        <5>1. i - k \in 1..m /\ k + (i - k) = i
          BY <3>2, <4>2
        <5>2. (a \o b)[i] = b[i - k] /\ b[i - k] = t[i]
          BY <2>5, <3>1, <4>2, <5>1
        <5>3. c[i] = t[i]
          BY <2>4
        <5> QED
          BY <5>2, <5>3
      <4>3. i \in 1..k \/ i \in (k + 1)..(k + m)
        BY <1>1, <1>4
      <4> QED
        BY <4>1, <4>2, <4>3
    <3> QED
      BY <1>1, <1>4, <2>4, <3>1, <3>3, SMTT(30)
  <2> QED
    BY <2>2, <2>6 DEF a, b, c
<1>7. NextBlock = <<>> => m = 0
  BY <1>2, <1>5
<1> HIDE DEF rest
<1> QED
  BY <1>2, <1>5, <1>6, <1>7 DEF t, k, Texts

\* The line that is saved has no NUL and does not fill the buffer.
LEMMA SavedLine ==
  ASSUME EditorInv
  PROVE  /\ FirstLine \in Texts /\ NUL \notin ToSet(FirstLine)
         /\ Len(FirstLine) < MAX_SIZE_OF_TEXT
<1>1. window \in Texts /\ NUL \notin ToSet(window)
  BY DEF EditorInv
<1>2. UpTo(window, NL) \in Texts /\ NUL \notin ToSet(UpTo(window, NL))
  BY <1>1, UpToType
<1>3. WIDTH \in Nat /\ WIDTH < MAX_SIZE_OF_TEXT /\ MAX_SIZE_OF_TEXT \in Nat
  BY FileManagerAssumption
<1>4. /\ FirstLine \in Texts /\ NUL \notin ToSet(FirstLine)
      /\ Len(FirstLine) <= WIDTH /\ Len(FirstLine) \in Nat
  BY <1>2, <1>3, BeginningType DEF FirstLine
<1> QED
  BY <1>3, <1>4

\* What is written of the line is a text, and a file takes any of its
\* beginnings; one that takes all holds the line as a string.
LEMMA LineWritten ==
  ASSUME FmInv, NEW f \in File, NEW n \in 0..Len(ToWrite(f)),
         NEW old, old = IF file[f] = Absent THEN <<>> ELSE file[f]
  PROVE  /\ Overwrite(old, SubSeq(ToWrite(f), 1, n)) \in Texts
         /\ n = Len(ToWrite(f)) =>
              AsString(Overwrite(old, SubSeq(ToWrite(f), 1, n))) = FirstLine
<1>1. /\ FirstLine \in Texts /\ NUL \notin ToSet(FirstLine)
      /\ Len(FirstLine) < MAX_SIZE_OF_TEXT
  BY SavedLine DEF FmInv
<1>2. <<>> \in Texts /\ file[f] \in Texts \cup {Absent}
  BY DEF FmInv, PlaceInv, Texts
<1>3. old \in Texts
  BY <1>2
<1>4. /\ AsString(FirstLine) = FirstLine /\ Padded(FirstLine) \in Texts
      /\ AsString(Overwrite(old, Padded(FirstLine))) = FirstLine
  BY <1>1, <1>3, WrittenIsRead
<1>5. ToWrite(f) = IF file[f] # Absent THEN Padded(FirstLine) ELSE FirstLine
  BY DEF ToWrite, Exists
<1>6. ToWrite(f) \in Texts
  BY <1>1, <1>4, <1>5
<1>7. /\ Overwrite(old, SubSeq(ToWrite(f), 1, n)) \in Texts
      /\ n = Len(ToWrite(f)) => SubSeq(ToWrite(f), 1, n) = ToWrite(f)
      /\ old = <<>> => Overwrite(old, ToWrite(f)) = ToWrite(f)
  BY <1>3, <1>6, OverwriteType
<1>8. AsString(Overwrite(old, ToWrite(f))) = FirstLine
  BY <1>4, <1>5, <1>7
<1> QED
  BY <1>7, <1>8

\* wprintw() leaves a text without NUL in the window.
LEMMA WindowPrinted ==
  ASSUME NEW string \in Texts, NUL \notin ToSet(string), wprintw(string)
  PROVE  /\ window' \in Texts /\ NUL \notin ToSet(window')
         /\ pc' \in {"editor", "segfault"}
<1>1. CASE IsFormat(string)
  BY <1>1, PrintedType DEF wprintw
<1>2. CASE ~IsFormat(string)
  <2>1. window' \in Garbled
    BY <1>2 DEF wprintw
  <2>2. window' \in Texts /\ NUL \notin ToSet(window')
    BY <2>1, FileManagerAssumption DEF Texts
  <2> QED
    BY <1>2, <2>2 DEF wprintw
<1> QED
  BY <1>1, <1>2

\* What the actions do to the files.
LEMMA PlaceStep ==
  ASSUME FmInv, Next
  PROVE  PlaceInv'
<1>1. /\ pc \in {"enter", "key", "editor", "read", "write", "join", "closed",
                  "crashed", "segfault"}
      /\ progress \in {"none", "check", "draw", "ended"}
      /\ file \in [File -> Texts \cup {Absent}]
  BY DEF FmInv, PlaceInv
<1>2. ASSUME NEW f \in File, NEW t \in Texts \cup {Absent}
      PROVE  [file EXCEPT ![f] = t] \in [File -> Texts \cup {Absent}]
  BY <1>1
<1>3. file' \in [File -> Texts \cup {Absent}]
  <2>1. CASE UNCHANGED file
    BY <1>1, <2>1
  <2>2. CASE Save /\ ~UNCHANGED file
    <3>1. PICK f \in File, n \in Nat :
            /\ n \in 0..Len(ToWrite(f))
            /\ file' = [file EXCEPT ![f] =
                          Overwrite(IF file[f] = Absent THEN <<>> ELSE file[f],
                                    SubSeq(ToWrite(f), 1, n))]
      BY <2>2 DEF Save
    <3>2. Overwrite(IF file[f] = Absent THEN <<>> ELSE file[f],
                    SubSeq(ToWrite(f), 1, n)) \in Texts
      BY <3>1, LineWritten
    <3> QED
      BY <1>2, <3>1, <3>2
  <2>3. CASE CopyChosen
    <3>1. <<>> \in Texts
      BY DEF Texts
    <3>2. PICK dest \in File \cup {NoPath} :
                 file' = IF dest = NoPath THEN file
                         ELSE [file EXCEPT ![dest] = <<>>]
      BY <2>3 DEF CopyChosen, Created
    <3> QED
      BY <1>1, <1>2, <3>1, <3>2
  <2>4. CASE WriteBlock /\ ~UNCHANGED file
    <3>1. PICK n \in 0..Len(copy.block) :
            /\ copy.dest # NoPath /\ pc = "write"
            /\ file' = [file EXCEPT ![copy.dest] =
                          file[copy.dest] \o SubSeq(copy.block, 1, n)]
      BY <2>4 DEF WriteBlock
    <3>2. /\ copy.dest \in File /\ file[copy.dest] \in Texts
          /\ copy.block \in Texts
      BY <3>1 DEF FmInv, CopyInv, Copying, CopyRecord
    <3>3. SubSeq(copy.block, 1, n) \in Texts
      BY <3>2 DEF Texts
    <3>4. file[copy.dest] \o SubSeq(copy.block, 1, n) \in Texts
      BY <3>2, <3>3 DEF Texts
    <3> QED
      BY <1>2, <3>1, <3>2, <3>4
  <2>5. CASE Outside
    <3>1. PICK f \in File, t \in {<<>>, Absent} : file' = [file EXCEPT ![f] = t]
      BY <2>5 DEF Outside
    <3>2. <<>> \in Texts
      BY DEF Texts
    <3> QED
      BY <1>2, <3>1, <3>2
  <2> QED
    BY <2>1, <2>2, <2>3, <2>4, <2>5
       DEF Next, Enter, Move, Switch, Close, ChooseNothing, ProcessEnds,
           OpenChosenDir, RunChosen, Edit, Write, Load, Leave, SegFault, Read,
           Check, Draw, Copied
<1>4. pc' \in {"enter", "key", "editor", "read", "write", "join", "closed",
               "crashed", "segfault"}
  BY <1>1, ZenonT(60)
     DEF Next, Enter, Move, Switch, Close, ChooseNothing, ProcessEnds,
         OpenChosenDir, RunChosen, Edit, Write, Load, Save, Leave, SegFault,
         wprintw, CopyChosen, Read, WriteBlock, Check, Draw, Copied, Outside
<1>5. progress' \in {"none", "check", "draw", "ended"}
  BY <1>1, ZenonT(60)
     DEF Next, Enter, Move, Switch, Close, ChooseNothing, ProcessEnds,
         OpenChosenDir, RunChosen, Edit, Write, Load, Save, Leave, SegFault,
         CopyChosen, Read, WriteBlock, Check, Draw, Copied, Outside
<1> QED
  BY <1>3, <1>4, <1>5 DEF PlaceInv

\* What the actions do to the window.
LEMMA WindowStep ==
  ASSUME FmInv, Next
  PROVE  window' \in Texts /\ NUL \notin ToSet(window')
<1>1. /\ window \in Texts /\ NUL \notin ToSet(window)
      /\ file \in [File -> Texts \cup {Absent}]
  BY DEF FmInv, EditorInv, PlaceInv
<1>2. ASSUME NEW f \in File, file[f] # Absent, wprintw(AsString(file[f]))
      PROVE  window' \in Texts /\ NUL \notin ToSet(window')
  <2>1. AsString(file[f]) \in Texts /\ NUL \notin ToSet(AsString(file[f]))
    BY <1>1, <1>2, AsStringType
  <2> QED
    BY <1>2, <2>1, WindowPrinted
<1>3. CASE Edit
  <2>1. CASE window' = <<Listing>>
    <3>1. Listing \in Char /\ Listing # NUL
      BY FileManagerAssumption
    <3>2. ToSet(<<Listing>>) = {Listing}
      BY DEF ToSet
    <3> QED
      BY <2>1, <3>1, <3>2 DEF Texts
  <2>2. CASE window' # <<Listing>>
    <3>1. /\ Chosen \in File /\ file[Chosen] # Absent
          /\ wprintw(AsString(file[Chosen]))
      BY <1>3, <2>2 DEF Edit, Exists
    <3> QED
      BY <1>2, <3>1
  <2> QED
    BY <2>1, <2>2
<1>4. CASE Write
  BY <1>4, FileManagerAssumption DEF Write, Texts
<1>5. CASE window' = <<>>
  BY <1>5 DEF Texts, ToSet
<1>6. CASE Load /\ window' # <<>>
  <2>1. PICK f \in File : file[f] # Absent /\ wprintw(AsString(file[f]))
    BY <1>6 DEF Load, Exists
  <2> QED
    BY <1>2, <2>1
<1>7. CASE Save
  BY <1>7, SavedLine, WindowPrinted DEF Save, FmInv
<1>8. CASE UNCHANGED window
  BY <1>1, <1>8
<1> QED
  BY <1>3, <1>4, <1>5, <1>6, <1>7, <1>8
     DEF Next, Enter, Move, Switch, Close, ChooseNothing, ProcessEnds,
         OpenChosenDir, RunChosen, Load, Leave, SegFault, CopyChosen, Read,
         WriteBlock, Check, Draw, Copied, Outside, editor

\* What was saved last stays in its file until somebody else changes it.
LEMMA EditorStep ==
  ASSUME FmInv, Next
  PROVE  EditorInv'
<1> DEFINE Saves == [path : File \cup {NoPath}, text : Texts]
           Kept == saved.path # NoPath =>
                     /\ file[saved.path] \in Texts
                     /\ AsString(file[saved.path]) = saved.text
                     /\ Len(saved.text) < MAX_SIZE_OF_TEXT
                     /\ Copying => copy.dest # saved.path
<1>1. /\ saved \in Saves /\ Kept /\ saved.path \in File \cup {NoPath}
      /\ file \in [File -> Texts \cup {Absent}] /\ NoPath \notin File
      /\ Copying => copy.dest \in File \cup {NoPath}
  BY FileManagerAssumption DEF FmInv, EditorInv, PlaceInv, CopyInv
<1>2. NoSave \in Saves /\ NoSave.path = NoPath
  BY DEF NoSave, Texts
<1>3. SUFFICES saved' \in Saves /\ Kept'
  BY WindowStep DEF EditorInv
<1>4. CASE Save /\ ~UNCHANGED <<file, saved>>
  <2>1. PICK f \in File, n \in Nat :
          /\ n \in 0..Len(ToWrite(f))
          /\ file' = [file EXCEPT ![f] =
                        Overwrite(IF file[f] = Absent THEN <<>> ELSE file[f],
                                  SubSeq(ToWrite(f), 1, n))]
          /\ saved' = IF n = Len(ToWrite(f))
                      THEN [path |-> f, text |-> FirstLine]
                      ELSE IF saved.path = f THEN NoSave ELSE saved
    BY <1>4 DEF Save
  <2> DEFINE new == Overwrite(IF file[f] = Absent THEN <<>> ELSE file[f],
                              SubSeq(ToWrite(f), 1, n))
  <2>2. /\ new \in Texts
        /\ n = Len(ToWrite(f)) => AsString(new) = FirstLine
    BY <2>1, LineWritten
  <2>3. file'[f] = new /\ \A g \in File : g # f => file'[g] = file[g]
    BY <1>1, <2>1
  <2>4. ~Copying'
    <3>1. pc' \in {"editor", "segfault"}
      BY <1>4, SavedLine, WindowPrinted DEF Save, FmInv
    <3> QED
      BY <3>1 DEF Copying
  <2> HIDE DEF new
  <2>5. CASE n = Len(ToWrite(f))
    <3>1. saved' = [path |-> f, text |-> FirstLine]
      BY <2>1, <2>5
    <3>2. FirstLine \in Texts /\ Len(FirstLine) < MAX_SIZE_OF_TEXT
      BY SavedLine DEF FmInv
    <3>3. saved' \in Saves /\ saved'.path = f /\ saved'.text = FirstLine
      BY <3>1, <3>2
    <3> QED
      BY <2>2, <2>3, <2>4, <2>5, <3>2, <3>3
  <2>6. CASE n # Len(ToWrite(f)) /\ saved.path = f
    BY <1>2, <2>1, <2>6
  <2>7. CASE n # Len(ToWrite(f)) /\ saved.path # f
    BY <1>1, <2>1, <2>3, <2>4, <2>7
  <2> QED
    BY <2>5, <2>6, <2>7
<1>5. CASE CopyChosen
  <2>1. PICK dest \in File \cup {NoPath} :
          /\ file' = IF dest = NoPath THEN file
                     ELSE [file EXCEPT ![dest] = <<>>]
          /\ saved' = IF dest = saved.path THEN NoSave ELSE saved
          /\ copy'.dest = dest
    BY <1>5 DEF CopyChosen, Created, NoCopy
  <2>2. CASE dest = saved.path
    BY <1>2, <2>1, <2>2
  <2>3. CASE dest # saved.path
    <3>1. saved' = saved
      BY <2>1, <2>3
    <3>2. saved.path # NoPath => file'[saved.path] = file[saved.path]
      BY <1>1, <2>1, <2>3
    <3> QED
      BY <1>1, <2>1, <2>3, <3>1, <3>2
  <2> QED
    BY <2>2, <2>3
<1>6. CASE WriteBlock
  <2>1. /\ UNCHANGED saved /\ Copying /\ copy'.dest = copy.dest
        /\ \/ UNCHANGED file
           \/ \E t : file' = [file EXCEPT ![copy.dest] = t]
    <3>1. PICK n \in 0..Len(copy.block) :
            /\ file' = IF copy.dest = NoPath THEN file
                       ELSE [file EXCEPT ![copy.dest] =
                               file[copy.dest] \o SubSeq(copy.block, 1, n)]
            /\ copy' = [copy EXCEPT !.block = <<>>,
                                    !.lost = copy.lost + Len(copy.block) - n]
      BY <1>6 DEF WriteBlock
    <3>2. copy'.dest = copy.dest
      BY <3>1 DEF FmInv, CopyInv, CopyRecord
    <3> QED
      BY <1>6, <3>1, <3>2 DEF WriteBlock, Copying, editor
  <2>2. saved.path # NoPath => file'[saved.path] = file[saved.path]
    BY <1>1, <2>1
  <2> QED
    BY <1>1, <2>1, <2>2
<1>7. CASE Outside
  <2>1. PICK f \in File, t \in {<<>>, Absent} :
               /\ file' = [file EXCEPT ![f] = t]
               /\ saved' = IF f = saved.path THEN NoSave ELSE saved
               /\ copy' = [copy EXCEPT !.spoiled =
                             copy.spoiled \/ (Copying /\ f = copy.orig)]
    BY <1>7 DEF Outside
  <2>2. UNCHANGED pc /\ copy'.dest = copy.dest
    BY <1>7, <2>1 DEF Outside, FmInv, CopyInv, CopyRecord
  <2>3. \A g \in File : g # f => file'[g] = file[g]
    BY <1>1, <2>1
  <2>4. CASE f = saved.path
    BY <1>2, <2>1, <2>4
  <2>5. CASE f # saved.path
    BY <1>1, <2>1, <2>2, <2>3, <2>5 DEF Copying
  <2> QED
    BY <2>4, <2>5
<1>8. CASE UNCHANGED <<file, saved>> /\ (Copying' => Copying)
           /\ copy'.dest = copy.dest
  BY <1>1, <1>8
<1>9. CASE UNCHANGED <<file, saved>> /\ ~Copying'
  BY <1>1, <1>9
<1>10. CASE Read
  <2>1. /\ Copying /\ copy \in CopyRecord /\ UNCHANGED <<file, saved>>
        /\ \/ UNCHANGED copy
           \/ \E r, o, b : copy' = [copy EXCEPT !.read_bytes = r, !.offset = o,
                                                !.block = b]
           \/ \E r : copy' = [copy EXCEPT !.read_bytes = r, !.rd = FALSE]
    BY <1>10 DEF Read, Copying, editor, FmInv, CopyInv
  <2>2. copy'.dest = copy.dest
    BY <2>1 DEF CopyRecord
  <2> QED
    BY <1>8, <2>1, <2>2
<1>11. CASE Edit \/ Load \/ (Save /\ UNCHANGED <<file, saved>>)
  <2>1. pc' \in {"editor", "segfault"} /\ UNCHANGED <<file, saved>>
    BY <1>11 DEF Edit, Load, Save, wprintw
  <2> QED
    BY <1>9, <2>1 DEF Copying
<1>12. CASE \/ Enter \/ Move \/ Switch \/ Close \/ ChooseNothing \/ SegFault
            \/ OpenChosenDir \/ RunChosen \/ Write \/ Leave \/ Check \/ Draw
  <2>1. UNCHANGED <<file, saved, copy>> /\ (Copying' => Copying)
    BY <1>12 DEF Enter, Move, Switch, Close, ChooseNothing, SegFault,
       ProcessEnds, OpenChosenDir, RunChosen, Write, Leave, Check, Draw,
       editor, Copying
  <2> QED
    BY <1>8, <2>1
<1>13. CASE Copied
  BY <1>9, <1>13 DEF Copied, editor, Copying
<1> QED
  BY <1>4, <1>5, <1>6, <1>7, <1>10, <1>11, <1>12, <1>13 DEF Next

\* What is read and written keeps the copy the beginning of the file.
LEMMA CopyStep ==
  ASSUME FmInv, Next
  PROVE  CopyInv'
<1>1. /\ copy \in CopyRecord /\ CopyInv /\ PlaceInv /\ PanelInv
      /\ file \in [File -> Texts \cup {Absent}]
      /\ file' \in [File -> Texts \cup {Absent}]
  BY PlaceStep DEF FmInv, CopyInv, PlaceInv
<1>2. /\ copy.orig \in ToSet(Order) \cup {NULL} /\ copy.offset \in Nat
      /\ copy.dest \in File \cup {NoPath, NULL} /\ copy.rd \in BOOLEAN
      /\ copy.size \in Nat /\ copy.read_bytes \in Int /\ copy.block \in Texts
      /\ copy.spoiled \in BOOLEAN /\ copy.lost \in Nat
  BY <1>1 DEF CopyRecord
<1>3. /\ <<>> \in Texts /\ Len(<<>>) = 0
      /\ \A t \in Texts : /\ t \o <<>> = t /\ Len(t) \in Nat
                          /\ SubSeq(t, 1, 0) = <<>>
                          /\ \A b \in Texts :
                               /\ t \o b \in Texts
                               /\ Len(t \o b) = Len(t) + Len(b)
  BY DEF Texts
<1>4. Copying =>
        /\ copy.dest \in File \cup {NoPath}
        /\ copy.dest # NoPath => file[copy.dest] \in Texts
        /\ copy.rd => copy.orig \in File /\ file[copy.orig] \in Texts
        /\ pc # "write" => copy.block = <<>>
        /\ copy.rd /\ ~copy.spoiled /\ copy.dest \notin {NoPath, copy.orig} =>
             Whole
  BY <1>1 DEF CopyInv
<1>5. CASE UNCHANGED <<copy, file, pc>>
  BY <1>1, <1>5 DEF CopyInv, Copying, Whole
<1>6. CASE UNCHANGED copy /\ pc' \notin {"read", "write", "join"}
  BY <1>1, <1>6 DEF CopyInv, Copying
<1>7. CASE CopyChosen
  <2>1. /\ Chosen \in ToSet(Order) /\ pc' = "read"
    BY <1>1, <1>7, ChosenListed DEF CopyChosen
  <2>2. PICK dest \in File \cup {NoPath}, n \in 0..1, rd \in BOOLEAN :
               /\ rd => Chosen \in File /\ Exists(Chosen)
               /\ file' = IF dest = NoPath THEN file
                          ELSE [file EXCEPT ![dest] = <<>>]
               /\ copy' = [NoCopy EXCEPT
                             !.orig = Chosen, !.dest = dest, !.rd = rd,
                             !.size =
                               IF Chosen \in File /\ file'[Chosen] # Absent
                               THEN Len(file'[Chosen]) ELSE n]
    BY <1>7 DEF CopyChosen, Created
  <2> DEFINE size == IF Chosen \in File /\ file'[Chosen] # Absent
                     THEN Len(file'[Chosen]) ELSE n
  <2>3. size \in Nat
    BY <1>1, <1>3
  <2> HIDE DEF size
  <2>4. copy' = [orig |-> Chosen, dest |-> dest, rd |-> rd, size |-> size,
                 read_bytes |-> 0, offset |-> 0, block |-> <<>>,
                 lost |-> 0, spoiled |-> FALSE]
    <3>1. copy' = [NoCopy EXCEPT !.orig = Chosen, !.dest = dest, !.rd = rd,
                                 !.size = size]
      BY <2>2 DEF size
    <3> QED
      BY <3>1 DEF NoCopy
  <2>5. copy' \in CopyRecord
    BY <1>3, <2>1, <2>3, <2>4 DEF CopyRecord
  <2>6. /\ copy'.orig = Chosen /\ copy'.dest = dest /\ copy'.rd = rd
        /\ copy'.offset = 0 /\ copy'.block = <<>> /\ copy'.lost = 0
    BY <2>4
  <2>7. dest # NoPath => dest \in File /\ file'[dest] = <<>>
    BY <1>1, <2>2
  <2>8. rd => /\ Chosen \in File /\ file'[Chosen] \in Texts
    <3>1. rd => Chosen \in File /\ file[Chosen] \in Texts
      BY <1>1, <2>2 DEF Exists
    <3> QED
      BY <1>1, <1>3, <2>2, <2>7, <3>1
  <2>9. rd /\ dest \notin {NoPath, Chosen} =>
          /\ 0 <= Len(file'[Chosen]) /\ Len(file'[dest]) + 0 + 0 = 0
          /\ file'[dest] \o <<>> = SubSeq(file'[Chosen], 1, 0)
    <3>1. ASSUME NEW t \in Texts
          PROVE  /\ 0 <= Len(t) /\ Len(<<>>) + 0 + 0 = 0
                 /\ <<>> \o <<>> = SubSeq(t, 1, 0)
      BY DEF Texts
    <3> QED
      BY <2>7, <2>8, <3>1
  <2> QED
    BY <1>3, <2>1, <2>5, <2>6, <2>7, <2>8, <2>9 DEF CopyInv, Copying, Whole
<1>8. CASE Read
  <2>1. Copying /\ copy.block = <<>> /\ UNCHANGED file
    BY <1>4, <1>8 DEF Read, Copying
  <2>2. copy.rd =>
          /\ NextBlock \in Texts
          /\ copy.offset <= Len(file[copy.orig]) =>
               /\ copy.offset + Len(NextBlock) <= Len(file[copy.orig])
               /\ SubSeq(file[copy.orig], 1, copy.offset) \o NextBlock =
                    SubSeq(file[copy.orig], 1, copy.offset + Len(NextBlock))
               /\ NextBlock = <<>> => copy.offset = Len(file[copy.orig])
    BY <1>1, <1>4, <2>1, BlockFollows
  <2>3. CASE copy.rd /\ NextBlock # <<>> /\ pc' = "write"
    <3> DEFINE n == Len(NextBlock)
    <3>1. NextBlock \in Texts /\ n \in Nat
      BY <1>3, <2>2, <2>3
    <3>2. /\ copy' = [copy EXCEPT !.read_bytes = copy.read_bytes + n,
                                  !.offset = copy.offset + n,
                                  !.block = NextBlock]
          /\ pc' = "write"
      BY <1>8, <2>3 DEF Read
    <3> HIDE DEF n
    <3>3. /\ copy' \in CopyRecord
          /\ copy'.orig = copy.orig /\ copy'.dest = copy.dest
          /\ copy'.rd = copy.rd /\ copy'.spoiled = copy.spoiled
          /\ copy'.lost = copy.lost
          /\ copy'.offset = copy.offset + n /\ copy'.block = NextBlock
      <4>1. ASSUME NEW c \in CopyRecord, NEW r \in Int, NEW o \in Nat,
                   NEW b \in Texts
            PROVE  [c EXCEPT !.read_bytes = r, !.offset = o, !.block = b]
                     \in CopyRecord
        BY DEF CopyRecord
      <4>2. copy.read_bytes + n \in Int /\ copy.offset + n \in Nat
        BY <1>2, <3>1
      <4>3. copy' \in CopyRecord
        BY <1>1, <3>1, <3>2, <4>1, <4>2, Zenon
      <4> QED
        BY <1>1, <3>2, <4>3 DEF CopyRecord
    <3>4. copy.rd /\ ~copy.spoiled /\ copy.dest \notin {NoPath, copy.orig} =>
            /\ copy.offset + n <= Len(file[copy.orig])
            /\ Len(file[copy.dest]) + Len(NextBlock) + copy.lost =
                 copy.offset + n
            /\ copy.lost = 0 =>
                 file[copy.dest] \o NextBlock =
                   SubSeq(file[copy.orig], 1, copy.offset + n)
      <4>1. SUFFICES ASSUME copy.rd, ~copy.spoiled,
                            copy.dest \notin {NoPath, copy.orig}
                     PROVE  /\ copy.offset + n <= Len(file[copy.orig])
                            /\ Len(file[copy.dest]) + Len(NextBlock)
                                 + copy.lost = copy.offset + n
                            /\ copy.lost = 0 =>
                                 file[copy.dest] \o NextBlock =
                                   SubSeq(file[copy.orig], 1, copy.offset + n)
        OBVIOUS
      <4>2. Whole /\ file[copy.dest] \in Texts
        BY <1>4, <2>1, <4>1
      <4>3. /\ copy.offset <= Len(file[copy.orig])
            /\ Len(file[copy.dest]) + copy.lost = copy.offset
            /\ Len(file[copy.dest]) \in Nat
            /\ copy.lost = 0 =>
                 file[copy.dest] = SubSeq(file[copy.orig], 1, copy.offset)
        BY <1>2, <1>3, <2>1, <4>2 DEF Whole
      <4>4. Len(file[copy.dest]) + Len(NextBlock) + copy.lost = copy.offset + n
        BY <1>2, <3>1, <4>3 DEF n
      <4> QED
        BY <2>2, <4>1, <4>3, <4>4 DEF n
    <3> QED
      BY <1>4, <2>1, <3>2, <3>3, <3>4 DEF CopyInv, Copying, Whole
  <2>4. CASE copy.rd /\ NextBlock = <<>> /\ pc' = "join"
    <3>1. pc' = "join" /\ UNCHANGED copy
      BY <1>8, <2>4 DEF Read
    <3>2. Whole => copy.offset = Len(file[copy.orig])
      BY <2>2, <2>4 DEF Whole
    <3> QED
      BY <1>1, <1>4, <2>1, <3>1, <3>2 DEF CopyInv, Copying, Whole
  <2>5. CASE copy' = [copy EXCEPT !.read_bytes = copy.read_bytes - 1,
                                  !.rd = FALSE]
             /\ UNCHANGED pc
    <3>1. ASSUME NEW c \in CopyRecord, NEW r \in Int, NEW d,
                 d = [c EXCEPT !.read_bytes = r, !.rd = FALSE]
          PROVE  /\ d \in CopyRecord /\ d.dest = c.dest /\ d.rd = FALSE
                 /\ d.block = c.block
      BY <3>1 DEF CopyRecord
    <3>2. copy.read_bytes - 1 \in Int
      BY <1>2
    <3>3. /\ copy' \in CopyRecord /\ copy'.dest = copy.dest
          /\ copy'.rd = FALSE /\ copy'.block = copy.block
      BY <1>1, <2>5, <3>1, <3>2
    <3> QED
      BY <1>4, <2>1, <2>5, <3>3 DEF CopyInv, Copying
  <2> QED
    BY <1>8, <2>3, <2>4, <2>5 DEF Read
<1>9. CASE WriteBlock
  <2>1. PICK n \in 0..Len(copy.block) :
          /\ copy.dest = NoPath => UNCHANGED file
          /\ copy.dest # NoPath =>
               file' = [file EXCEPT ![copy.dest] =
                          file[copy.dest] \o SubSeq(copy.block, 1, n)]
          /\ copy' = [copy EXCEPT !.block = <<>>,
                                  !.lost = copy.lost + Len(copy.block) - n]
    BY <1>9 DEF WriteBlock
  <2> DEFINE taken == SubSeq(copy.block, 1, n)
             lost == copy.lost + Len(copy.block) - n
  <2>2. /\ taken \in Texts /\ Len(taken) = n /\ lost \in Nat
        /\ Len(copy.block) \in Nat /\ n \in Nat /\ n <= Len(copy.block)
        /\ n = Len(copy.block) => taken = copy.block
    BY <1>2 DEF Texts
  <2>3. copy' = [copy EXCEPT !.block = <<>>, !.lost = lost]
    BY <2>1
  <2>4. Copying /\ pc' = "read"
    BY <1>9 DEF WriteBlock, Copying
  <2>5. lost = copy.lost + Len(copy.block) - n
    OBVIOUS
  <2> HIDE DEF taken, lost
  <2>6. /\ copy' \in CopyRecord
        /\ copy'.orig = copy.orig /\ copy'.dest = copy.dest
        /\ copy'.rd = copy.rd /\ copy'.spoiled = copy.spoiled
        /\ copy'.offset = copy.offset /\ copy'.block = <<>>
        /\ copy'.lost = lost
    BY <1>1, <1>3, <2>2, <2>3 DEF CopyRecord
  <2>7. copy.dest # NoPath =>
          /\ copy.dest \in File /\ file'[copy.dest] \in Texts
          /\ file'[copy.dest] = file[copy.dest] \o taken
          /\ \A f \in File : f # copy.dest => file'[f] = file[f]
    <3>1. SUFFICES ASSUME copy.dest # NoPath
                   PROVE  /\ copy.dest \in File /\ file'[copy.dest] \in Texts
                          /\ file'[copy.dest] = file[copy.dest] \o taken
                          /\ \A f \in File : f # copy.dest => file'[f] = file[f]
      OBVIOUS
    <3>2. copy.dest \in File /\ file[copy.dest] \in Texts
      BY <1>4, <2>4, <3>1
    <3>3. file[copy.dest] \o taken \in Texts
      BY <1>3, <2>2, <3>2
    <3>4. file' = [file EXCEPT ![copy.dest] = file[copy.dest] \o taken]
      BY <2>1, <3>1 DEF taken
    <3> QED
      BY <1>1, <3>2, <3>3, <3>4
  <2>8. copy.rd => copy.orig \in File /\ file'[copy.orig] \in Texts
    BY <1>4, <2>1, <2>4, <2>7
  <2>9. copy.rd /\ ~copy.spoiled /\ copy.dest \notin {NoPath, copy.orig} =>
          /\ copy.offset <= Len(file'[copy.orig])
          /\ Len(file'[copy.dest]) + Len(<<>>) + lost = copy.offset
          /\ lost = 0 =>
               file'[copy.dest] \o <<>> =
                 SubSeq(file'[copy.orig], 1, copy.offset)
    <3>1. SUFFICES ASSUME copy.rd, ~copy.spoiled,
                          copy.dest \notin {NoPath, copy.orig}
                   PROVE  /\ copy.offset <= Len(file'[copy.orig])
                          /\ Len(file'[copy.dest]) + Len(<<>>) + lost =
                               copy.offset
                          /\ lost = 0 =>
                               file'[copy.dest] \o <<>> =
                                 SubSeq(file'[copy.orig], 1, copy.offset)
      OBVIOUS
    <3>2. Whole /\ file[copy.dest] \in Texts
      BY <1>4, <2>4, <3>1
    <3>3. /\ file'[copy.orig] = file[copy.orig]
          /\ file'[copy.dest] = file[copy.dest] \o taken
          /\ file'[copy.dest] \in Texts
      BY <1>4, <2>4, <2>7, <3>1
    <3>4. /\ Len(file'[copy.dest]) = Len(file[copy.dest]) + n
          /\ Len(file[copy.dest]) \in Nat
      BY <1>3, <2>2, <3>2, <3>3
    <3>5. Len(file'[copy.dest]) + 0 + lost = copy.offset
      <4>1. Len(file[copy.dest]) + Len(copy.block) + copy.lost = copy.offset
        BY <3>2 DEF Whole
      <4>2. /\ copy.offset \in Nat /\ copy.lost \in Nat /\ n \in Nat
            /\ Len(copy.block) \in Nat
            /\ lost = copy.lost + Len(copy.block) - n
        BY <1>2, <2>2, <2>5
      <4>3. ASSUME NEW a \in Nat, NEW b \in Nat, NEW c \in Nat,
                   NEW d \in Nat, NEW e, NEW new, NEW gone, b + c + d = a,
                   new = b + e, e \in Nat, gone = d + c - e
            PROVE  new + 0 + gone = a
        BY <4>3
      <4> DEFINE before == Len(file[copy.dest])
                 after == Len(file'[copy.dest])
                 len == Len(copy.block)
                 gone == copy.lost
                 offset == copy.offset
      <4>4. /\ before + len + gone = offset /\ before \in Nat
            /\ len \in Nat /\ gone \in Nat /\ offset \in Nat
            /\ after = before + n /\ n \in Nat
            /\ lost = gone + len - n
        BY <3>4, <4>1, <4>2
      <4> HIDE DEF before, after, len, gone, offset
      <4>5. after + 0 + lost = offset
        BY <4>3, <4>4
      <4> QED
        BY <4>5 DEF after, offset
    <3>6. lost = 0 => copy.lost = 0 /\ n = Len(copy.block)
      BY <1>2, <2>2, <2>5
    <3>7. lost = 0 => file'[copy.dest] = SubSeq(file[copy.orig], 1, copy.offset)
      BY <2>2, <3>2, <3>3, <3>6 DEF Whole
    <3> QED
      BY <1>3, <3>2, <3>3, <3>5, <3>7 DEF Whole
  <2> QED
    BY <1>4, <2>4, <2>6, <2>7, <2>8, <2>9 DEF CopyInv, Copying, Whole
<1>10. CASE Copied
  <2>1. copy' = NoCopy /\ pc' = "key"
    BY <1>10 DEF Copied
  <2>2. NoCopy \in CopyRecord
    BY <1>3 DEF NoCopy, CopyRecord
  <2> QED
    BY <2>1, <2>2 DEF CopyInv, Copying
<1>11. CASE Outside
  <2>1. PICK f \in File, t \in {<<>>, Absent} :
               /\ Copying => f # copy.dest /\ (f = copy.orig => t # Absent)
               /\ file' = [file EXCEPT ![f] = t]
               /\ copy' = [copy EXCEPT !.spoiled =
                             copy.spoiled \/ (Copying /\ f = copy.orig)]
    BY <1>11 DEF Outside
  <2>2. UNCHANGED pc
    BY <1>11 DEF Outside
  <2> DEFINE sp == copy.spoiled \/ (Copying /\ f = copy.orig)
  <2>3. sp \in BOOLEAN
    OBVIOUS
  <2>4. copy' = [copy EXCEPT !.spoiled = sp]
    BY <2>1
  <2>5. ~sp /\ Copying => ~copy.spoiled /\ f # copy.orig
    OBVIOUS
  <2> HIDE DEF sp
  <2>6. /\ copy' \in CopyRecord
        /\ copy'.orig = copy.orig /\ copy'.dest = copy.dest
        /\ copy'.rd = copy.rd /\ copy'.spoiled = sp
        /\ copy'.offset = copy.offset /\ copy'.block = copy.block
        /\ copy'.lost = copy.lost
    BY <1>1, <2>3, <2>4 DEF CopyRecord
  <2>7. file'[f] = t /\ \A g \in File : g # f => file'[g] = file[g]
    BY <1>1, <2>1
  <2>8. SUFFICES ASSUME Copying
                 PROVE  CopyInv'
    BY <2>2, <2>6 DEF CopyInv, Copying
  <2>9. copy.dest # NoPath =>
          copy.dest \in File /\ file'[copy.dest] = file[copy.dest]
    BY <1>4, <2>1, <2>7, <2>8
  <2>10. copy.rd => copy.orig \in File /\ file'[copy.orig] \in Texts
    BY <1>3, <1>4, <2>1, <2>7, <2>8
  <2>11. copy.rd /\ ~sp /\ copy.dest \notin {NoPath, copy.orig} =>
           Whole /\ file'[copy.orig] = file[copy.orig]
    BY <1>4, <2>5, <2>7, <2>8
  <2> QED
    BY <1>4, <2>2, <2>6, <2>8, <2>9, <2>10, <2>11
       DEF CopyInv, Copying, Whole
<1> QED
  BY <1>5, <1>6, <1>7, <1>8, <1>9, <1>10, <1>11
     DEF Next, Enter, Move, Switch, Close, ChooseNothing, ProcessEnds,
         OpenChosenDir, RunChosen, Edit, Write, Load, Save, Leave, SegFault,
         wprintw, Check, Draw, Copying

\* At the start both panels show the working directory.
LEMMA FmInit ==
  ASSUME Init
  PROVE  FmInv
<1>1. PanelInv
  <2>1. PICK pl \in {[dir_path |-> Root, file_list |-> NULL,
                      file_list_ptr |-> 0]} :
               panel = [m \in 1..2 |-> OpenDir(pl, Start)]
    BY DEF Init
  <2>2. pl \in GoodPanel /\ Start \in Dir
    BY FileManagerAssumption DEF GoodPanel, PanelRecord, Places
  <2>3. OpenDir(pl, Start) \in GoodPanel
    BY <2>2, DirOpened
  <2>4. panel \in [1..2 -> GoodPanel]
    BY <2>1, <2>3
  <2>5. suspended = <<>> /\ active = 1 /\ select_pos = 0 /\ MAX_NESTED \in Nat
    BY FileManagerAssumption DEF Init
  <2> QED
    BY <2>4, <2>5 DEF PanelInv
<1>2. PlaceInv
  BY FileManagerAssumption DEF Init, PlaceInv, Texts
<1>3. CopyInv
  BY DEF Init, CopyInv, Copying, NoCopy, CopyRecord, Texts
<1>4. EditorInv
  BY FileManagerAssumption DEF Init, EditorInv, NoSave, Texts, ToSet
<1> QED
  BY <1>1, <1>2, <1>3, <1>4 DEF FmInv

\* The panels, the files, the copy and the window keep their invariants.
THEOREM FmInvHolds == Spec => []FmInv
<1>1. ASSUME FmInv, [Next]_vars
      PROVE  FmInv'
  <2>1. CASE Next
    BY <1>1, <2>1, PanelsStep, PlaceStep, CopyStep, EditorStep DEF FmInv
  <2>2. CASE UNCHANGED vars
    BY <1>1, <2>2
       DEF vars, manager, editor, FmInv, PanelInv, PlaceInv, CopyInv, Copying,
           Whole, EditorInv
  <2> QED
    BY <1>1, <2>1, <2>2
<1> QED
  BY <1>1, FmInit, PTL DEF Spec

\* The variables of fm_exec(), run_texteditor() and copy_file_with_status()
\* keep their ranges.
THEOREM FmTypeCorrect == Spec => []TypeOK
<1>1. FmInv => TypeOK
  <2> SUFFICES ASSUME FmInv
               PROVE  TypeOK
    OBVIOUS
  <2>1. \A m \in 1..2 : panel[m] \in PanelRecord
    BY DEF FmInv, PanelInv, GoodPanel
  <2>2. \A m \in 1..2 :
          /\ panel[m].dir_path \in Dir /\ panel[m].file_list_ptr \in Nat
          /\ panel[m].file_list # NULL =>
               panel[m].file_list \in Seq(ToSet(Order))
    BY <2>1 DEF PanelRecord
  <2> QED
    BY <2>2 DEF TypeOK, FmInv, PanelInv, PlaceInv, EditorInv
<1> QED
  BY <1>1, FmInvHolds, PTL

\* get_chosen_file_path() never reads beyond the list of any manager's panels,
\* whatever becomes of the files and however many managers wait.
THEOREM ChosenExistsHolds == Spec => []ChosenExists
<1>1. FmInv => ChosenExists
  <2> SUFFICES ASSUME FmInv
               PROVE  ChosenExists
    OBVIOUS
  <2>1. \A m \in 1..2 : Places(panel[m])
    BY DEF FmInv, PanelInv, GoodPanel
  <2>2. \A s \in DOMAIN suspended :
          suspended[s].panel \in [1..2 -> GoodPanel]
    <3> DEFINE S == [panel : [1..2 -> GoodPanel], active : 1..2,
                     select_pos : Nat]
    <3>1. \A r \in S : r.panel \in [1..2 -> GoodPanel]
      OBVIOUS
    <3>2. suspended \in Seq(S)
      BY DEF FmInv, PanelInv
    <3> HIDE DEF S
    <3>3. \A s \in DOMAIN suspended : suspended[s] \in S
      BY <3>2
    <3> QED
      BY <3>1, <3>3
  <2>3. \A m \in 1..2, s \in DOMAIN suspended : Places(suspended[s].panel[m])
    BY <2>2 DEF GoodPanel
  <2> QED
    BY <2>1, <2>3 DEF ChosenExists, Places
<1> QED
  BY <1>1, FmInvHolds, PTL

\* What copy_file_with_status() has made when it has read the end of the file
\* lacks what write() did not take, and is the file if it took everything, for
\* every text and every size of a block.
THEOREM CopyIsWholeHolds == Spec => []CopyIsWhole
<1>1. FmInv => CopyIsWhole
  <2> SUFFICES ASSUME FmInv, pc = "join", copy.rd, ~copy.spoiled,
                      copy.dest \notin {NoPath, copy.orig}
               PROVE  /\ Len(file[copy.dest]) =
                           Len(file[copy.orig]) - copy.lost
                      /\ copy.lost = 0 => file[copy.dest] = file[copy.orig]
    BY DEF CopyIsWhole
  <2>1. /\ Whole /\ copy.block = <<>> /\ copy.lost \in Nat
        /\ file[copy.dest] \in Texts /\ file[copy.orig] \in Texts
    BY DEF FmInv, CopyInv, CopyRecord, Copying
  <2>2. \A t \in Texts : /\ t \o <<>> = t /\ SubSeq(t, 1, Len(t)) = t
                         /\ Len(t) \in Nat
    BY DEF Texts
  <2>3. Len(file[copy.dest]) + Len(<<>>) + copy.lost = Len(file[copy.orig])
    BY <2>1 DEF Whole
  <2>4. Len(file[copy.dest]) = Len(file[copy.orig]) - copy.lost
    BY <2>1, <2>2, <2>3
  <2> QED
    BY <2>1, <2>2, <2>4 DEF Whole
<1> QED
  BY <1>1, FmInvHolds, PTL

\* What open_and_save_file_in_editor() leaves in a file, new or overwritten, is
\* loaded again as the text that was saved, if write() took it, there is no
\* '%' in it and nobody else changes the file: for every such text, size of
\* the buffer and width of the window.
THEOREM SavedTextLoadsHolds == Spec => []SavedTextLoads
<1>1. FmInv => SavedTextLoads
  <2> SUFFICES ASSUME FmInv, saved.path # NoPath, PCT \notin ToSet(saved.text)
               PROVE  /\ IsFormat(AsString(file[saved.path]))
                      /\ Printed(AsString(file[saved.path])) = saved.text
    BY DEF SavedTextLoads
  <2>1. /\ AsString(file[saved.path]) = saved.text /\ saved.text \in Texts
        /\ Len(saved.text) < MAX_SIZE_OF_TEXT
    BY DEF FmInv, EditorInv
  <2> QED
    BY <2>1, PrintedAsItIs
<1> QED
  BY <1>1, FmInvHolds, PTL
=============================================================================
