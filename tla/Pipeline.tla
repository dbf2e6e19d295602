------------------------------ MODULE Pipeline ------------------------------
(***************************************************************************)
(* The command interpreter of lesson 20.  For a line "a|b|c" the shell     *)
(* makes the pipes, forks a process for every command, waits for one child *)
(* after every fork but the first, and prompts again.  A child keeps two   *)
(* descriptors of the pipes, its bridge, and closes the others; the shell  *)
(* itself closes none, so it holds both ends of every pipe it ever made.   *)
(*                                                                         *)
(* Commands are of three kinds: a source (ls) writes LINES lines and ends, *)
(* a filter (cat) copies its input until the end of file, and head copies  *)
(* one line and ends.  A read from an empty pipe ends only when nobody     *)
(* holds its write end; a write blocks while the pipe is full.             *)
(***************************************************************************)
EXTENDS Integers, Sequences, FiniteSets, SequencesExt

CONSTANTS
  CommandLine, \* the lines the user may type, as sequences of kinds
  MAX_TYPED,   \* bound: how many he types
  LINES,       \* the lines a source writes
  CAPACITY,    \* the lines a pipe holds
  FD_LIMIT,    \* the descriptors of pipes a process may have open
  UINT_RANGE,  \* how many values an unsigned int has, 2^32
  NoPipes      \* pipe_fd before set_pipe_system() has set it

ASSUME PipelineAssumption ==
  /\ CommandLine \subseteq Seq({"source", "filter", "head"})
  /\ MAX_TYPED \in Nat /\ LINES \in Nat
  /\ CAPACITY \in Nat \ {0} /\ FD_LIMIT \in Nat
  /\ UINT_RANGE \in Nat /\ FD_LIMIT < UINT_RANGE
  /\ \A l \in CommandLine : Len(l) <= UINT_RANGE  \* as its buffer holds 1024

Terminal == 0   \* standard input or output as the shell has it
NoLine   == <<>>

VARIABLES
  shell,    \* "prompt", "pipes", "fork", "wait", "exited", "crashed"
  typed,    \* the lines typed so far
  cmd,      \* the current one
  ser,      \* i, the number of the next process, from 1
  pipe_fd,  \* the pipes of the current line, or NoPipes
  content,  \* what is in each pipe ever made, lines <<of line, number>>
  shellFd,  \* the ends the shell has open: <<pipe, "r">>, <<pipe, "w">>
  proc,     \* the processes forked so far, records as Fork makes them
  terminal  \* the lines on the terminal

shellVars ==
  <<shell, typed, cmd, ser, pipe_fd, content, shellFd, proc, terminal>>

ShellInit ==
  /\ shell = "prompt" /\ typed = 0 /\ cmd = <<>> /\ ser = 1
  /\ pipe_fd = NoPipes
  /\ content = <<>>
  /\ shellFd = {}
  /\ proc = <<>>
  /\ terminal = <<>>

Pipes == DOMAIN content
Ends(k) == {<<k, "r">>, <<k, "w">>}

----------------------------------------------------------------------------
(* The shell: main() and set_pipe_system().                                *)

Type ==
  /\ shell = "prompt" /\ typed < MAX_TYPED
  /\ \E l \in CommandLine : cmd' = l
  /\ typed' = typed + 1
  /\ pipe_fd' = NoPipes /\ ser' = 1
  /\ shell' = "pipes"
  /\ UNCHANGED <<content, shellFd, proc, terminal>>

\* "exit_app": the kernel closes the descriptors of the shell.
ExitApp ==
  /\ shell = "prompt"
  /\ shell' = "exited"
  /\ shellFd' = {}
  /\ UNCHANGED <<typed, cmd, ser, pipe_fd, content, proc, terminal>>

\* Unsigned: a line without a command asks for all the pipes there can be.
PipeCount == (Len(cmd) - 1) % UINT_RANGE

\* How many pipes the shell can still make.
Room == (FD_LIMIT - Cardinality(shellFd)) \div 2

Made == IF PipeCount <= Room THEN PipeCount ELSE Room
New  == (Len(content) + 1)..(Len(content) + Made)

\* set_pipe_system(), whose result is not looked at.  When pipe() fails the
\* pipes made so far stay open, and pipe_fd is not set.
SetPipeSystem ==
  /\ shell = "pipes"
  /\ content' = content \o [k \in 1..Made |-> <<>>]
  /\ shellFd' = shellFd \cup UNION {Ends(k) : k \in New}
  /\ pipe_fd' = IF PipeCount <= Room
                THEN [k \in 1..Made |-> Len(content) + k] ELSE NoPipes
  /\ shell' = "fork"
  /\ UNCHANGED <<typed, cmd, ser, proc, terminal>>

\* malloc() refuses the memory for so many pipes.
MallocFails ==
  /\ shell = "pipes" /\ cmd = <<>>
  /\ shell' = "crashed"
  /\ shellFd' = {}
  /\ UNCHANGED <<typed, cmd, ser, pipe_fd, content, proc, terminal>>

Fork ==
  /\ shell = "fork" /\ ser <= Len(cmd)
  /\ proc' = Append(proc, [kind |-> cmd[ser], line |-> typed, ser |-> ser,
                           pipes |-> pipe_fd, fds |-> shellFd,
                           in |-> Terminal, out |-> Terminal,
                           state |-> "forked", count |-> 0, hold |-> NoLine])
  /\ IF ser = 1 THEN ser' = 2 /\ UNCHANGED shell
                ELSE shell' = "wait" /\ UNCHANGED ser
  /\ UNCHANGED <<typed, cmd, pipe_fd, content, shellFd, terminal>>

\* Mutant: the shell waits for the child it forked last.
WaitForLast ==
  /\ shell = "wait"
  /\ proc[Len(proc)].state = "zombie"
  /\ proc' = [proc EXCEPT ![Len(proc)].state = "reaped"]
  /\ ser' = ser + 1
  /\ shell' = "fork"
  /\ UNCHANGED <<typed, cmd, pipe_fd, content, shellFd, terminal>>

\* wait(NULL): for any child, of this line or of an earlier one.
Wait ==
  /\ shell = "wait"
  /\ \/ \E p \in DOMAIN proc :
          /\ proc[p].state = "zombie"
          /\ proc' = [proc EXCEPT ![p].state = "reaped"]
     \/ /\ \A p \in DOMAIN proc : proc[p].state = "reaped"
        /\ UNCHANGED proc
  /\ ser' = ser + 1
  /\ shell' = "fork"
  /\ UNCHANGED <<typed, cmd, pipe_fd, content, shellFd, terminal>>

Prompt ==
  /\ shell = "fork" /\ ser > Len(cmd)
  /\ shell' = "prompt"
  /\ UNCHANGED <<typed, cmd, ser, pipe_fd, content, shellFd, proc, terminal>>

----------------------------------------------------------------------------
(* A child: make_pipe_bridge(), dup2(), execlp().                          *)

\* Mutant: everybody reads from the first pipe.
InputFirst(p) == IF p.ser # 1 THEN p.pipes[1] ELSE Terminal

Input(p)  == IF p.ser # 1 THEN p.pipes[p.ser - 1] ELSE Terminal
Output(p) == IF p.ser # Len(p.pipes) + 1 THEN p.pipes[p.ser] ELSE Terminal

\* Mutant: the write end of the pipe the process reads from stays open.
ClosedButOwn(p) ==
  {<<p.pipes[i], "w">> : i \in DOMAIN p.pipes \ {p.ser, p.ser - 1}} \cup
  {<<p.pipes[i], "r">> : i \in DOMAIN p.pipes \ {p.ser - 1}}

\* The ends of its pipes a process closes.
Closed(p) ==
  {<<p.pipes[i], "w">> : i \in DOMAIN p.pipes \ {p.ser}} \cup
  {<<p.pipes[i], "r">> : i \in DOMAIN p.pipes \ {p.ser - 1}}

MakePipeBridge(p) ==
  /\ proc[p].state = "forked" /\ proc[p].pipes # NoPipes
  /\ proc' = [proc EXCEPT ![p].fds = @ \ Closed(proc[p]),
                          ![p].in = Input(proc[p]),
                          ![p].out = Output(proc[p]),
                          ![p].state = "running"]
  /\ UNCHANGED <<shell, typed, cmd, ser, pipe_fd, content, shellFd, terminal>>

Ended(p) == [p EXCEPT !.state = "zombie", !.fds = {}]

\* bridge is NULL: the child ends with a segmentation fault.
BridgeFails(p) ==
  /\ proc[p].state = "forked" /\ proc[p].pipes = NoPipes
  /\ proc' = [proc EXCEPT ![p] = Ended(@)]
  /\ UNCHANGED <<shell, typed, cmd, ser, pipe_fd, content, shellFd, terminal>>

----------------------------------------------------------------------------
(* The programs and the kernel.                                            *)

Held(end) == end \in shellFd \/ \E p \in DOMAIN proc : end \in proc[p].fds

Writing(p) == proc[p].state = "running" /\
  IF proc[p].kind = "source" THEN proc[p].count < LINES
                             ELSE proc[p].hold # NoLine

NextLine(p) == IF proc[p].kind = "source"
               THEN <<proc[p].line, proc[p].count + 1>> ELSE proc[p].hold

WriteLine(p) ==
  /\ Writing(p)
  /\ IF proc[p].out = Terminal
     THEN terminal' = Append(terminal, NextLine(p)) /\ UNCHANGED content
     ELSE /\ Held(<<proc[p].out, "r">>)
          /\ Len(content[proc[p].out]) < CAPACITY
          /\ content' = [content EXCEPT ![proc[p].out] =
                           Append(@, NextLine(p))]
          /\ UNCHANGED terminal
  /\ proc' = [proc EXCEPT ![p].count = @ + 1, ![p].hold = NoLine]
  /\ UNCHANGED <<shell, typed, cmd, ser, pipe_fd, shellFd>>

\* SIGPIPE
WriteFails(p) ==
  /\ Writing(p)
  /\ proc[p].out # Terminal /\ ~Held(<<proc[p].out, "r">>)
  /\ proc' = [proc EXCEPT ![p] = Ended(@)]
  /\ UNCHANGED <<shell, typed, cmd, ser, pipe_fd, content, shellFd, terminal>>

Reading(p) == proc[p].state = "running" /\ proc[p].hold = NoLine /\
  \/ proc[p].kind = "filter"
  \/ proc[p].kind = "head" /\ proc[p].count = 0

ReadLine(p) ==
  /\ Reading(p) /\ proc[p].in # Terminal
  /\ content[proc[p].in] # <<>>
  /\ proc' = [proc EXCEPT ![p].hold = Head(content[proc[p].in])]
  /\ content' = [content EXCEPT ![proc[p].in] = Tail(@)]
  /\ UNCHANGED <<shell, typed, cmd, ser, pipe_fd, shellFd, terminal>>

\* A source that has written everything, head that has copied its line, and
\* both readers at the end of file.
End(p) ==
  /\ proc[p].state = "running"
  /\ \/ proc[p].kind = "source" /\ proc[p].count = LINES
     \/ proc[p].kind = "head" /\ proc[p].count = 1
     \/ /\ Reading(p) /\ proc[p].in # Terminal
        /\ content[proc[p].in] = <<>> /\ ~Held(<<proc[p].in, "w">>)
  /\ proc' = [proc EXCEPT ![p] = Ended(@)]
  /\ UNCHANGED <<shell, typed, cmd, ser, pipe_fd, content, shellFd, terminal>>

----------------------------------------------------------------------------
Shell == SetPipeSystem \/ MallocFails \/ Fork \/ Wait \/ Prompt
Run(p) == \/ MakePipeBridge(p) \/ BridgeFails(p)
          \/ WriteLine(p) \/ WriteFails(p) \/ ReadLine(p) \/ End(p)

ShellNext == Type \/ ExitApp \/ Shell \/ \E p \in DOMAIN proc : Run(p)

ShellSpec == ShellInit /\ [][ShellNext]_shellVars

MaxProc == MAX_TYPED * 3   \* bound: three commands in a line

\* The kernel runs the shell and every process; the user need not type.
ShellFairSpec ==
  /\ ShellSpec /\ WF_shellVars(Shell)
  /\ \A p \in 1..MaxProc : WF_shellVars(p \in DOMAIN proc /\ Run(p))

----------------------------------------------------------------------------
\* The comment of make_pipe_bridge(): of the pipes of its own line a running
\* process has the two descriptors of its bridge open and no others, and two
\* neighbours of a line are joined by one pipe that no third process of the
\* line has.
BridgeIsPrivate ==
  \A p \in DOMAIN proc : proc[p].state = "running" =>
    LET own == UNION {Ends(proc[p].pipes[i]) : i \in DOMAIN proc[p].pipes}
    IN  /\ proc[p].fds \cap own =
             (({proc[p].in} \X {"r"}) \cup ({proc[p].out} \X {"w"})) \cap own
        /\ \A q \in DOMAIN proc :
             /\ proc[q].state = "running" /\ proc[q].line = proc[p].line
             /\ proc[q].ser = proc[p].ser + 1
             => proc[p].out = proc[q].in /\ proc[p].out # Terminal

\* A line of commands passes every line of text on once and in order: the
\* n-th line it brings to the terminal is the n-th its source wrote, whatever
\* lines ran before and still run.
TextInOrder ==
  \A i \in DOMAIN terminal :
    terminal[i][2] =
      Cardinality({j \in 1..i : terminal[j][1] = terminal[i][1]})

\* The shell prompts again after a line of at most two commands of which the
\* first of two needs no input, whatever ran before: of the children it may
\* wait for, one always ends.  An empty line may crash it in set_pipe_system()
\* instead, no other does.  (The code says it was tried on 'ls|cat'.  After
\* 'cat|cat' it waits, in wait(), for the first cat, which reads the terminal;
\* what is typed there is not modelled.)
ShellPromptsAgain ==
  /\ shell = "pipes" /\ Len(cmd) <= 2
  /\ Len(cmd) = 2 => cmd[1] = "source"
  ~> \/ shell = "prompt"
     \/ shell = "crashed" /\ cmd = <<>>

\* When the user leaves the shell, its descriptors are closed and with them
\* the pipes: every process that was left behind ends.  A cat on a line of
\* its own does not: it reads the terminal, and it has inherited both ends of
\* the pipes of all earlier lines, whose readers wait with it.
LeftoversEnd ==
  shell = "exited" ~>
    \/ \A p \in DOMAIN proc : proc[p].state \in {"zombie", "reaped"}
    \/ \E p \in DOMAIN proc :
         /\ proc[p].state = "running" /\ proc[p].kind # "source"
         /\ proc[p].in = Terminal

=============================================================================
