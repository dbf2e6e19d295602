# Models of ELTEXLessons

TLA+ specifications of the concurrent programs of this repository, the TLC
instances that check them, and TLAPS proofs about all of them. The repository is a
course: some forty small C programs (threads, processes, pipes, message queues, shared
memory, sockets), a file manager, and a dozen Erlang applications. There is no single
system, so each program that keeps state across steps of several actors has a module of
its own; the programs share the kernel objects they use, of which the System V queue is a
module too.

Paths below are relative to `src/`.

## 1. Inventory

| Component | State | Operations and actors | What is hard |
|---|---|---|---|
| **Queue chat**, `lab_21/` | `USER_STATUS` of the server, `CLIENT_ID` of a client, one System V queue whose message types are addresses | server loop `chat_server()`; client `join_chat()`, `send_mess()`, thread `thread_rcv_func()` | a joining client reads messages meant for others and puts them back; a bounded queue with `IPC_NOWAIT`; restart of the server; the full room |
| **UDP job server**, `lab_26/UDP/` | job queue, one job buffer and state per worker process | `main()` receives and enqueues; `handle_server_main()` is a state machine | `wait()` for one child of several, removal of the queue with jobs in it, stale job buffer |
| **TCP job server**, `lab_26/TCP/` | job queue of descriptors, descriptor table, one state per thread | `main()` accepts; threads serve, close, and call `exit()` | numbers of closed descriptors are given out again; the queue outlives the process |
| **Shared memory chat**, `lab_22/` | segment (name, text, number), semaphore, `PREV_MESS` | create or attach, `send_mess()` under the lock, receiver thread without it | initialisation races, readers without lock, death inside the critical section |
| **Shop**, `lab_19/19.2/` | `STORE[]`, a mutex for each, `CONS_INDEX`, `LOAD_INDEX` | consumers and loaders with `pthread_mutex_trylock()`; `main()` joins and destroys | lost updates, unlocking on every way out, destruction while loaders run |
| **Shell with pipes**, `lab_20/` | pipes, the descriptor table of every process | shell loop, `set_pipe_system()`, `make_pipe_bridge()` | who holds which end; leaked descriptors; waiting for too few or the wrong children |
| **Multi-protocol servers**, `lab_27/` | ready set, one buffer, sockets | `select`, `poll` and `epoll` loops over a UDP and a TCP socket | stale readiness, starvation of one protocol, a client that vanishes |
| **File manager**, `file_manager/` | two panels, the editor window, files, the progress thread | `fm_exec()`, `run_texteditor()`, `copy_file_with_status()`, `run_chosen_exec_file()` | stale directory lists, a thread that reads the stack of its creator, a failed `execl()`, short writes, text printed as a format |
| **Echo servers**, `lab_24/`, `lab_25/`, `lab_29/server.c` and Erlang `lab_6` | one buffer and one address of a server, its descriptors and children | one request, a child per request, or one client after the other; testers that fork a waiter per request | descriptors and zombies that pile up, a buffer reused while a child answers, a server that ends with clients in its backlog |
| **Raw clients**, `lab_29/`-`lab_31/` | a raw socket | send one request, take packets until one is the server's | every raw socket sees every datagram, and all share a port |
| **ICMP tools**, `lab_32/` | a TTL, the address of the last packet | `ping`, `traceroute` | answers are not matched to probes |
| Threads `lab_19/19.1`, `19.3`; processes and signals `lab_18`, `lab_23` | a loop index, a thread-specific string; none | thread start, process tree, `pause()` | the index is shared with the threads; a signal before `pause()` |
| Allocator `lab_17`; calculators `lab_1.2`, `lab_14-15`, `lab_15.2` | heap; list of plugins | sequential | counters at their limits |
| First exercises `lab_1`, `lab_2`, `lab_10`, `lab_11`, older manager `lab_16` | - | sequential | - |
| **Erlang processes**: the cipher `lab_10_(gen_statem)`; telephone, event counter and clock of `lab_8_1 (gen)` | state and data of a process, its mailbox | calls, events and stray messages of clients; the supervisor | events that no clause accepts, calls never answered, stale events, callback results the behaviour rejects, a start in two steps |
| File server `lab_6_1`, broadcast and multicast `lab_28/` | - | one client, or one endless sender | - |
| Erlang exercises and clients of services: `lab_2`-`lab_5`, `lab_7`, `lab_8_2`, `lab_8_3`, `lab_10 (nksip)` | - | list functions, HTTP and SIP calls | external services |

The programs do not call each other; interaction is inside each: through the kernel queue
(chat, job servers), shared memory (lesson 22, threads), descriptors (lessons 20, 26, 27), or
files (the manager). What makes each correct is the list of properties in section 3;
`PROJECT.json` lists every hazard at its line.

## 2. Modules

| Module | Models | State and actions |
|---|---|---|
| `SysVQueue` | `msgsnd(2)`, `msgrcv(2)` as the code uses them | operators `Accepts`, `Selected`, `Full` for a queue of typed messages: type 0 takes the first message, a positive type the first of that type |
| `MsgChat` | `lab_21` | `srv_pc` is the place in `chat_server()`: `Server...` actions are its `case` branches and one turn of the forward loop. A client is `pc`, `CLIENT_ID`, the message `held` while it is put back, and what its terminal has `shown`. `SendFails` is `IPC_NOWAIT` on a full queue followed by `exit()` |
| `ChatRoom` | nothing in the code: what the chat promises | one log, members see what the others say after they entered, in order, once |
| `MsgChatRoom` | the refinement | a member of the room is a slot; log and entry are read off what the server printed, `seen` off the terminals |
| `JobServerUDP`, `JobServerTCP` | `lab_26` | `statement[w]` is the `enum state` of a worker, one action per `case`; `main` is the place in `main()`. `MainFails` is the `recvfrom()` of `lab_26/UDP/server.c:115` that fails: `main()` exits, and the queue stays |
| `ShmChat` | `lab_22` | every read and write of the segment is an action, `mess_num++` is two; `Die` kills a process at any point and leaves the semaphore as it is |
| `Store` | `lab_19/19.2` | lock, read, write and unlock are separate; `++INDEX` is a load and a store; random picks are arbitrary |
| `Pipeline` | `lab_20` | `shellFd` and `proc[p].fds` are the descriptor tables; `MakePipeBridge` is the whole function; commands are a source, a filter or `head` |
| `Multiplex` | `lab_27` | `poller` picks one of three `...Returns` actions; the rest of the loops is the same code |
| `FileManager` | `file_manager/` | `panel[m]` is `struct FILE_MANAGER`; `pc` tells the place of the process that has the terminal, `suspended` the managers that wait for it; `copy` and `progress` are the two threads of a copy. `WriteBlock` takes any beginning of a block, as `write()`'s result is not looked at. `wprintw` is the printing of a text as a format: `%%` is one `%`, anything else undefined, so any of `Garbled`, or `SegFault` |
| `EchoServers` | `lab_24`, `lab_25`, `lab_29`-`lab_31`, Erlang `lab_6` | `program` picks the pair; `server` is the parent or the only process, `child[c]` the process forked for `c` with its copies of buffer, address and descriptors; `pc[c]` is the place of a client, `tester` the process of lesson 25 that starts them. `Room` and `Processes` count what `accept()`, `socket()` and `fork()` need. `ServerFails` and `ChildFails` are the error exits of `udp_server.c:50-77` |
| `IcmpTools` | `lab_32` | `setting` is a network: which points are silent or refuse, whether answers are in time. `Sends`, `Takes` and `TimesOut` are the loop both tools have, `PingReceives`, `TraceReceives` and so on what each makes of it |
| `OtpServers` | `st_wrapper`, `gf_main`, `gf_listener`, `ge_main`, `gs_server` and their supervisors | `app` picks the process; one action per callback clause, named for the callback. `NoClause`, `Expected` and `Installed` say what OTP does with a message no clause takes or a result it does not know; `Crash` restarts the process with its initial state and an empty mailbox. `ge_main` starts in two steps: `add_handler` is the second half of its `start_link()`, a message like any other, and `init` is where the handler takes its place; `adding` tells how far the supervisor is. `call/1` may name any process and any client may send `up_phone()` |
| `Delay` | nothing in the code: what the cipher promises | every bit is answered with the bit before it, whoever gave it; a refresh or a restart starts again with 0; a symbol it does not know need not be answered |

The theorems are in `MsgChatProofs`, `SystemVProofs` (about `JobServerUDP` and `ShmChat`),
`SocketProofs` (`JobServerTCP` and `IcmpTools`), `TerminalProofs` (`Pipeline` and
`FileManager`), `StoreProofs`, `MultiplexProofs`, `EchoServersProofs` and `OtpServersProofs`.
Where one proof module is about two components, the names of one of them tell it apart
(`JobSpec`, `IcmpSpec`, `ShellSpec`). `MCMsgChat`, `MCPipeline`, `MCFileManager` and
`MCIcmpTools` give values to constants that a `.cfg` cannot write. Operators with a comment that begins with "Mutant"
are not part of a specification: each is the code with a plausible bug, and the property named
for it in `PROJECT.json` fails when it takes the place of the definition after it.

Texts and nicknames are model values or small records; a text with ", client!" appended
counts the suffixes. Counters are bounded by constants in guards (`MAX_POSTS`,
`MAX_RESTARTS`, `MAX_RUNS`, `MAX_SENDS`, `MAX_STOCK`, `MAX_TYPED`, `MAX_CHANGES`,
`MAX_NESTED`, `MAX_ERRORS`, `MAX_SENT`, `MAX_LINES`, `MAX_NOISE`). `UINT_RANGE` is the number
of values of the `unsigned int` that counts the pipes of a line.

## 3. Runs

| Run | Instance | Shows |
|---|---|---|
| `MsgChat` | 3 clients (two share a nickname, one may be interrupted), 2 slots, queue of 2, 1 post each, 1 restart | `UniqueLevels`, `LevelsAreTaken` until a restart; `TerminalIsClean` always |
| `MsgChatRoom` | 3 clients, 3 slots, quiet room | `ImplementsRoom` (refinement, liveness included), `EveryJoinAnswered` |
| `JobServerUDP` | 2 workers, 3 requests each, queue of 3, replies may fail, and so may `recvfrom()` in `main()` | `OneAnswerWhileQueueLives`, `CleanReplies`, `ServerEnds` |
| `JobServerTCP` | 2 threads, 3 connections each, queue of 2, 4 descriptors, 2 starts | `OneOwner`, `FirstRunEnds` |
| `ShmChat` | 2 processes, 1 message each, one may die | `LockHasOneOwner`, `RestingMessageIsWhole`, `NumberCountsMessages`, `EveryoneGetsTheLast` |
| `Store` | 2 consumers, 1 loader, 2 stores | `StockMatchesBooks`, `ShopGoesOn` |
| `Multiplex` | all three servers, 2 clients of each protocol, 4 turns, calls may fail | `OwnReply`, `OneRequestPerTurn`, `EveryClientServed` |
| `Pipeline` | 3 lines of 0 to 3 commands, also with a filter first, which reads the terminal; 2 lines of text each, 7 descriptors | `BridgeIsPrivate`, `TextInOrder`, `ShellPromptsAgain`, `LeftoversEnd` |
| `FileManager` | 2 directories that open and one that does not, a file of 3 characters and an executable one of `%%`, texts typed with a new line and with `%`, blocks of 1 as in the code, a buffer of 3, a window of 2 columns, 2 changes of files or 1 and a nested manager; reads may fail and writes take less | `TypeOK`, `ChosenExists`, `CopyIsWhole`, `SavedTextLoads`, `CopyEnds` |
| `EchoServers` | all seven programs, 3 clients (2 of them raw where there are raw clients, one that says stop to an Erlang server, one that may be killed), backlog and buffer of 2, 5 or 6 descriptors, 4 processes; the server or a child may fail | `OwnReply`, `RawTakesAnswers`, `Answered`, `NobodyWaitsForTheDead` |
| `IcmpTools` | ways of 3 points, the second or last silent, the second refusing; one tool on a slow network or both on a prompt one; 2 pings, 5 lines, `TTL_SPACE` of 4, 1 foreign packet | `NoLineIsAhead`, `LinesAreTheWay`, `EndsAtTheEnd`, `ToolsEnd` |
| `OtpServers` | each of the four processes, 2 clients, 2 telephones, 4 messages, 1 restart allowed; `ge_main` from before its handler is asked for | `ImplementsDelay` (refinement), `EventsAreCounted`, `TalksHaveCallers`, `EveryCallEnds` |

The type invariants are theorems and not checked again by runs, except that of `FileManager`,
which bounds the pointers of its panels.
`CHECK_DEADLOCK FALSE` everywhere: users may stop typing, and the programs end.

Why the bounds are enough. Two slots and three clients give a full room, a client that
waits while two others interleave, and answers for a shared nickname in both orders; a queue
of two fills up in the middle of a forward. Two workers are the smallest number where one can
end first and where a descriptor can pass from one to another; a queue smaller than the load
drops jobs. Four descriptors make `accept()` reuse numbers at once and run out. Two stores
let a visitor be refused in one while another is served elsewhere. Three typed lines with seven
descriptors make `pipe()` fail on the third. In `FileManager` the
buffer of 3 (65536 in the code, and a constant of the module) is filled by one of the files, so
that the string in it has no end, and is longer than what the two columns let a user save, so
that a saved text is shorter than the file under it; only the relation of these sizes matters.
The `%%` of the other comes back as `%`, which is no format when it is saved. Two changes are a
save and one from outside, or a copy of a file that changes meanwhile.

Three clients of `EchoServers` let a child answer one while its parent has received another
and a third waits; with five descriptors the second `accept()` of the parent fails, with six
the third, and four processes are fewer than the three children and three waiters need. Three
points of a way are one before, at and after the one that is silent or refuses; with a
`TTL_SPACE` of 4 the TTL wraps within the five lines, as it does after 255 in the code. In `OtpServers`
four messages from two clients are enough for two calls, a restart and what comes late; the
supervisor gives up after the second crash.

`MsgChat` uses symmetry of the two clients with one nickname and a view that leaves out
what the server printed, which decides nothing; it has no temporal property, so both are sound.

### Fairness

- `MsgChat`: weak fairness of the server loop and of the threads of a client that are in
  `msgrcv()` or about to send; joining, typing and leaving are the users' choice.
- `JobServer*`, `ShmChat`, `Multiplex`, `Pipeline`, `FileManager`: weak fairness of every
  process or thread, which the kernel's scheduler gives; users need not act, and system
  calls need not fail: `MainFails`, `ServerFails` and the like are free. The testers of
  lessons 26 and 27 send what they announce (they do so without waiting), and that is
  assumed too.
- `Store`: weak fairness of every thread, and no more: `trylock()` does not queue, so nothing
  lets a given visitor in. `ShopGoesOn` is therefore about the shop: whoever is in a store leaves
  it, somebody is let in again, a consumer who found goods is done with them in the end, and
  `main()` returns when all are done.
- `EchoServers`: weak fairness of the server, of every child and of every client that has been
  started. Who starts a client, kills one or sends "stop()." is free. `Recv` returns when a
  text has come or the client has gone, so a client that connects has to send, as the clients
  here do.
- `IcmpTools`: weak fairness of the tools and of the network, which answers or loses every
  probe. Foreign packets need not come, and finitely many do (`MAX_NOISE`): the waits of both
  tools start again with every packet, so a flood of them is a case the model leaves out.
- `OtpServers`: weak fairness of the process (its restart is part of the step that crashes) and
  of the listeners that were rung, and of the supervisor that asks for the handler, which the
  Erlang scheduler gives. Clients need not send.

## 4. Proofs

All theorems hold for every value of the constants that satisfies the named assumption of
the module (`ChatAssumption`, `StoreAssumption`, ...), which TLC evaluates on every run.

| Theorem | Argument |
|---|---|
| `TypeCorrect` (`MsgChat`, `JobServerTCP`, `ShmChat`, `Store`, `Multiplex`, `OtpServers`, `EchoServers`), `FmTypeCorrect` (`FileManager`) | the type invariant is inductive; one step per action. Those of `JobServerUDP`, `IcmpTools` and `Pipeline` are parts of the invariants below |
| `UniqueLevelsHolds`, `LevelsAreTakenHolds` (`MsgChat`) | not inductive: two clients could be about to read two answers that grant one slot. `GrantInv` says that the grant of a slot is at one place only: in the hands of the server, once in the queue, held by a joining client, or turned into a level; and only for slots that are taken. `GrantInvHolds` is its proof; the lemmas `ReceiveGrants` and `SendGrants` say what a queue operation does to grants, and rest on what removing an element does to a sequence |
| `TerminalIsCleanHolds` (`MsgChat`) | `CopyInv` follows the copies of every line: for each level there is one at most, still to be made by the server, in the queue, in the hands of a joining client, or on a terminal, and a line carries the level of its author (`Signed`). `CopiesStay` is the argument of every step that adds no copy; the forward loop and the putting back are the two that do. It needs no assumption on restarts |
| `OneAnswerHolds`, `CleanRepliesHolds` (`JobServerUDP`) | `JobInv`: until the queue is removed every request received is at exactly one place, the queue, the job of one worker, the answers, the lost or the failed ones, and a worker that holds one has added the suffix as often as its state says |
| `OneOwnerHolds` (`JobServerTCP`) | inductive together with the type invariant, since `accept()` picks a free number and a thread closes before it forgets |
| `LockHasOneOwnerHolds`, `RestingMessageIsWholeHolds`, `NumberCountsMessagesHolds` (`ShmChat`) | the lock is owned by whoever is between lock and unlock, dead or alive. `WholeInv` adds that one process fills the segment in and what the owner of the lock has written so far; for the count, also what it has loaded and what it has still to store |
| `LockedByTheVisitorHolds`, `StockMatchesBooksHolds` (`Store`) | `StockInv` adds that what a visitor has read in a store is still there |
| `ConsumersGoFirstHolds` (`Store`) | `JoinedInv`: `main()` is past its join only when every consumer is done |
| `OwnReplyHolds`, `OneRequestPerTurnHolds` (`Multiplex`) | `PlaceInv` says that a request is at one place, a queue of the kernel, the hands of the server or answered, and that the buffer about to be sent is the peer's own or the peer has gone. `TurnInv` counts: the turn under way is one more than the clients answered |
| `OwnReplyHolds`, `RawTakesAnswersHolds` (`EchoServers`) | `TextInv` follows a text from the socket of the server over its buffer, a child's copy of it and the way back: wherever it is, it belongs to the peer it will be sent to, or that client has gone, and who has gone stays gone (`GoneStaysGone`). Packets are delivered in one place, the lemma `Delivery`, and `RepliesAreOwed` and `RequestsAreOwed` say which sockets they may reach |
| `NoLineIsAheadHolds`, `EndsAtTheEndHolds`, `LinesAreTheWayHolds` (`IcmpTools`) | `TraceInv`: of a traceroute that runs alone every probe, answer and line is of a point no farther than the lines printed so far allow, whatever is late or lost. `WayInv`, for answers in time: one probe or its answer is under way while a tool waits, and nothing while it sends, so the TTL is the number of the line; and the address printed last is that of the last point up to there that answered. `AnswerIsNear` says how an answer depends on the TTL of its probe |
| `BridgeIsPrivateHolds`, `TextInOrderHolds` (`Pipeline`) | `PipeInv` in four parts. `LineInv`: commands of one line share their pipes, commands of two lines none, and the pipes of the line being made are new. `BridgeInv`: what `make_pipe_bridge()` has left each command, and what it holds between read and write. `FlowInv`: the lines in a pipe are those its writer gave and its reader has not taken, numbered in order. `TerminalInv`: a line is shown by the last command of its command line, which has counted it. Each is disturbed by few steps (`FlowStep`, `PipeFills`, `PipeDrains`, `TerminalGrows`) |
| `ChosenExistsHolds` (`FileManager`) | `PanelInv`: the panels of the manager that has the terminal and of every one that waits have pointers inside their lists; `open_dir()` restores this for any directory because `scandir()` lists at least "." (`ScanReturns`, `DirOpened`) |
| `CopyIsWholeHolds` (`FileManager`) | `CopyInv`: the copy, the block read last and what `write()` did not take are together as long as what was read, and while nothing is missing the first two are the beginning of the file up to the offset; at the end of the loop the offset is its length (`BlockFollows`: a block continues what was read, and only an empty one is the end) |
| `SavedTextLoadsHolds` (`FileManager`) | `EditorInv` keeps the window free of NUL, whatever an undefined format prints, and the file saved last beginning with the text. `WrittenIsRead`: a line written over any other text, zeros included, is the string that is read back; `PrintedAsItIs`: a string that has an end and no `%` is a format that prints itself |
| `TalksHaveCallersHolds` (`OtpServers`) | `PhoneInv`: a listener picks up once, so there is one `up_phone` of it at most, in the mailbox or used up; one that matches the clause of a call leads to a call nobody can pick up any more. An `up_phone` that a client sends names the client, never a listener, so it cannot be taken for that of one |
| `EventsAreCountedHolds` (`OtpServers`) | `CountInv`. `EventMail`: once the supervisor has asked for the handler its request is in the mailbox, once, until the handler is there, and while nothing is spoilt stray messages are ahead of it. `Account`: before it is there nothing is counted; the events made since it was asked for are those reported, those counted, and those in the mailbox not ahead of the request, or fewer when the handler was removed (`OneMoreEvent`, `NoneAwaited`, `OneEventLess`; `PostedMail`, `AskedMail`, `TakenMail`) |
| `ImplementsDelayHolds` (`OtpServers`) | `CallsInv` says that a client that waits has its request, or nothing, in the mailbox; with it every step of the cipher is a step of `Delay`, or stutters (`DelayStep`): the abstract `last` is 1 in `q1` and 0 in `q0` and `q2` |

With these every invariant that a run checks is also a theorem. The assumptions say of the
constants what the code gives: the sizes are numbers, no window shows a NUL, a row of the
editor is shorter than the buffer it is saved from, every directory has an entry ".", a command
line has no more commands than an `unsigned int` counts.

Only model-checked: the liveness properties (`ServerEnds`, `CopyEnds`, `EveryCallEnds` and
the others of section 3), for fairness and `ENABLED` are out of the prover's reach; and
`ImplementsRoom`. Its fairness is liveness too, and its step part reads the room off the
terminals with `SelectSeq`, which is defined by recursion: what it returns for every
sequence would have to be proved by induction. For the same reason `Scan`, `UpTo`,
`TextInOrder` and `EventsAreCounted` are stated with `Cardinality` instead of `SelectSeq`;
the lemmas `NthPlace`, `UpToFirst` and `LinesGrow` say what that counts.
`LockedByTheVisitor` and `ConsumersGoFirst` of `Store` are proved and not run.

## 5. What the models show of the code besides

These hold in the models and follow from the lines named; no run is spent on each.

- `lab_21/server.c:42`: the answer of a full room goes to a level that a member owns; the
  member may take it, and the newcomer waits for ever.
- `lab_26/UDP/server.c:127`: the queue is removed after the first worker, and a request that
  `global_var.h:7` promises to handle is left to nobody.
- `lab_26/UDP/server.c:115`: when `recvfrom()` fails `main()` exits at once, and the workers
  stay, waiting for requests nobody will put into the queue, which stays too.
- `lab_20/main.c:86`: the line `ls|cat|cat` leaves the shell and both filters waiting for
  ever; after `cat|cat` it waits for the first, which reads the terminal as the shell does.
- `lab_21/client.c:36`: a client that took a foreign message while joining goes on with
  level 0, which its note (`client.c:15-17`) does not intend; `lab_21/server.c:84`: a server
  started again gives levels twice; `lab_21/msgchat.c:9`: a full queue ends whoever sends,
  the server in the middle of a forward included.
- `lab_26/TCP/server.c:219`: the first thread that has served its share ends all others;
  `lab_26/UDP/server.c:122`: with a request lost in a full queue the server may never end.
- `lab_22/main.c:135`: a terminal may show the name of one message with the text of
  another; `lab_22/main.c:68`: an early attacher may lose its message to the initialisation.
- `lab_19/19.2/main.c:39`: two loaders may show one number; `main.c:71`: a consumer may be
  refused, or find empty stores, for ever, and `main()` waits for him.
- `lab_27/select_server.c:67`: the `select` server serves one protocol only after a turn
  that found only it ready, as the set is filled once, at lines 60-62.
- `lab_20/main.c:85`: after `ls|cat` the prompt is back, but `cat` stays until the shell ends.
- `file_manager/load_win.c:68`: a copy of what cannot be opened never ends;
  `load_win.c:57-58`: a copy of a file onto itself empties it; `load_win.c:70`: what `write()`
  does not take is missing in the copy, and nobody is told;
  `text_editor.c:70`, `87` and `154`: a text is printed as a format, so `%%` comes back as `%`, and
  `%s`, `%n` or a file that fills the buffer (line 85) are undefined;
  `file_manager.c:222`: after a failed `execl()` two managers exist;
  `file_manager.c:98`: with a directory that `scandir()` refuses, the next Enter crashes;
  `text_editor.c:84`: of a file that cannot be opened the editor shows the directory list,
  where `text_editor.h:49-50` promises an empty window.
- `lab_25/TCP/tcp_server.c:54`: after a failed `fork()` the parent goes on and nobody serves
  the client, which keeps waiting while the server runs; `lab_25/UDP/udp_server.c:50-77`: a server or a
  child that fails in a call leaves its client waiting without a word.
- `lab_30/raw_client.c:129`: of two raw clients one may take the answer to the other.
- `lab_32/traceroute.c:147`: the line of a point that does not answer repeats the point before
  it; after a late answer all lines are one too low; next to `ping` or another program either
  tool ends or prints for packets that answer no probe of its own.
- `st_wrapper.erl:88`: who asks the cipher for another symbol waits for ever;
  `ge_main.erl:39`: any stray message removes the handler, and the manager goes on without it;
  `gs_server.erl:40`: a stray message crashes the clock unless another one follows at once; `gf_main.erl:31`: an `up_phone` after a
  restart is taken for a call of a listener to itself, and a process that calls `up_phone()`
  (`gf_main.erl:16`) twice has a talk with the atom `up_phone`; `ge_main.erl:12-13`: an event
  notified between the two is lost.
- `lab_6_2_server_tcp.erl:24`: one client that closes ends the server for all.

## 6. Not modelled

Layout, wording, logging and windows; the bytes of headers and the checksums; `fork()` and
`exec()` failing in the shell; time, except as "at some point".

Left out for good, with no state that several steps or actors share: the allocator of lesson 17
and the calculators, which are sequential; the first exercises and the file manager of lesson
16, whose successor is modelled; the senders and receivers of lesson 28; the Erlang
exercises, which are functions on lists, and the clients of services outside the repository.
`PROJECT.json` lists them with the reasons.

Left for later: the thread examples of lessons 19.1 and 19.3 and the signals of lessons 18 and
23, each a few lines whose question (the index shared with the threads, a signal before
`pause()`) one small module would answer; the file server `lab_6_1`.

## 7. Plan

1. Done: the queue chat with its abstract room, both job servers, the shared memory chat,
   the shop, the shell, the multi-protocol servers, the file manager, the echo servers and raw
   clients, the ICMP tools, and the OTP processes with the cipher's abstract delay; the
   proofs of section 4.
2. Left: threads and signals of lessons 18, 19.1, 19.3 and 23; `lab_6_1`; the checksum as a
   function against its definition.
3. Proofs left: the safety part of `ImplementsRoom`, with the log and the terminals read off
   by counting; action properties (no level is taken back, no counter goes down) from the
   invariants of section 4.
