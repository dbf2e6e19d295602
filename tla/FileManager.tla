---------------------------- MODULE FileManager ----------------------------
(***************************************************************************)
(* The file manager: two panels of which one reads the keys, a text editor *)
(* for the chosen file, copying with a progress window in a thread of its  *)
(* own, and the start of executable files.                                 *)
(*                                                                         *)
(* A panel keeps the list of its directory as scandir() read it, and a     *)
(* pointer into it; files come and go behind its back.  When a started     *)
(* file cannot be executed, the child process goes on as a second manager  *)
(* on the same terminal, while its parent waits for it to end.             *)
(*                                                                         *)
(* Files are sequences of characters, of which only the new line NL, the   *)
(* null character NUL and '%' matter: the editor hands the text of a file  *)
(* to printw() as the format.                                              *)
(***************************************************************************)
EXTENDS Integers, Sequences, FiniteSets, SequencesExt

CONSTANTS
  Dir, Root, UpOf,  \* the directories and their parents
  Unreadable,       \* the ones scandir() fails for
  File, InDir,      \* the paths of regular files and their directories
  Executable,       \* the files with the x bit
  Dot, DotDot,      \* "." and ".."
  Order,            \* all entries in the order of alphasort()
  Start,            \* the working directory
  Content,          \* the files at the start, [File -> text or Absent]
  Char,             \* the characters of texts
  Typed,            \* the texts a user may type into the editor
  Absent,           \* no such file
  NoPath,           \* a path where no file is nor can be made
  NULL,
  NL, NUL, PCT,     \* PCT is '%'
  Listing,          \* what a panel leaves in its window
  Garbled,          \* what undefined formats may leave there
  BLOCK_SIZE, MAX_SIZE_OF_TEXT,
  WIDTH,            \* the columns of the editor
  MAX_CHANGES,      \* bound: copies, saves and changes from outside, and
                    \* managers waiting at the time
  MAX_NESTED,       \* bound: managers waiting for a child
  MAX_ERRORS        \* bound: failed reads counted

ASSUME FileManagerAssumption ==
  /\ Root \in Dir /\ UpOf \in [Dir -> Dir] /\ Start \in Dir
  /\ Unreadable \subseteq Dir /\ Start \notin Unreadable
  /\ InDir \in [File -> Dir] /\ Executable \subseteq File
  /\ Order \in Seq(Dir \cup File \cup {Dot, DotDot}) /\ Dot \in ToSet(Order)
  /\ {NL, NUL, PCT, Listing} \subseteq Char /\ NUL \notin {PCT, Listing}
  /\ Content \in [File -> Seq(Char) \cup {Absent}]
  /\ \A f \in Executable : Content[f] # Absent
  /\ Typed \subseteq Seq(Char) /\ Garbled \subseteq Seq(Char)
  /\ \A t \in Typed \cup Garbled : NUL \notin ToSet(t)  \* in no window
  /\ Garbled # {} /\ NoPath \notin File
  /\ BLOCK_SIZE \in Nat \ {0} /\ MAX_SIZE_OF_TEXT \in Nat \ {0}
  /\ WIDTH \in Nat /\ WIDTH < MAX_SIZE_OF_TEXT  \* 65536
  /\ MAX_CHANGES \in Nat /\ MAX_NESTED \in Nat /\ MAX_ERRORS \in Nat

VARIABLES
  panel,      \* the two panels: [dir_path, file_list, file_list_ptr]
  active,     \* the one whose fm_exec() runs
  select_pos, \* its local variable
  pc,         \* where the process that has the terminal is
  suspended,  \* the managers that wait for it, outermost first
  file,       \* [File -> its text or Absent]
  copy,       \* copy_file_with_status()
  progress,   \* its thread: "none", "check", "draw", "ended"
  window,     \* the text in the editor
  saved,      \* history: the text written to a file last, and its path, until
              \* somebody else changes the file
  changes     \* how often files were changed

manager == <<panel, active, select_pos>>
editor  == <<window, saved>>
vars    == <<manager, pc, suspended, file, copy, progress, editor, changes>>

NoCopy == [orig |-> NULL, dest |-> NULL, rd |-> FALSE, size |-> 0,
           read_bytes |-> 0, offset |-> 0, block |-> <<>>,
           lost |-> 0,          \* history: the characters write() did not take
           spoiled |-> FALSE]   \* history: somebody changed the file

NoSave == [path |-> NoPath, text |-> <<>>]

\* The bound on what happens.
Bounded == changes + Len(suspended) < MAX_CHANGES

----------------------------------------------------------------------------
(* Panels.                                                                 *)

Exists(f) == file[f] # Absent

Listed(d, e) ==
  \/ e \in {Dot, DotDot}
  \/ e \in Dir \ {Root} /\ UpOf[e] = d
  \/ e \in File /\ InDir[e] = d /\ Exists(e)

\* The places in Order of the entries of a directory.
Entries(d) == {i \in DOMAIN Order : Listed(d, Order[i])}

\* What a sequence has at some places: the n-th of them is the one up to
\* which there are n.
Pick(seq, places) ==
  [n \in 1..Cardinality(places) |->
     seq[CHOOSE i \in places : Cardinality(places \cap 1..i) = n]]

\* scandir(), or NULL where it fails.
Scan(d) == IF d \in Unreadable THEN NULL ELSE Pick(Order, Entries(d))

\* Mutant: the pointer stays where it was in the list before.
OpenDirAtPointer(p, d) == [p EXCEPT !.dir_path = d, !.file_list = Scan(d)]

\* open_dir(): the pointer goes back to the first entry, if there is one.
OpenDir(p, d) ==
  LET list == Scan(d)
  IN  [dir_path |-> d, file_list |-> list,
       file_list_ptr |-> IF list = NULL THEN p.file_list_ptr ELSE 0]

FileCount(p) == IF p.file_list = NULL THEN -1 ELSE Len(p.file_list)

Init ==
  /\ file = Content
  /\ panel = [m \in 1..2 |->
                OpenDir([dir_path |-> Root, file_list |-> NULL,
                         file_list_ptr |-> 0], Start)]
  /\ active = 1
  /\ select_pos = 0
  /\ pc = "enter"
  /\ suspended = <<>>
  /\ copy = NoCopy /\ progress = "none"
  /\ window = <<>> /\ saved = NoSave
  /\ changes = 0

Panel == panel[active]
Chosen == Panel.file_list[Panel.file_list_ptr + 1]

\* The start of fm_exec(): the old pointer, and the directory read again.
Enter ==
  /\ pc = "enter"
  /\ select_pos' = Panel.file_list_ptr
  /\ panel' = [panel EXCEPT ![active] = OpenDir(@, @.dir_path)]
  /\ pc' = "key"
  /\ UNCHANGED <<active, suspended, file, copy, progress, editor, changes>>

\* Mutant: set_file_ptr() looks at the end of the list only.
MovePastStart ==
  /\ pc = "key"
  /\ \E pos \in {select_pos - 1, select_pos + 1} :
       /\ pos < FileCount(Panel)
       /\ select_pos' = pos
       /\ panel' = [panel EXCEPT ![active].file_list_ptr = pos]
  /\ UNCHANGED <<active, pc, suspended, file, copy, progress, editor, changes>>

\* KEY_UP, KEY_DOWN: set_file_ptr() refuses a position outside the list.
Move ==
  /\ pc = "key"
  /\ \E pos \in {select_pos - 1, select_pos + 1} :
       /\ pos \in 0..(FileCount(Panel) - 1)
       /\ select_pos' = pos
       /\ panel' = [panel EXCEPT ![active].file_list_ptr = pos]
  /\ UNCHANGED <<active, pc, suspended, file, copy, progress, editor, changes>>

\* '\t'
Switch ==
  /\ pc = "key"
  /\ active' = 3 - active
  /\ pc' = "enter"
  /\ UNCHANGED <<panel, select_pos, suspended, file, copy, progress, editor,
                 changes>>

\* The process ends, in order or not; a manager that waits for it goes on.
ProcessEnds(how) ==
  /\ IF suspended = <<>>
     THEN /\ pc' = how
          /\ UNCHANGED <<manager, suspended>>
     ELSE /\ pc' = "key"
          /\ panel' = Last(suspended).panel
          /\ active' = Last(suspended).active
          /\ select_pos' = Last(suspended).select_pos
          /\ suspended' = Front(suspended)
  /\ UNCHANGED <<file, copy, progress, editor, changes>>

\* Esc, and main() after it: freeing a list that scandir() has not made
\* reads before the beginning of NULL.
Close ==
  /\ pc = "key"
  /\ ProcessEnds(IF \E m \in 1..2 : panel[m].file_list = NULL
                 THEN "crashed" ELSE "closed")

\* get_chosen_file_path() without a list.
ChooseNothing ==
  /\ pc = "key" /\ Panel.file_list = NULL
  /\ ProcessEnds("crashed")

TargetDir == IF Chosen = Dot THEN Panel.dir_path
             ELSE IF Chosen = DotDot THEN UpOf[Panel.dir_path] ELSE Chosen

\* Enter on a directory.
OpenChosenDir ==
  /\ pc = "key" /\ Panel.file_list # NULL
  /\ Chosen \in Dir \cup {Dot, DotDot}
  /\ panel' = [panel EXCEPT ![active] = OpenDir(@, TargetDir)]
  /\ select_pos' = 0
  /\ UNCHANGED <<active, pc, suspended, file, copy, progress, editor, changes>>

\* Enter on an executable file: the program runs and ends, and the manager
\* is as before; or execl() fails and the child returns into fm_exec().
RunChosen ==
  /\ pc = "key" /\ Panel.file_list # NULL
  /\ Chosen \in Executable
  /\ Len(suspended) < MAX_NESTED /\ Bounded
  /\ suspended' = Append(suspended, [panel |-> panel, active |-> active,
                                     select_pos |-> select_pos])
  /\ UNCHANGED <<manager, pc, file, copy, progress, editor, changes>>

----------------------------------------------------------------------------
(* The editor.                                                             *)

\* A text up to the first c, or to its end.
UpTo(text, c) ==
  SubSeq(text, 1, Cardinality({i \in DOMAIN text :
                                 c \notin {text[j] : j \in 1..i}}))

Beginning(text, n) == SubSeq(text, 1, IF Len(text) < n THEN Len(text) ELSE n)

\* read() into out_buffer, zeros before it, and the string that is there then.
\* It has an end if it does not fill the buffer.
AsString(text) == UpTo(Beginning(text, MAX_SIZE_OF_TEXT), NUL)

\* How many '%' in a row end at place i.
RunTo(string, i) ==
  Cardinality({j \in 1..i : \A n \in j..i : string[n] = PCT})

\* As a format the string means something: it has an end, and no conversion
\* but "%%", since there are no arguments.
IsFormat(string) ==
  /\ Len(string) < MAX_SIZE_OF_TEXT
  /\ \A i \in DOMAIN string :
       RunTo(string, i) % 2 = 1 => i < Len(string) /\ string[i + 1] = PCT

\* Of "%%" one is printed.
Printed(string) ==
  Pick(string, {i \in DOMAIN string :
                  string[i] = PCT => RunTo(string, i) % 2 = 1})

\* wprintw(editor_win, out_buffer).  When that is undefined it prints what it
\* finds behind the string or where arguments would be, or the process is
\* killed.
wprintw(string) ==
  IF IsFormat(string) THEN window' = Printed(string) /\ pc' = "editor"
  ELSE window' \in Garbled /\ pc' \in {"editor", "segfault"}

SegFault == pc = "segfault" /\ ProcessEnds("crashed")

\* Enter on any other file.  One that cannot be opened, or has gone, is not
\* shown, and the window, which is a part of the panel's, is not cleared.
Edit ==
  /\ pc = "key" /\ Panel.file_list # NULL
  /\ Chosen \in File \ Executable
  /\ \/ Exists(Chosen) /\ wprintw(AsString(file[Chosen]))
     \/ window' = <<Listing>> /\ pc' = "editor"
  /\ UNCHANGED <<manager, suspended, file, copy, progress, saved, changes>>

Write ==
  /\ pc = "editor"
  /\ \E t \in Typed : window' = t
  /\ UNCHANGED <<manager, pc, suspended, file, copy, progress, saved, changes>>

\* F5; the window is cleared even when the file cannot be found.
Load ==
  /\ pc = "editor"
  /\ \/ \E f \in File : Exists(f) /\ wprintw(AsString(file[f]))
     \/ window' = <<>> /\ UNCHANGED pc
  /\ UNCHANGED <<manager, suspended, file, copy, progress, saved, changes>>

\* winstr() reads the first row of the window only; the blanks it adds are
\* left out.
FirstLine == Beginning(UpTo(window, NL), WIDTH)

Padded(text) == text \o [i \in 1..(MAX_SIZE_OF_TEXT - Len(text)) |-> NUL]

\* Mutant: an existing file is written strlen() characters too.
JustTheString(f) == FirstLine

\* What is written: to a new file the line, to one that exists all of the
\* buffer.
ToWrite(f) == IF Exists(f) THEN Padded(FirstLine) ELSE FirstLine

\* The file is not truncated.
Overwrite(old, text) == text \o SubSeq(old, Len(text) + 1, Len(old))

\* F9: an existing file is overwritten after a question, a new one is made.
\* write() may take less, unnoticed.  The line is printed as a format in any
\* case.
Save ==
  /\ pc = "editor" /\ Bounded
  /\ changes' = changes + 1
  /\ wprintw(FirstLine)
  /\ \/ \E f \in File : \E n \in 0..Len(ToWrite(f)) :
          /\ file' = [file EXCEPT ![f] =
                        Overwrite(IF @ = Absent THEN <<>> ELSE @,
                                  SubSeq(ToWrite(f), 1, n))]
          /\ saved' = IF n = Len(ToWrite(f))
                      THEN [path |-> f, text |-> FirstLine]
                      ELSE IF saved.path = f THEN NoSave ELSE saved
     \/ UNCHANGED <<file, saved>>
  /\ UNCHANGED <<manager, suspended, copy, progress>>

\* F3
Leave ==
  /\ pc = "editor"
  /\ pc' = "key"
  /\ window' = <<>>
  /\ UNCHANGED <<manager, suspended, file, copy, progress, saved, changes>>

----------------------------------------------------------------------------
(* copy_file_with_status() and load_thread_func().                         *)

Copying == pc \in {"read", "write", "join"}

\* Mutant: open() without O_TRUNC.
NotTruncated(old) == IF old = Absent THEN <<>> ELSE old

\* What creat() leaves of a file.
Created(old) == <<>>

\* 'c': open(), creat(), stat(), and the thread is started.  Only a file that
\* is there can be opened to read and write it, and only if it is permitted;
\* the size of a directory, or of what is not there, is any number.
CopyChosen ==
  /\ pc = "key" /\ Panel.file_list # NULL
  /\ Bounded
  /\ changes' = changes + 1
  /\ \E dest \in File \cup {NoPath}, n \in 0..1, rd \in BOOLEAN :
       LET there == Chosen \in File /\ file'[Chosen] # Absent
       IN  /\ rd => Chosen \in File /\ Exists(Chosen)
           /\ file' = IF dest = NoPath THEN file
                      ELSE [file EXCEPT ![dest] = Created(@)]
           /\ saved' = IF dest = saved.path THEN NoSave ELSE saved
           /\ copy' = [NoCopy EXCEPT
                        !.orig = Chosen, !.dest = dest, !.rd = rd,
                        !.size = IF there THEN Len(file'[Chosen]) ELSE n]
  /\ progress' = "check"
  /\ pc' = "read"
  /\ UNCHANGED <<manager, suspended, window>>

NextBlock ==
  Beginning(SubSeq(file[copy.orig], copy.offset + 1, Len(file[copy.orig])),
            BLOCK_SIZE)

\* read(): a block, the end of the file, or -1, and then for ever, which is
\* counted as read, and write() refuses it.
Read ==
  /\ pc = "read"
  /\ \/ /\ copy.rd /\ NextBlock # <<>>
        /\ copy' = [copy EXCEPT !.read_bytes = @ + Len(NextBlock),
                                !.offset = @ + Len(NextBlock),
                                !.block = NextBlock]
        /\ pc' = "write"
     \/ /\ copy.rd /\ NextBlock = <<>>
        /\ pc' = "join"
        /\ UNCHANGED copy
     \/ /\ copy.read_bytes > -MAX_ERRORS
        /\ copy' = [copy EXCEPT !.read_bytes = @ - 1, !.rd = FALSE]
        /\ UNCHANGED pc
  /\ UNCHANGED <<manager, suspended, file, progress, editor, changes>>

\* write(), whose result is not looked at: there may be no descriptor, or no
\* room for all of the block.
WriteBlock ==
  /\ pc = "write"
  /\ \E n \in 0..Len(copy.block) :
       /\ copy.dest = NoPath => n = 0
       /\ file' = IF copy.dest = NoPath THEN file
                  ELSE [file EXCEPT ![copy.dest] =
                          @ \o SubSeq(copy.block, 1, n)]
       /\ copy' = [copy EXCEPT !.block = <<>>,
                               !.lost = @ + Len(copy.block) - n]
  /\ pc' = "read"
  /\ UNCHANGED <<manager, suspended, progress, editor, changes>>

\* Mutant: the progress bar is full when it is past its end.
CheckPastEnd ==
  /\ progress = "check"
  /\ progress' = IF copy.read_bytes <= copy.size THEN "draw" ELSE "ended"
  /\ UNCHANGED <<manager, pc, suspended, file, copy, editor, changes>>

Check ==
  /\ progress = "check"
  /\ progress' = IF copy.read_bytes < copy.size THEN "draw" ELSE "ended"
  /\ UNCHANGED <<manager, pc, suspended, file, copy, editor, changes>>

Draw ==
  /\ progress = "draw"
  /\ progress' = "check"
  /\ UNCHANGED <<manager, pc, suspended, file, copy, editor, changes>>

\* pthread_join(), close(), and the directory is read again.
Copied ==
  /\ pc = "join" /\ progress = "ended"
  /\ pc' = "key"
  /\ panel' = [panel EXCEPT ![active] = OpenDir(@, @.dir_path)]
  /\ progress' = "none"
  /\ copy' = NoCopy
  /\ UNCHANGED <<active, select_pos, suspended, file, editor, changes>>

\* Another program makes, replaces, truncates or removes a file.  The one that
\* is copied stays, but its text may change; the copy is left alone, and so
\* are the x bits, which a file made anew would not have.
Outside ==
  /\ Bounded
  /\ changes' = changes + 1
  /\ \E f \in File, t \in {<<>>, Absent} :
       /\ t # file[f]
       /\ t = Absent => f \notin Executable
       /\ Copying => f # copy.dest /\ (f = copy.orig => t # Absent)
       /\ file' = [file EXCEPT ![f] = t]
       /\ copy' = [copy EXCEPT !.spoiled = @ \/ (Copying /\ f = copy.orig)]
       /\ saved' = IF f = saved.path THEN NoSave ELSE saved
  /\ UNCHANGED <<manager, pc, suspended, progress, window>>

Next ==
  \/ Enter \/ Move \/ Switch \/ Close \/ ChooseNothing
  \/ OpenChosenDir \/ RunChosen
  \/ Edit \/ Write \/ Load \/ Save \/ Leave \/ SegFault
  \/ CopyChosen \/ Read \/ WriteBlock \/ Check \/ Draw \/ Copied
  \/ Outside

Spec == Init /\ [][Next]_vars

\* The two threads of a copy run on.
FairSpec == Spec /\ WF_vars(Read \/ WriteBlock \/ Copied)
                 /\ WF_vars(Check \/ Draw)

----------------------------------------------------------------------------

Texts == Seq(Char)

\* The ranges of the variables, fm_exec(), run_texteditor() and
\* copy_file_with_status().
TypeOK ==
  /\ \A m \in 1..2 :
       /\ panel[m].dir_path \in Dir
       /\ panel[m].file_list # NULL => panel[m].file_list \in Seq(ToSet(Order))
       /\ panel[m].file_list_ptr \in Nat
  /\ active \in 1..2 /\ select_pos \in Nat
  /\ pc \in {"enter", "key", "editor", "read", "write", "join", "closed",
             "crashed", "segfault"}
  /\ Len(suspended) <= MAX_NESTED
  /\ \A f \in File : file[f] # Absent => file[f] \in Texts
  /\ progress \in {"none", "check", "draw", "ended"}
  /\ window \in Texts

\* Wherever the user goes and whatever becomes of the files, the pointer of
\* both panels, and of every manager that waits, points into the list that is
\* shown: get_chosen_file_path() never reads an entry beyond file_list.
ChosenExists ==
  LET Inside(p) == p.file_list # NULL => p.file_list_ptr < Len(p.file_list)
  IN  \A m \in 1..2 :
        /\ Inside(panel[m])
        /\ \A s \in DOMAIN suspended : Inside(suspended[s].panel[m])

\* When copy_file_with_status() has read the end of a file nobody else has
\* changed, the copy lacks what write() did not take, of which the user is not
\* told, and nothing else: if write() took every block the copy is the file,
\* unless it was copied onto itself.
CopyIsWhole ==
  (/\ pc = "join" /\ copy.rd /\ ~copy.spoiled
   /\ copy.dest \notin {NoPath, copy.orig})
  => /\ Len(file[copy.dest]) = Len(file[copy.orig]) - copy.lost
     /\ copy.lost = 0 => file[copy.dest] = file[copy.orig]

\* A text without '%' that was written, over whatever was in the file, is what
\* the editor shows of the file when it is loaded again, as long as nobody
\* else changes it.  (Of one with '%' that is false: "%%" comes back as '%'.)
SavedTextLoads ==
  saved.path # NoPath /\ PCT \notin ToSet(saved.text) =>
    LET string == AsString(file[saved.path])
    IN  IsFormat(string) /\ Printed(string) = saved.text

\* A copy of a file that could be opened ends, progress window included, if
\* it can be read and nobody changes it meanwhile.
CopyEnds ==
  (Copying /\ copy.rd) ~> (~Copying \/ copy.spoiled \/ ~copy.rd)
=============================================================================
