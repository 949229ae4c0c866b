-------------------------------- MODULE Isys --------------------------------
(***************************************************************************)
(* The isystem() library (isys/isys.c): each process has one shell behind  *)
(* a PDIP object. A command is a line sent to the shell, its output is     *)
(* read until the prompt, then "echo $?" is sent and the status is read    *)
(* until the next prompt; every reception has a timeout. A process may     *)
(* fork, and its child may initialize the library on its own.              *)
(*                                                                         *)
(* The text of a shell is a sequence of tokens [k, of]:                    *)
(*   "line"   a line of text, "empty" an empty line, "part" the beginning  *)
(*   of a line, "status" the line written by "echo $?", "prompt" the       *)
(*   prompt, which no line feed follows. "of" is the command it comes from,*)
(*   which the library never looks at.                                     *)
(***************************************************************************)
EXTENDS Integers, Sequences, FiniteSets

CONSTANTS Father, Child,        \* the two processes
          NoShell,              \* null pointer
          NoCmd,                \* no command
          Programs,             \* [out, how, n]: what a program writes, a sequence
                                \* of kinds; its exit code or the signal that ends it
          MaxCalls,             \* bound on the calls of each process
          ForkCalls             \* the father forks after at most so many calls

Procs == {Father, Child}
Shells == Procs                 \* a shell is named after who started it

ASSUME IsysAssumption ==
    /\ Father # Child
    /\ NoShell \notin Procs
    /\ MaxCalls \in [Procs -> Nat] /\ ForkCalls \in Nat
    /\ Programs \subseteq [out : Seq({"line", "empty", "part"}), how : {"exit", "signal"}, n : 0..127]
    /\ \A g \in Programs : g.how = "signal" => g.n # 0

VARIABLES
    pc,             \* where a process is in the library
    isys_pdip,      \* the PDIP object of the process: its shell or NoShell
    ctx,            \* the objects that exist in the memory of the process
    atfork,         \* isys_child_fork() is registered
    outstanding,    \* outstanding data of an object
    cmd,            \* command of the call under way or of the last one
    status_display, \* what isys_recv_status() has gathered
    result,         \* what the last call returned
    up,             \* the shell runs
    echo,           \* its terminal echoes what it is sent
    stdin, pty,     \* what it has to read, what it wrote that is not read
    todo,           \* what it has still to write for the current line
    last,           \* its last command, of which $? is the status
    printed,        \* history: what the call displayed
    calls,          \* history: number of calls of a process
    clean           \* history: no reception of the process has failed

lib == << pc, isys_pdip, ctx, atfork, cmd, status_display, result >>
sh == << up, echo, stdin, pty, todo, last >>
hist == << printed, calls, clean >>
vars == << lib, outstanding, sh, hist >>

Token(k, c) == [k |-> k, of |-> c]
Prompt == Token("prompt", NoCmd)

\* What the command c writes.
Output(c) == [i \in 1..Len(c.prog.out) |-> Token(c.prog.out[i], c)]

\* The library's constructor has started the shell of the father, whose first
\* output is its prompt, and waits for it.
Init ==
    /\ pc = [p \in Procs |-> IF p = Father THEN "init" ELSE "none"]
    /\ isys_pdip = [p \in Procs |-> IF p = Father THEN p ELSE NoShell]
    /\ ctx = [p \in Procs |-> IF p = Father THEN {p} ELSE {}]
    /\ atfork = [p \in Procs |-> FALSE]
    /\ outstanding = [s \in Shells |-> << >>]
    /\ cmd = [p \in Procs |-> NoCmd]
    /\ status_display = [p \in Procs |-> << >>]
    /\ result = [p \in Procs |-> 0]
    /\ up = [s \in Shells |-> s = Father]
    /\ echo = [s \in Shells |-> TRUE]
    /\ stdin = [s \in Shells |-> << >>]
    /\ pty = [s \in Shells |-> << >>]
    /\ todo = [s \in Shells |-> << Prompt >>]
    /\ last = [s \in Shells |-> NoCmd]
    /\ printed = [p \in Procs |-> << >>]
    /\ calls = [p \in Procs |-> 0]
    /\ clean = [p \in Procs |-> TRUE]

-----------------------------------------------------------------------------
(* The shell (external).                                                   *)

\* It reads a line: a command, "echo $?" or "stty -echo".
ShellReads(s) ==
    /\ up[s] /\ todo[s] = << >> /\ stdin[s] # << >>
    /\ LET line == Head(stdin[s])
           c == line.c
       IN \/ /\ line.k = "cmd"
             /\ todo' = [todo EXCEPT ![s] = Output(c) \o << Prompt >>]
             /\ last' = [last EXCEPT ![s] = c]
             /\ UNCHANGED echo
          \/ /\ line.k = "echo"
             /\ todo' = [todo EXCEPT ![s] = << Token("status", last[s]), Prompt >>]
             /\ UNCHANGED << last, echo >>
          \/ /\ line.k = "stty"
             /\ todo' = [todo EXCEPT ![s] = << Prompt >>]
             /\ echo' = [echo EXCEPT ![s] = FALSE]
             /\ UNCHANGED last
    /\ stdin' = [stdin EXCEPT ![s] = Tail(@)]
    /\ UNCHANGED << lib, outstanding, up, pty, hist >>

ShellWrites(s) ==
    /\ up[s] /\ todo[s] # << >>
    /\ pty' = [pty EXCEPT ![s] = Append(@, Head(todo[s]))]
    /\ todo' = [todo EXCEPT ![s] = Tail(@)]
    /\ UNCHANGED << lib, outstanding, up, echo, stdin, last, hist >>

\* The shell ends, by the command "exit" or by a signal.
ShellDies(s) ==
    /\ up[s]
    /\ up' = [up EXCEPT ![s] = FALSE]
    /\ UNCHANGED << lib, outstanding, echo, stdin, pty, todo, last, hist >>

-----------------------------------------------------------------------------
(* PDIP.                                                                   *)

EndsLine(t) == t.k \in {"line", "empty", "status"}

\* "^prompt$" in d: at the beginning of a line or of the data, and followed by
\* a line feed or nothing.
Prompts(d) ==
    {i \in 1..Len(d) : /\ d[i].k = "prompt"
                       /\ i > 1 => EndsLine(d[i - 1])
                       /\ i < Len(d) => d[i + 1].k = "empty"}

LineEnds(d) == {i \in 1..Len(d) : EndsLine(d[i])}

FirstOf(S) == CHOOSE i \in S : \A j \in S : i <= j
LastOf(S) == CHOOSE i \in S : \A j \in S : j <= i

\* What pdip_recv() does of the data d with PDIP_FLAG_RECV_ON_THE_FLOW: the
\* text up to the first prompt (left out of "display"), or the complete lines,
\* or all the data if the timeout has just elapsed, or else it reads again.
Scan(d, elapsed) ==
    IF Prompts(d) # {}
    THEN [rc |-> "FOUND", display |-> SubSeq(d, 1, FirstOf(Prompts(d)) - 1),
          left |-> SubSeq(d, FirstOf(Prompts(d)) + 1, Len(d))]
    ELSE IF elapsed
    THEN [rc |-> "DATA", display |-> d, left |-> << >>]
    ELSE IF LineEnds(d) # {}
    THEN [rc |-> "DATA", display |-> SubSeq(d, 1, LastOf(LineEnds(d))),
          left |-> SubSeq(d, LastOf(LineEnds(d)) + 1, Len(d))]
    ELSE [rc |-> "AGAIN", display |-> << >>, left |-> d]

\* pdip_send(), when "text" waits in the terminal, which echoes the line when it
\* is asked to. No handler of SIGCHLD is installed: only write() may tell that
\* the shell is dead.
Send(s, text, line) ==
    /\ stdin' = [stdin EXCEPT ![s] = Append(@, line)]
    /\ pty' = [pty EXCEPT ![s] = IF echo[s] THEN Append(text, Token("line", NoCmd)) ELSE text]

\* Mutant: a reception starts again when its timeout elapses.
pdip_recvForever(s) ==
    LET o == outstanding[s]
    IN IF Prompts(o) # {} THEN {Scan(o, FALSE)}
       ELSE IF pty[s] = << >> THEN {[rc |-> "AGAIN", display |-> << >>, left |-> o]}
       ELSE {Scan(o \o pty[s], elapsed) : elapsed \in BOOLEAN}

\* What one read of pdip_recv() on shell s may answer, and what it leaves in the
\* object. The outstanding data are looked at first. The timeout elapses while
\* nothing comes, or exactly as data come. A read takes all that has come:
\* the shell writes token by token, which cuts the text everywhere.
pdip_recv(s) ==
    LET o == outstanding[s]
        Nothing(rc) == [rc |-> rc, display |-> << >>, left |-> o]
    IN IF Prompts(o) # {} THEN {Scan(o, FALSE)}
       ELSE IF pty[s] = << >> THEN {Nothing(IF up[s] THEN "TIMEOUT" ELSE "ERROR")}
       ELSE {Scan(o \o pty[s], elapsed) : elapsed \in BOOLEAN}

\* What is in the terminal after it.
Unread(s) == IF Prompts(outstanding[s]) # {} THEN pty[s] ELSE << >>

Received(s, r) == outstanding' = [outstanding EXCEPT ![s] = r.left]

At(p, l) == pc[p] = l

\* The program is not in the library. A father waits for the end of its child.
Calls(p) == At(p, "idle") /\ (p = Father => pc[Child] \in {"none", "gone", "undefined"})

Goto(p, l) == pc' = [pc EXCEPT ![p] = l]

\* The call or the initialization ends.
Return(p, rc) ==
    /\ Goto(p, "idle")
    /\ result' = [result EXCEPT ![p] = rc]

\* It ends without its prompt: what the shell has to say is still to come.
Fail(p) ==
    /\ Return(p, -1)
    /\ cmd' = [cmd EXCEPT ![p] = NoCmd]
    /\ printed' = [printed EXCEPT ![p] = << >>]
    /\ clean' = [clean EXCEPT ![p] = FALSE]

-----------------------------------------------------------------------------
(* Initialization, fork and end.                                           *)

\* isys_lib_initialize() in the child: a new object and a new shell.
isys_lib_initialize ==
    /\ At(Child, "idle") /\ Child \notin ctx[Child]
    /\ isys_pdip' = [isys_pdip EXCEPT ![Child] = Child]
    /\ ctx' = [ctx EXCEPT ![Child] = @ \cup {Child}]
    /\ up' = [up EXCEPT ![Child] = TRUE]
    /\ Goto(Child, "init")
    /\ UNCHANGED << atfork, cmd, status_display, result, outstanding,
                    echo, stdin, pty, todo, last, hist >>

\* Its two receptions of the prompt (isys_recv_data(0)), with "stty -echo"
\* between them. isys_pdip is set even if they fail.
InitRecv(p) ==
    /\ pc[p] \in {"init", "stty"}
    /\ \E r \in pdip_recv(isys_pdip[p]) :
           /\ Received(isys_pdip[p], r)
           /\ \/ /\ r.rc \in {"DATA", "AGAIN"}
                 /\ pty' = [pty EXCEPT ![isys_pdip[p]] = Unread(isys_pdip[p])]
                 /\ UNCHANGED << pc, result, atfork, stdin, cmd, printed, clean >>
              \/ /\ r.rc = "FOUND" /\ At(p, "init")
                 /\ Goto(p, "stty")
                 /\ Send(isys_pdip[p], Unread(isys_pdip[p]), [k |-> "stty", c |-> NoCmd])
                 /\ UNCHANGED << result, atfork, cmd, printed, clean >>
              \/ /\ r.rc = "FOUND" /\ At(p, "stty")
                 /\ Return(p, 0)
                 /\ atfork' = [atfork EXCEPT ![p] = TRUE]
                 /\ pty' = [pty EXCEPT ![isys_pdip[p]] = Unread(isys_pdip[p])]
                 /\ UNCHANGED << stdin, cmd, printed, clean >>
              \/ /\ \/ r.rc \in {"TIMEOUT", "ERROR"}
                    \/ r.rc = "FOUND" /\ At(p, "init") /\ ~up[isys_pdip[p]]
                 /\ Fail(p)
                 /\ pty' = [pty EXCEPT ![isys_pdip[p]] = Unread(isys_pdip[p])]
                 /\ UNCHANGED << atfork, stdin >>
    /\ UNCHANGED << isys_pdip, ctx, status_display, up, echo, todo, last, calls >>

\* Mutant: the child keeps the handle of its father.
isys_child_forkKeeps ==
    /\ At(Father, "idle") /\ At(Child, "none") /\ calls[Father] <= ForkCalls
    /\ Goto(Child, "idle")
    /\ isys_pdip' = [isys_pdip EXCEPT ![Child] = isys_pdip[Father]]
    /\ atfork' = [atfork EXCEPT ![Child] = atfork[Father]]
    /\ UNCHANGED << ctx, cmd, status_display, result, outstanding, sh, hist >>

\* fork(): pdip_child_fork() has freed the objects in the child, and
\* isys_child_fork(), if it was registered, forgets the one of the library.
isys_child_fork ==
    /\ At(Father, "idle") /\ At(Child, "none") /\ calls[Father] <= ForkCalls
    /\ Goto(Child, "idle")
    /\ isys_pdip' = [isys_pdip EXCEPT ![Child] =
                         IF atfork[Father] THEN NoShell ELSE isys_pdip[Father]]
    /\ atfork' = [atfork EXCEPT ![Child] = atfork[Father]]
    /\ UNCHANGED << ctx, cmd, status_display, result, outstanding, sh, hist >>

\* The end of a process: pdip_delete() ends its shell, and its memory and the
\* terminal disappear. An object that is not in its list is refused.
isys_lib_exit(p) ==
    /\ Calls(p)
    /\ LET s == isys_pdip[p]
       IN \/ /\ s \in ctx[p]
             /\ Goto(p, "gone")
             /\ up' = [up EXCEPT ![s] = FALSE]
             /\ outstanding' = [outstanding EXCEPT ![s] = << >>]
             /\ stdin' = [stdin EXCEPT ![s] = << >>]
             /\ pty' = [pty EXCEPT ![s] = << >>]
             /\ todo' = [todo EXCEPT ![s] = << >>]
             /\ last' = [last EXCEPT ![s] = NoCmd]
          \/ /\ s \notin ctx[p]
             /\ Goto(p, "gone")
             /\ UNCHANGED << up, outstanding, stdin, pty, todo, last >>
    /\ isys_pdip' = [isys_pdip EXCEPT ![p] = NoShell]
    /\ ctx' = [ctx EXCEPT ![p] = {}]
    /\ cmd' = [cmd EXCEPT ![p] = NoCmd]
    /\ status_display' = [status_display EXCEPT ![p] = << >>]
    /\ result' = [result EXCEPT ![p] = 0]
    /\ printed' = [printed EXCEPT ![p] = << >>]
    /\ calls' = [calls EXCEPT ![p] = 0]
    /\ UNCHANGED << atfork, echo, clean >>

-----------------------------------------------------------------------------
(* isystem().                                                              *)

\* No shell, or an empty command: nothing is run.
isystem_nothing(p) ==
    /\ Calls(p) /\ calls[p] < MaxCalls[p]
    /\ calls' = [calls EXCEPT ![p] = @ + 1]
    /\ cmd' = [cmd EXCEPT ![p] = NoCmd]
    /\ result' = [result EXCEPT ![p] = IF isys_pdip[p] = NoShell THEN -1 ELSE 0]
    /\ UNCHANGED << pc, isys_pdip, ctx, atfork, status_display, outstanding, sh, printed, clean >>

\* The command is sent, or cannot be.
isystem(p) ==
    /\ Calls(p) /\ calls[p] < MaxCalls[p] /\ isys_pdip[p] # NoShell
    /\ calls' = [calls EXCEPT ![p] = @ + 1]
    /\ \/ /\ isys_pdip[p] \in ctx[p]
          /\ \E c \in [by : {p}, n : {calls'[p]}, prog : Programs] :
                 /\ cmd' = [cmd EXCEPT ![p] = IF clean[p] THEN c ELSE NoCmd]
                 /\ Send(isys_pdip[p], pty[isys_pdip[p]], [k |-> "cmd", c |-> c])
          /\ printed' = [printed EXCEPT ![p] = << >>]
          /\ Goto(p, "data")
          /\ UNCHANGED << result, clean >>
       \/ /\ isys_pdip[p] \in ctx[p] /\ ~up[isys_pdip[p]]
          /\ Fail(p)
          /\ UNCHANGED << stdin, pty >>
       \/ /\ isys_pdip[p] \notin ctx[p]
          /\ Goto(p, "undefined")
          /\ UNCHANGED << cmd, result, printed, clean, stdin, pty >>
    /\ UNCHANGED << isys_pdip, ctx, atfork, status_display, outstanding, up, echo, todo, last >>

\* Mutant: the line feed before the prompt is patched, as isys_recv_status() does.
DisplayedWithoutLF(d) == IF d = << >> THEN d ELSE [d EXCEPT ![Len(d)].k = "part"]

\* What is displayed of the text found before the prompt: isys_recv_data()
\* looks for more than one byte before it.
Displayed(d) == IF Len(d) = 1 /\ d[1].k = "empty" THEN << >> ELSE d

\* The history is that of a process none of whose receptions has failed.
Displays(p, text) == printed' = [printed EXCEPT ![p] = IF clean[p] THEN @ \o text ELSE @]

\* isys_recv_data(1): the output is displayed as it comes; the prompt makes the
\* library ask for the status.
isys_recv_data(p) ==
    /\ At(p, "data")
    /\ \E r \in pdip_recv(isys_pdip[p]) :
           /\ Received(isys_pdip[p], r)
           /\ \/ /\ r.rc \in {"DATA", "AGAIN"}
                 /\ Displays(p, r.display)
                 /\ pty' = [pty EXCEPT ![isys_pdip[p]] = Unread(isys_pdip[p])]
                 /\ UNCHANGED << pc, result, cmd, status_display, stdin, clean >>
              \/ /\ r.rc = "FOUND"
                 /\ Displays(p, Displayed(r.display))
                 /\ Send(isys_pdip[p], Unread(isys_pdip[p]), [k |-> "echo", c |-> NoCmd])
                 /\ status_display' = [status_display EXCEPT ![p] = << >>]
                 /\ Goto(p, "status")
                 /\ UNCHANGED << result, cmd, clean >>
              \/ /\ \/ r.rc \in {"TIMEOUT", "ERROR"}
                    \/ r.rc = "FOUND" /\ ~up[isys_pdip[p]]
                 /\ Fail(p)
                 /\ pty' = [pty EXCEPT ![isys_pdip[p]] = Unread(isys_pdip[p])]
                 /\ UNCHANGED << status_display, stdin >>
    /\ UNCHANGED << isys_pdip, ctx, atfork, up, echo, todo, last, calls >>

\* $? of a command.
ShellStatus(c) ==
    IF c = NoCmd THEN 0 ELSE IF c.prog.how = "exit" THEN c.prog.n ELSE 128 + c.prog.n

\* Mutant: the exit code is not shifted.
WaitStatusKept(v) == v

\* $? made a wait status.
WaitStatus(v) == IF (v \div 128) % 2 = 1 THEN v ELSE v * 256

\* The integers atoi() may make of the text gathered for the status: that of
\* its first line that is not empty. Another text may be any number.
Statuses(d) ==
    LET texts == {i \in 1..Len(d) : d[i].k # "empty"}
    IN IF texts # {} /\ d[FirstOf(texts)].k = "status"
       THEN {WaitStatus(ShellStatus(d[FirstOf(texts)].of))}
       ELSE {0, 256}

\* isys_recv_status(). A prompt without any text before it, or after a text that
\* does not end a line, is an error; so is a text too long for a status.
isys_recv_status(p) ==
    /\ At(p, "status")
    /\ \E r \in pdip_recv(isys_pdip[p]) :
           /\ Received(isys_pdip[p], r)
           /\ \/ /\ r.rc \in {"DATA", "AGAIN"}
                 /\ status_display' = [status_display EXCEPT ![p] = @ \o r.display]
                 /\ UNCHANGED << pc, result, cmd, printed, clean >>
              \/ /\ r.rc = "FOUND"
                 /\ UNCHANGED status_display
                 /\ LET d == status_display[p] \o Displayed(r.display)
                    IN \/ /\ d # << >> /\ EndsLine(d[Len(d)])
                          /\ \E rc \in Statuses(d) : Return(p, rc)
                          /\ UNCHANGED << cmd, printed, clean >>
                       \/ /\ d # << >> /\ EndsLine(d[Len(d)]) => Len(d) > 1 \/ d[1].k # "status"
                          /\ Fail(p)
              \/ /\ r.rc \in {"TIMEOUT", "ERROR"}
                 /\ Fail(p)
                 /\ UNCHANGED status_display
           /\ pty' = [pty EXCEPT ![isys_pdip[p]] = Unread(isys_pdip[p])]
    /\ UNCHANGED << isys_pdip, ctx, atfork, up, echo, stdin, todo, last, calls >>

-----------------------------------------------------------------------------
ShellSteps(s) == ShellReads(s) \/ ShellWrites(s)
LibSteps(p) == InitRecv(p) \/ isys_recv_data(p) \/ isys_recv_status(p)

Next ==
    \/ \E s \in Shells : ShellReads(s) \/ ShellWrites(s) \/ ShellDies(s)
    \/ \E p \in Procs :
           \/ InitRecv(p)
           \/ isystem_nothing(p)
           \/ isystem(p)
           \/ isys_recv_data(p)
           \/ isys_recv_status(p)
           \/ isys_lib_exit(p)
    \/ isys_lib_initialize
    \/ isys_child_fork

Spec == Init /\ [][Next]_vars

\* A process in the library runs, and the timeout elapses. Nothing is assumed
\* of the shell.
FairSpec == Spec /\ \A p \in Procs : WF_vars(LibSteps(p))

-----------------------------------------------------------------------------
Waiting == {"init", "stty", "data", "status"}

TypeOK ==
    /\ pc \in [Procs -> Waiting \cup {"none", "idle", "gone", "undefined"}]
    /\ isys_pdip \in [Procs -> Shells \cup {NoShell}]
    /\ ctx \in [Procs -> SUBSET Shells]
    /\ atfork \in [Procs -> BOOLEAN] /\ clean \in [Procs -> BOOLEAN]
    /\ up \in [Shells -> BOOLEAN] /\ echo \in [Shells -> BOOLEAN]
    /\ result \in [Procs -> -1..255 \cup {256 * n : n \in 0..127}]
    /\ calls \in [Procs -> Nat]

\* The call that has just returned has run a command, and none of the receptions
\* of the process has failed so far.
Answered(p) == pc[p] = "idle" /\ clean[p] /\ cmd[p] # NoCmd

\* What the macros of waitpid(2) make of a status.
Decoded(st) ==
    IF st % 128 = 0 THEN << "exit", (st \div 256) % 256 >> ELSE << "signal", st % 128 >>

\* The status that isystem() returns is that of its command, although it is
\* asked by a second exchange with a shell that knows nothing of calls, and
\* although reads cut the text anywhere.
OwnStatus == \A p \in Procs :
    Answered(p) => Decoded(result[p]) = << cmd[p].prog.how, cmd[p].prog.n >>

\* What isystem() displays is what its command wrote: not the echo of the line,
\* not the prompt, nothing of another command, and nothing missing, except an
\* empty line just before the prompt, which isys_recv_data() drops when it
\* receives it alone with the prompt.
OwnOutput ==
    \A p \in Procs : Answered(p) =>
        \/ printed[p] = Output(cmd[p])
        \/ Append(printed[p], Token("empty", cmd[p])) = Output(cmd[p])

\* A process only talks to the shell it has started, and uses no object that
\* fork() has freed, unless it was forked after a failed initialization: the
\* handler of fork() is only registered at the end of isys_lib_initialize().
OwnShell ==
    \A p \in Procs :
        /\ pc[p] \in Waiting => isys_pdip[p] = p /\ p \in ctx[p]
        /\ pc[p] = "undefined" => ~atfork[Father]

\* Types, and shells that are not shared.
IsysInv == TypeOK /\ OwnShell

\* isystem() and isys_lib_initialize() return, whatever the shell does.
CallReturns == \A p \in Procs : (pc[p] \in Waiting) ~> (pc[p] \notin Waiting)
=============================================================================
