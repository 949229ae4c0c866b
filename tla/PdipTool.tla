------------------------------ MODULE PdipTool ------------------------------
(***************************************************************************)
(* The pdip tool (pdip.c): it forks the controlled program behind a        *)
(* pseudo-terminal and plays a script of commands with it, or is a simple  *)
(* terminal in front of it. The program and the processes launched by the  *)
(* command "sh" end when they want: SIGCHLD may come between any two steps,*)
(* and no other process keeps the terminal open once the program is dead.  *)
(*                                                                         *)
(* A command of a script is a record [k, re]: k is the keyword, "sh -s"    *)
(* being a keyword of its own, "other" stands for those that only take     *)
(* time or print ("sleep", "print", "dbg", comments), "bad" for a line that*)
(* is refused. The parsing of the lines and the formatting of the strings  *)
(* are left out. NUL stands for any control character.                     *)
(***************************************************************************)
EXTENDS PdipRegex, FiniteSets

CONSTANTS Scripts,              \* the scripts played
          NoRegex,              \* no synchronization under way
          Modes,                \* "interact", "terminal" (option -t)
          BackRead,             \* values of the option -R
          Codes,                \* exit codes of the program
          MaxText               \* bound on the text the program writes

Keywords == {"recv", "timeout", "timeout 0", "send", "sig", "other", "exit", "sh", "sh -s", "bad"}

ASSUME ToolAssumption ==
    /\ \A s \in Scripts : /\ s \in Seq([k : Keywords, re : Regex \cup {NoRegex}])
                           /\ \A i \in 1..Len(s) : s[i].k = "recv" => s[i].re \in Regex
    /\ NoRegex \notin Regex
    /\ Modes \subseteq {"interact", "terminal"} /\ BackRead \subseteq BOOLEAN
    /\ Codes \subseteq 0..255 /\ MaxText \in Nat

VARIABLES
    pc,             \* where the tool is
    script, line,   \* the script, number of the lines read
    mode, backread, \* options
    synchro,        \* expression of the recv under way, or NoRegex
    fd_program,     \* the terminal is listened to
    to, timeout,    \* there is a timeout for recv; select() has it
    outstanding,    \* text received, not printed yet
    pty,            \* text in the terminal, not received yet
    rc, exit,       \* result of the interaction, exit code of the tool
    pidset,         \* pdip_pid has its value
    dead, exit_prog,\* pdip_dead_prog, pdip_exit_prog
    handler,        \* pdip_sig_chld() is installed
    pending,        \* SIGCHLD is pending
    child,          \* state of the processes "prog", "sh", "sh -s"
    code,           \* exit code of the program
    killed,         \* SIGKILL was sent to the program
    early,          \* history: the handler ran for the program before main() reset pdip_dead_prog
    printed,        \* history: text of the program printed by the tool
    mark            \* history: length of printed when the recv was read

conf == << script, mode, backread, code >>
talk == << line, synchro, fd_program, to, timeout, outstanding, pty, printed, mark >>
sigs == << handler, pending >>
procs == << child, killed, early >>
ends == << rc, exit >>
flags == << pidset, dead, exit_prog >>
vars == << pc, conf, talk, sigs, procs, ends, flags >>

Children == {"prog", "sh", "sh -s"}
Take(d, n) == SubSeq(d, 1, n)
Drop(d, n) == SubSeq(d, n + 1, Len(d))

\* What the program has written so far, as long as the terminal is open.
Text == printed \o outstanding \o pty

\* main() has installed the handler and called fork(), which has not returned.
Init ==
    /\ pc = "fork"
    /\ script \in Scripts /\ mode \in Modes /\ backread \in BackRead /\ code \in Codes
    /\ line = 0
    /\ synchro = NoRegex /\ fd_program = FALSE /\ to = FALSE /\ timeout = FALSE
    /\ outstanding = << >> /\ pty = << >> /\ printed = << >> /\ mark = 0
    /\ handler = TRUE /\ pending = FALSE
    /\ child = [c \in Children |-> IF c = "prog" THEN "running" ELSE "none"]
    /\ killed = FALSE /\ early = FALSE
    /\ rc = 0 /\ exit = -1
    /\ pidset = FALSE /\ dead = TRUE /\ exit_prog = 0

-----------------------------------------------------------------------------
(* The processes (external).                                               *)

Open == pc \in {"fork", "forked", "loop", "select", "dump", "sh -s", "end"}

\* The program has something to write in the terminal, which is open.
ProgramWrites ==
    /\ child["prog"] = "running" /\ Open /\ Len(Text) < MaxText
    /\ \E c \in Chars : pty' = Append(pty, c)
    /\ UNCHANGED << pc, conf, line, synchro, fd_program, to, timeout, outstanding, printed, mark,
                    sigs, procs, ends, flags >>

\* A process ends. By default SIGCHLD is discarded.
Ends(c) ==
    /\ child[c] = "running" /\ pc \notin {"exited", "aborted"}
    /\ child' = [child EXCEPT ![c] = "zombie"]
    /\ pending' = (pending \/ handler)
    /\ UNCHANGED << pc, conf, talk, handler, killed, early, ends, flags >>

\* SIGKILL cannot be ignored.
Killed == killed /\ Ends("prog")

-----------------------------------------------------------------------------
(* SIGCHLD.                                                                *)

Zombies == {c \in Children : child[c] = "zombie"}

\* There is nothing to wait for (ECHILD).
NoChild == \A c \in Children : child[c] \in {"none", "reaped"}

Reap(S) == child' = [c \in Children |-> IF c \in S THEN "reaped" ELSE child[c]]

\* select() is interrupted, unless the signal comes between the test of
\* pdip_dead_prog and the call: nothing masks it. waitpid() is restarted.
Interrupts == pc' = pc \/ (pc = "select" /\ pc' = "loop")

\* What the handler keeps of the status of the program.
ExitStatus == code

\* The handler is installed with SA_RESETHAND: it runs once. It waits for any
\* child, and only looks for a second one when the first is the program, which
\* it does not know before fork() has returned.
pdip_sig_chld ==
    /\ pending /\ pc \notin {"exited", "aborted"}
    /\ pending' = FALSE /\ handler' = FALSE
    /\ \/ /\ Zombies = {}
          /\ Interrupts
          /\ UNCHANGED << child, dead, exit_prog >>
       \/ \E c \in Zombies :
             /\ c # "prog" \/ ~pidset
             /\ Reap({c})
             /\ Interrupts
             /\ UNCHANGED << dead, exit_prog >>
       \/ /\ "prog" \in Zombies /\ pidset
          /\ exit_prog' = ExitStatus
          /\ dead' = TRUE
          /\ \/ /\ Zombies = {"prog"}
                /\ Reap({"prog"})
                /\ Interrupts
             \/ \E c \in Zombies \ {"prog"} : Reap({"prog", c}) /\ pc' = "aborted"
    /\ early' = (early \/ (pc \in {"fork", "forked"} /\ Zombies # {}))
    /\ UNCHANGED << conf, talk, killed, ends, pidset >>

-----------------------------------------------------------------------------
(* Start.                                                                  *)

\* fork() returns.
Forked ==
    /\ pc = "fork" /\ pc' = "forked"
    /\ pidset' = TRUE
    /\ UNCHANGED << conf, talk, sigs, procs, ends, dead, exit_prog >>

\* pdip_dead_prog is reset; the script is opened, or cannot be.
Started ==
    /\ pc = "forked"
    /\ dead' = FALSE
    /\ \/ pc' = "loop" /\ UNCHANGED << rc, exit >>
       \/ pc' = "exited" /\ rc' = -1 /\ exit' = 1
    /\ UNCHANGED << conf, talk, sigs, procs, pidset, exit_prog >>

-----------------------------------------------------------------------------
(* Synchronization.                                                        *)

NLs(d) == {i \in 1..Len(d) : d[i] = NL}
Least(S) == CHOOSE i \in S : \A j \in S : i <= j
Greatest(S) == CHOOSE i \in S : \A j \in S : j <= i

\* The line of d that begins after its first s characters, with its line feed
\* if it has come.
Line(d, s) ==
    LET next == {i \in NLs(d) : i > s}
    IN SubSeq(d, s + 1, IF next = {} THEN Len(d) ELSE Least(next))

\* Control characters are skipped for pattern matching only.
Kept(l) == {i \in 1..Len(l) : l[i] # NUL}
Printable(l) == SelectSeq(l, LAMBDA c : c # NUL)

\* Where the n first characters of Printable(l) end in l: they count, and so do
\* the characters skipped before them (line_skip).
Unskipped(l, n) ==
    Cardinality({i \in 1..Len(l) : Cardinality({j \in Kept(l) : j < i}) < n})

\* The lines of d where re is found, by what precedes them.
Found(re, d) ==
    {s \in {0} \cup (NLs(d) \ {Len(d)}) : d # << >> /\ IsMatch(re, Printable(Line(d, s)))}

\* What is printed of d once re is found: the lines before, and the line up to
\* the end of the match.
Stop(re, d) ==
    LET s == Least(Found(re, d))
        l == Line(d, s)
    IN s + Unskipped(l, rm_eo(re, Printable(l)))

\* Mutant: an incomplete line is printed too.
PrintsAll(re, d) ==
    IF Found(re, d) # {} THEN [found |-> TRUE, n |-> Stop(re, d)]
    ELSE [found |-> FALSE, n |-> Len(d)]

\* The answer of pdip_handle_synchro(), and how much of d it prints. The
\* expression is looked for line by line; if it is not found, the lines are
\* printed except the last one when it is not complete.
pdip_handle_synchro(re, d) ==
    IF Found(re, d) # {} THEN [found |-> TRUE, n |-> Stop(re, d)]
    ELSE [found |-> FALSE, n |-> IF NLs(d) = {} THEN 0 ELSE Greatest(NLs(d))]

\* It is called on the outstanding text d, for the expression re.
Synchronize(re, d) ==
    \E r \in {pdip_handle_synchro(re, d)} :
       /\ printed' = printed \o Take(d, r.n)
       /\ outstanding' = Drop(d, r.n)
       /\ synchro' = IF r.found THEN NoRegex ELSE re
       /\ fd_program' = (backread \/ ~r.found)
       /\ timeout' = (to /\ ~r.found)

-----------------------------------------------------------------------------
(* pdip_interact() and pdip_terminal().                                    *)

EndsWith(r) == pc' = "end" /\ rc' = r

\* Mutant: what is left in the terminal is not printed.
DeadNoFlush ==
    /\ pc = "loop" /\ dead
    /\ printed' = printed \o outstanding /\ outstanding' = << >>
    /\ EndsWith(0)
    /\ UNCHANGED << conf, line, synchro, fd_program, to, timeout, pty, mark,
                    sigs, procs, exit, flags >>

\* The beginning of the loop: if the program is dead, pdip_interact() prints
\* what it has left; pdip_terminal() does not.
Dead ==
    /\ pc = "loop" /\ dead
    /\ \/ /\ mode = "interact"
          /\ printed' = Text /\ outstanding' = << >> /\ pty' = << >>
       \/ /\ mode = "terminal"
          /\ UNCHANGED << printed, outstanding, pty >>
    /\ EndsWith(0)
    /\ UNCHANGED << conf, line, synchro, fd_program, to, timeout, mark,
                    sigs, procs, exit, flags >>

Select ==
    /\ pc = "loop" /\ ~dead
    /\ pc' = "select"
    /\ UNCHANGED << conf, talk, sigs, procs, ends, flags >>

Listens == mode = "terminal" \/ fd_program
Readable == pty # << >> \/ child["prog"] # "running"

\* Nothing came in time.
Timeout ==
    /\ pc = "select" /\ timeout /\ ~Readable
    /\ pc' = "dump"
    /\ UNCHANGED << conf, talk, sigs, procs, ends, flags >>

\* What has come since then is read, for a debug message only.
pdip_dump_outstanding_data ==
    /\ pc = "dump"
    /\ pty' = << >>
    /\ EndsWith(-2)
    /\ UNCHANGED << conf, line, synchro, fd_program, to, timeout, outstanding, printed, mark,
                    sigs, procs, exit, flags >>

\* Mutant: new data replace the outstanding ones.
DataReplaces ==
    /\ pc = "select" /\ mode = "interact" /\ fd_program /\ pty # << >>
    /\ pc' = "loop"
    /\ pty' = << >>
    /\ IF synchro = NoRegex
       THEN outstanding' = pty /\ UNCHANGED << synchro, fd_program, timeout, printed >>
       ELSE Synchronize(synchro, pty)
    /\ UNCHANGED << conf, line, to, mark, sigs, procs, ends, flags >>

\* Data from the program, kept if there is no recv.
Data ==
    /\ pc = "select" /\ mode = "interact" /\ fd_program /\ pty # << >>
    /\ pc' = "loop"
    /\ pty' = << >>
    /\ \/ /\ synchro = NoRegex
          /\ outstanding' = outstanding \o pty
          /\ timeout' = FALSE
          /\ UNCHANGED << synchro, fd_program, printed >>
       \/ synchro # NoRegex /\ Synchronize(synchro, outstanding \o pty)
    /\ UNCHANGED << conf, line, to, mark, sigs, procs, ends, flags >>

\* The data cannot be kept, or the line cannot be copied for the expression.
NoMemory ==
    /\ pc = "select" /\ mode = "interact" /\ fd_program /\ pty # << >>
    /\ pty' = << >>
    /\ \/ outstanding' = << >>
       \/ synchro # NoRegex /\ outstanding' = outstanding \o pty
    /\ EndsWith(-1)
    /\ UNCHANGED << conf, line, synchro, fd_program, to, timeout, printed, mark,
                    sigs, procs, exit, flags >>

\* A terminal prints them at once.
TerminalData ==
    /\ pc = "select" /\ mode = "terminal" /\ pty # << >>
    /\ pc' = "loop"
    /\ pty' = << >>
    /\ printed' = printed \o pty
    /\ UNCHANGED << conf, line, synchro, fd_program, to, timeout, outstanding, mark,
                    sigs, procs, ends, flags >>

\* Mutant: the error is taken for an interruption.
ReadsAgain ==
    /\ pc = "select" /\ Listens /\ pty = << >> /\ child["prog"] # "running"
    /\ UNCHANGED vars

\* The terminal has lost its program.
ReadError ==
    /\ pc = "select" /\ Listens /\ pty = << >> /\ child["prog"] # "running"
    /\ EndsWith(-1)
    /\ UNCHANGED << conf, talk, sigs, procs, exit, flags >>

\* The next line of the user, or the end of the input. No line is read while
\* an expression is waited for.
Reads(keyword) ==
    /\ pc = "select" /\ synchro = NoRegex /\ mode = "interact"
    /\ line < Len(script) /\ script[line + 1].k = keyword
    /\ line' = line + 1

EndOfInput ==
    /\ pc = "select" /\ synchro = NoRegex /\ line = Len(script)
    /\ printed' = printed \o outstanding /\ outstanding' = << >>
    /\ EndsWith(0)
    /\ UNCHANGED << conf, line, synchro, fd_program, to, timeout, pty, mark,
                    sigs, procs, exit, flags >>

\* The expression may be in the outstanding text.
recv ==
    /\ Reads("recv")
    /\ Synchronize(script[line'].re, outstanding)
    /\ mark' = Len(printed)
    /\ pc' = "loop"
    /\ UNCHANGED << conf, to, pty, sigs, procs, ends, flags >>

\* Commands that go on with the next line. timeout: it applies to the next recv,
\* 0 being none. sh: one more process, that nobody waits for. send: to a dead
\* program too.
GoesOn(keyword) ==
    /\ Reads(keyword)
    /\ to' = (keyword = "timeout" \/ (to /\ keyword # "timeout 0"))
    /\ child' = IF keyword = "sh" THEN [child EXCEPT !["sh"] = "running"] ELSE child
    /\ timeout' = FALSE
    /\ pc' = "loop"
    /\ UNCHANGED << conf, synchro, fd_program, outstanding, pty, printed, mark, sigs, killed, early, ends, flags >>

\* The user types a line of the program (pdip_terminal()).
TerminalSends ==
    /\ pc = "select" /\ mode = "terminal" /\ line < Len(script)
    /\ line' = line + 1
    /\ pc' = "loop"
    /\ UNCHANGED << conf, synchro, fd_program, to, timeout, outstanding, pty, printed, mark,
                    sigs, procs, ends, flags >>

\* Commands that end the interaction: exit, a line that is refused, one that
\* cannot write to a dead program, signal a process that does not exist, or fork.
Stops(keyword) ==
    /\ Reads(keyword)
    /\ \/ keyword = "exit" /\ EndsWith(0)
       \/ /\ \/ keyword \in {"bad", "sh", "sh -s"}
             \/ keyword = "send" /\ child["prog"] # "running"
             \/ keyword = "sig" /\ child["prog"] = "reaped"
          /\ EndsWith(-1)
    /\ handler' = (handler /\ keyword # "sh -s")
    /\ pending' = (pending /\ keyword # "sh -s")
    /\ UNCHANGED << conf, synchro, fd_program, to, timeout, outstanding, pty, printed, mark,
                    procs, exit, flags >>

\* Mutant: the handler stays installed.
ShSyncKeeps ==
    /\ Reads("sh -s")
    /\ child' = [child EXCEPT !["sh -s"] = "running"]
    /\ timeout' = FALSE
    /\ pc' = "sh -s"
    /\ UNCHANGED << conf, synchro, fd_program, to, outstanding, pty, printed, mark,
                    sigs, killed, early, ends, flags >>

\* sh -s: SIGCHLD is set to its default action, which discards it, then the
\* process is waited for.
ShSync ==
    /\ Reads("sh -s")
    /\ handler' = FALSE /\ pending' = FALSE
    /\ child' = [child EXCEPT !["sh -s"] = "running"]
    /\ timeout' = FALSE
    /\ pc' = "sh -s"
    /\ UNCHANGED << conf, synchro, fd_program, to, outstanding, pty, printed, mark,
                    killed, early, ends, flags >>

\* It is over, and exited or not; or the handler has waited for it.
ShSyncEnds ==
    /\ pc = "sh -s" /\ child["sh -s"] # "running"
    /\ \/ /\ child["sh -s"] = "zombie"
          /\ Reap({"sh -s"})
          /\ handler' = TRUE
          /\ \/ pc' = "loop" /\ UNCHANGED rc
             \/ EndsWith(-1)
       \/ /\ child["sh -s"] = "reaped"
          /\ EndsWith(-1)
          /\ UNCHANGED << child, handler >>
    /\ UNCHANGED << conf, talk, pending, killed, early, exit, flags >>

-----------------------------------------------------------------------------
(* End of main().                                                          *)

\* With the option -p.
ExitCode == IF rc # 0 THEN 1 ELSE exit_prog

Exits(n) == pc' = "exited" /\ exit' = n

\* The terminal is closed. A program that is not known to be dead is waited for
\* during 3 seconds.
Close ==
    /\ pc = "end"
    /\ \/ dead /\ Exits(ExitCode)
       \/ ~dead /\ pc' = "wait" /\ UNCHANGED exit
    /\ UNCHANGED << conf, talk, sigs, procs, rc, flags >>

\* waitpid(-1), in main() or at the end of pdip_kill_chld().
Wait ==
    /\ pc \in {"wait", "killwait"}
    /\ \/ \E c \in Zombies : Reap({c})
       \/ NoChild /\ UNCHANGED child
    /\ Exits(IF pc = "wait" THEN ExitCode ELSE 1)
    /\ UNCHANGED << conf, talk, sigs, killed, early, rc, flags >>

\* Mutant: the program is not killed.
AlarmExits ==
    /\ pc = "wait"
    /\ Exits(1)
    /\ UNCHANGED << conf, talk, sigs, procs, rc, flags >>

\* pdip_sig_alarm(): pdip_kill_chld() sends SIGTERM and sleeps.
pdip_sig_alarm ==
    /\ pc = "wait"
    /\ \/ ~dead /\ pc' = "kill" /\ UNCHANGED exit
       \/ dead /\ Exits(1)
    /\ UNCHANGED << conf, talk, sigs, procs, rc, flags >>

\* Mutant: no SIGKILL.
KillTerm ==
    /\ pc = "kill" /\ pc' = "killwait"
    /\ UNCHANGED << killed, early, conf, talk, sigs, child, ends, flags >>

\* Then SIGKILL, if the handler has not seen the death.
Kill ==
    /\ pc = "kill" /\ pc' = "killwait"
    /\ killed' = ~dead
    /\ UNCHANGED << conf, talk, sigs, child, early, ends, flags >>

-----------------------------------------------------------------------------
ToolSteps ==
    \/ pdip_sig_chld \/ Forked \/ Started
    \/ Dead \/ Select \/ Timeout \/ pdip_dump_outstanding_data \/ Data \/ TerminalData
    \/ ReadError \/ ShSyncEnds \/ Close \/ Wait \/ pdip_sig_alarm \/ Kill

UserSteps ==
    \/ EndOfInput \/ TerminalSends \/ recv \/ ShSync
    \/ \E k \in {"timeout", "timeout 0", "send", "sig", "other", "sh"} : GoesOn(k)
    \/ \E k \in {"exit", "bad", "sh", "sh -s", "send", "sig"} : Stops(k)

Next ==
    \/ ToolSteps \/ UserSteps \/ NoMemory
    \/ ProgramWrites \/ (\E c \in Children : Ends(c)) \/ Killed

Spec == Init /\ [][Next]_vars

\* The tool runs and signals are delivered; nothing is assumed of the user, nor
\* of the processes unless they are killed.
FairSpec == Spec /\ WF_vars(ToolSteps) /\ WF_vars(pdip_sig_chld) /\ WF_vars(Killed)

-----------------------------------------------------------------------------
TypeOK ==
    /\ pc \in {"fork", "forked", "loop", "select", "dump", "sh -s", "end", "wait", "kill",
              "killwait", "exited", "aborted"}
    /\ line \in 0..Len(script)
    /\ synchro \in Regex \cup {NoRegex}
    /\ \A b \in {fd_program, to, timeout, pidset, dead, handler, pending, killed, early} :
           b \in BOOLEAN
    /\ \A d \in {outstanding, pty, printed} : d \in Seq(Chars)
    /\ Len(Text) <= MaxText
    /\ mark \in 0..Len(printed)
    /\ rc \in {0, -1, -2} /\ exit \in {-1, 1} \cup Codes \cup {0} /\ exit_prog \in Codes \cup {0}
    /\ child \in [Children -> {"none", "running", "zombie", "reaped"}]

\* The tool waits for an expression.
Receiving == pc \in {"loop", "select"} /\ synchro # NoRegex

\* An expression that is waited for is not in the text already received.
NothingMissed == Receiving => Found(synchro, outstanding) = {}

\* The length of the shortest text that contains the expression.
Shortest(re, d) ==
    Least({n \in 0..Len(d) : IsMatch(re, Printable(Take(d, n)))})

\* recv ends as soon as the expression has come in what the program has written
\* since the last recv, control characters left out, wherever reads have cut it
\* and although it is only looked for line by line. (But an expression that ends
\* with "$" is found at the end of what has come.)
FirstMatch ==
    [][ LET re == IF synchro # NoRegex THEN synchro ELSE script[line'].re
            from == IF synchro # NoRegex THEN mark ELSE Len(printed)
            ended == /\ mode = "interact" /\ synchro' = NoRegex
                     /\ synchro # NoRegex \/ (line' # line /\ script[line'].k = "recv")
        IN (ended /\ ~re.eol) => Len(printed') - from = Shortest(re, Drop(Text, from)) ]_vars

\* Each character of the program is printed once and in order: what is printed
\* is a prefix of what was written, and nothing disappears between two steps
\* unless the terminal is closed, or the interaction ends by a timeout or for
\* lack of memory: what it has just read is not printed then.
NothingLost ==
    [][ \/ Text' = Text
        \/ \E c \in Chars : Text' = Append(Text, c)
        \/ pc' = "end" /\ rc' # 0 /\ printed' = printed ]_vars

\* When the death of the program ends a recv, all that the program wrote is
\* printed, although its death may be seen before its last words are read.
LastWords ==
    (pc \in {"end", "exited"} /\ synchro # NoRegex /\ rc = 0) => printed = Text

\* What holds of the text between two steps: an expression that has come is not
\* waited for, and the last words of the program are printed.
TextInv == TypeOK /\ NothingMissed /\ LastWords

\* The command sh was used.
ShUsed == child["sh"] # "none" \/ child["sh -s"] # "none"

\* The death of the program, waited for or not, is seen or about to be: one
\* SIGCHLD is enough for the handler that runs once. It is missed if a process of
\* sh may have died before the program, or if the handler ran before main() reset
\* pdip_dead_prog: pdip_chld_failed_on_exec is meant for the latter, but the
\* handler returns before it could set it.
DeathPending ==
    pc \in {"loop", "select"} /\ child["prog"] # "running"
    => dead \/ pending \/ ShUsed \/ early

\* The assertion of the handler that no second child is dead only fails if sh
\* was used without -s.
OneDeath == pc = "aborted" => child["sh"] # "none"

\* The handler of SIGCHLD, which runs once and for any process, sees the death
\* of the program unless it came too early, and finds no other one, as far as sh
\* allows.
DeathSeen == DeathPending /\ OneDeath

\* Once it has waited for the program, the tool never leaves it running, unless
\* it has waited for a process of sh instead.
NoOrphan ==
    [][ (pc \in {"end", "wait", "killwait"} /\ pc' = "exited" /\ child'["prog"] = "running")
        => child["sh"] = "zombie" \/ child["sh -s"] = "zombie" ]_vars

\* A recv ends when the program is dead, although the signal of its death may be
\* missed or not wake select() up; or if it has a timeout, unless the program
\* writes for ever: the timeout starts again with each of its data.
RecvEnds ==
    \/ []<><<ProgramWrites>>_vars
    \/ (Receiving /\ (timeout \/ child["prog"] # "running")) ~> ~Receiving

\* The tool ends after the interaction, whatever the program does, unless a
\* process of sh is still running.
ToolEnds ==
    (pc = "end") ~> (pc \in {"exited", "aborted"} \/ \E c \in {"sh", "sh -s"} : child[c] = "running")

\* With the option -p, the tool ends with the exit code of a program that it
\* has not killed, unless the interaction was in error.
ExitPropagated ==
    (pc = "exited" /\ rc = 0 /\ child["prog"] = "reaped" /\ ~killed) => exit = code

=============================================================================
