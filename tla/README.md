# TLA+ models of PDIP and of the rsystem() service

PDIP runs a program behind a pseudo terminal and talks to it as a person would:
it sends lines and waits for a regular expression in the output. On top of the
library (`pdip_lib.c`) there are a tool (`pdip.c`), a replacement of `system()`
that keeps one shell per process (`isys/isys.c`), and a service, `rsystemd`, whose
clients run their commands in a few shared shells (`rsys/`). This directory holds
TLA+ specifications translated from that code, the configurations with which TLC
checks them, and proofs checked by TLAPS.

## 1. Inventory

| Part | State | Operations | Talks to |
|---|---|---|---|
| `rsystemd` main loop (`rsystemd.c`, `main()`) | list of clients, set of `select()`, `nb_ready`, `rsysd_loop` | select, accept, loop on the shells, loop on the clients, SIGTERM | clients (Unix socket), shells (PDIP), graceful thread |
| shell machine (`rsysd_shell_fsm()`) | per shell: FREE, ALLOCATED, WAIT_EOC, WAIT_STATUS, FREEING; client; last status | LINK, CMD, DATA, CLIENT_DCNX | clients, PDIP object of the shell |
| client library (`rsystem.c`) | the socket of the process | connect, write header and command, read displays until the end of the command | daemon |
| graceful thread (`rsysd_graceful_thd()`) | its own set of descriptors, shared with `main()` under a mutex and a condition | wait, select with timeout, close | `main()`, kernel |
| list of shells (`rsysd_get_affinity()`, `rsysd_create_shells()`) | automaton over the `-s` option, one bitmap of CPUs per shell | one state per kind of character | library (`pdip_cpu_set()`) |
| PDIP reading and writing (`pdip_recv()`, `pdip_flush()`, `pdip_send()`) | outstanding data of the object, buffer of the caller | read with or without timeout, look for the regular expression, flush whole lines, write | pseudo terminal |
| PDIP objects (`pdip_new()`, `pdip_exec()`, `pdip_status()`, `pdip_sig()`, `pdip_delete()`, `pdip_signal_handler()`) | list of objects; per object INIT, ALIVE, ZOMBIE, DEAD, pid, status | create, run, signal, wait, delete; handler of SIGCHLD | kernel, other threads |
| `isystem()` (`isys.c`) | one shell per process, never restarted | initialize, run a command, ask `$?`, fork, exit | PDIP |
| `pdip` tool (`pdip.c`) | script, text received and not printed, `pdip_dead_prog`, `pdip_exit_prog` | the commands of its language, terminal mode, handlers of SIGCHLD and SIGALRM, wait and kill at the end | pseudo terminal, program, processes of `sh` |

What is hard in it: the daemon is one loop over many descriptors, and the events of
one round are handled in a fixed order that is not the order in which they happened;
a client may leave at any point of an exchange in which its shell has still to speak;
the status of a command is a second exchange with the same shell; reads block; signals
come between any two instructions; a second thread closes descriptors whose numbers
the first one gets again; text comes cut anywhere, and what is looked for in it may
span two reads, or have come before the call. The hazards are listed one by one, at their line, in
`PROJECT.json`.

What makes the parts correct: links between shells and clients that agree with the
machine; each ready descriptor handled once per round; a shell given to a client only
when it is quiet; answers that belong to the command that was sent; commands answered
by BUSY that are not run; calls that return; sockets and contexts that are released,
and only by their owner; PDIP objects whose state, pid and status are always those of
their own process, although the signal that reports a death may come early, late or never;
text that reaches its reader whole, once and in order, up to the first match; commands of
`isystem()` that get their own output and status; a tool that sees the death of its program
and leaves nothing running.

## 2. Modules

| Module | Models | Uses |
|---|---|---|
| `PdipStream` | `pdip_recv()` on a stream of tokens, as rsystemd calls it | |
| `Rsystemd` | daemon, shell machine, client library | `PdipStream` |
| `MCRsystemd` | constants of the runs | `Rsystemd` |
| `RsysGraceful` | graceful thread and the descriptors of `main()` | |
| `RsysAffinity` | the automaton of the `-s` option and the manual's grammar | |
| `PdipObject` | the objects of the library, their processes and the handler of SIGCHLD | |
| `PdipRegex` | what `regexec()` answers for literals with anchors | |
| `TextChannel` | abstract: what reception promises to its caller | `PdipRegex` |
| `PdipRecv` | `pdip_recv()`, `pdip_flush()`, `pdip_send()` and their buffers; implements `TextChannel` | `PdipRegex`, `TextChannel` |
| `Isys` | `isystem()`, its initialization, fork and exit | |
| `PdipTool` | the `pdip` tool | `PdipRegex` |
| `MCPdipRecv`, `MCIsys`, `MCPdipTool` | expressions, programs and scripts of the runs | the modules they instantiate |
| `ListLemmas` | facts about lists without duplicates, about texts that are cut and put together, and about least and greatest positions | |
| `RsystemdProofs`, `PdipRecvProofs`, `IsysProofs`, `PdipToolProofs` | theorems | the modules they prove about, `ListLemmas` |
| `RsysGracefulProofs`, `RsysAffinityProofs`, `PdipObjectProofs` | theorems | the modules they prove about |

A definition has the name of the C function or variable it stands for where there is
one. Definitions introduced by "Mutant:" are plausible mistakes, used by nothing:
substituted for the definition that follows, each makes a property fail.

### Rsystemd

`pc` says where `main()` is: at the test of `rsysd_loop`, in `select()`, at `accept()`, in
the loop on the shells, blocked in `pdip_recv()`, in the loop on the clients, in
`rsysd_read_client()`, or moving its cursor. What `select()` returned is kept in
`rdListen`, `rdShells`, `rdClients`, so that the rest of the round uses a picture that
grows old, as in the code. The machine of a shell is one operator per state and event
(`Fsm_LINK`, `Fsm_CMD`, `Fsm_WAIT_EOC_DATA`, `Fsm_WAIT_STATUS_DATA`, `Fsm_FREEING_DATA`,
`Fsm_DCNX`); an assertion that would fail sets `pc` to `"aborted"`, and SIGPIPE sets it to
`"killed"`.

A client is one connection (`clst`): it writes the header and then the command, two
system calls with anything in between, reads messages until the end of its command, may be
interrupted in `read()`, and may end anywhere. A shell (external) reads lines from `stdin`
and writes tokens on `pty`: whole lines, beginnings of lines, the status line, the prompt.
A read takes any number of the tokens that wait. A token remembers the command it is about,
which the properties use and the daemon never does. `said`, `started`, `desynced` and `misled` are history.

Two failures end the exchange with a shell before the shell is at its prompt: a write to a client that is
interrupted or cut short (`WriteFails`; SIGCHLD is caught without `SA_RESTART`, and `rsys_msg.c:119` tries once), and a
lack of memory in `pdip_recv()` (`NoMemory`). The machine then sends a dummy status and puts the shell FREE
(`rsystemd.c:1148`, `:1535`). `desynced` are the shells put FREE in this way, `misled` the clients such a shell has
served and those to which a write failed; a message written in part is `Torn`, after which the client no longer reads at
the beginning of a message (`rsystem_torn`). What a torn message makes the client return is not kept. A socket
holds `SocketRoom` messages; a client that does not read blocks the daemon in `write()`.

Left out of it: the text of commands and messages, traces, options, the creation of the
shells and of the socket (the initial state), and a shell that writes after its prompt
(a background job). A line sent to a shell that has just died may be accepted: the
library only refuses it once it has seen the death. Five local assertions (`rsystemd.c:1232`, `:1375`, `:1380`,
`:1456`, `:1729`) are about the buffers and pointers of one function and have no counterpart (the first
fails if a shell out of step writes an empty line where its status is expected); nor has the lack of memory inside
`regexec()`.

### RsysGraceful

The sets, their maxima, the mutex, the condition and the numbers given by the kernel.
A critical section is one step, except the one that closes: `accept()` takes no lock and
may get the number between `close()` and the update of the set. `pthread_cond_wait()` may return although nobody
signalled (`SpuriousWake`); it is under an `if`, and the assertion that follows then fails (`Aborted`).

### RsysAffinity

The list of shells is a sequence of tokens; the automaton goes through it with its
`goto`s. `Documented` and `DocAffinity` define the grammar and the meaning of the manual,
independently of the automaton. Without the `-s` option there is one shell on all the CPUs (`rsystemd.c:928`); this case and
a failure of `pdip_cpu_alloc()`, which is only logged (`:899`), are left out.

### PdipObject

One thread calls the library; `pc` is its position, with one step for each stretch of code
between two places where SIGCHLD can be taken: `pdip_exec()` is `pdip_exec`, `Fork`, `SetPid`,
`ExecCheck`, `ExecAlive`, and `pdip_delete()` goes through `Terminate`, `ChildFields`, `waitpid`,
`pdip_update_dead_child`, `Kill`, `pdip_unlink_ctx` and `Free`. What is done with SIGCHLD masked
and touches one object is one step; between `ExecCheck` and `ExecAlive` the mask is a
variable, because what it protects is a test and an assignment. The handler is two
steps, the search in the list under the lock and the update without it. SIGCHLD is one
pending pid: it is lost when another one waits (the signal is not queued). A status is the
pid of the process it is the status of. `mine` and `ret` are history.

Assumptions: `pdip_configure()` was called once with the internal handler; a blocking
`pdip_status()` is called for an object that has had a process; in the runs and in the proofs
(but for types) the calling thread is the one that handles SIGCHLD. `OtherThread = TRUE` lets another
thread do it, and then `NoAssertFails` does not hold: the handler finds the object, the
calling thread waits for the process and marks the object DEAD, and the handler's
assertion fails. The processes of the model are not stopped (`Ends` is the only source of SIGCHLD; see the end of section 3).

### PdipRecv and TextChannel

A buffer is its text and the size of its memory. The program writes one character at a time
and a read takes any part of what has come, so that every cut of every text happens. `pdip_recv` is
the part of the call before the first read (the outstanding data may be the answer);
`pdip_read` is one read and what follows it: append, look for the expression, then return
or read again, with or without timeout and on the flow or not. `TimeoutElapsed`, `ReadError` and
`ReallocFails` are the other ends. Each allocation that can fail is in `MemoryFaults`. The
assertions that fail when the program has written a NUL, and the `strdup()` that is not
checked, end in the states `"aborted"` and `"crashed"`. A message is sent by several writes, each
of any length.

`TextChannel` has no buffers, no reads and no time: a queue of characters, the text already
given, a call and its answer. A call for an expression gives the text up to the first match of
what it has seen, or text in which there was none; nothing is lost but for lack of memory; the end
of file is only answered when nothing is left to give. `PdipRecv` implements it with the
queue `outstanding.data \o pty`.

### Isys

Two processes, a father and the child it may fork, each with at most one shell. The text of a
shell is a sequence of tokens (lines, empty lines, beginnings of lines, status, prompt), and the
terminal echoes what it is sent until `stty -echo` is read. A reception either finds the prompt, or
gives complete lines, or ends by timeout or error; the timeout may elapse at any time, because nothing
bounds the time of a command. The father does not call `isystem()` as long as its child lives: the code does not forbid
it, but they share no shell, and one order of their calls is enough. `ctx` are the objects that exist in the memory of the process:
`fork()` frees them in the child, and a pointer to one of them is the state `"undefined"` when `isystem()` uses it
(`pdip_delete()`, at exit, looks for it in its list and only returns an error).
`clean` is history: it is false once a reception of the process has failed, after which the
library has no means to know to which command an answer belongs.

### PdipTool

`pc` goes from `fork()` to the exit of the tool. SIGCHLD is pending or not, the handler
installed or not (it runs once, `SA_RESETHAND`), and every process running, zombie or reaped. The handler may run anywhere: before
`fork()` returns or before `pdip_dead_prog` is reset, which `early` remembers, and between the test of that flag and
`select()`, which it does not wake up then (`Interrupts`).
`pdip_handle_synchro` looks for the expression line by line, without the control characters, which are
printed none the less. A script is a sequence of commands, one action per kind: `recv`, `ShSync`
for `sh -s`, `GoesOn` for those that go on with the next line, `Stops` for those that end the interaction. A timeout and
a lack of memory end it too: what has come meanwhile is read and not printed (`pdip_dump_outstanding_data`, `NoMemory`). The end is
`Close`, `Wait`, and after three seconds `pdip_sig_alarm`, `Kill`. When `recv` looks for its expression in the text it already
has and lacks memory, the failure is ignored (`pdip.c:2206`) and the buffer of the skipped characters may be missing at its
next use; this is not modelled. Nor is a descendant of the program that keeps the terminal open: with it, and a missed death, `recv` waits
for ever. With the option that dumps it, `main()` reads what `Close` discards.

## 3. Runs

| Run | Instance | Shows |
|---|---|---|
| `rsystemd_sync` | two clients, two commands each, one shell, outputs in pieces; failed reads, one failed write or lack of memory in `pdip_recv()` | `FreeShellQuiet`, `OwnAnswers`, `BusyNotRun` |
| `rsystemd_faults` | two clients that may be interrupted, two shells, one may die; failures of memory, accept, select, read, send, one write; SIGTERM | `LinkInv`, `RoundInv`, `NoAssertFails`, `NoSharing` |
| `rsystemd_live` | two clients, one shell that may die, no memory for a context, failed reads | `CallReturns`, `FreeingEnds`, `GoneIsFreed` |
| `graceful` | four descriptor numbers, select may fail, spurious wake-ups | `ClosesOnlyGiven`, `OneWatcher`, `AllWatched`, `GivenIsClosed` |
| `affinity` | every list of at most six tokens, four CPUs | `ReadsList` (`ReadsIntervalsLast` and `NeverFewerCpus`), `ShellsCounted`, `ParserEnds` |
| `pdip_object` | two objects, two processes | `NoAssertFails`, `ZombieIsDead`, `PidIsOwn`, `NoOrphan`, `StatusIsOwn`, `DeathNotForgotten`, `ExitEmpties` |
| `pdip_recv` | every text of three characters out of a letter, line feed and NUL; expressions `aa` and `^$`; with and without timeout and flow; every memory failure | `RecvInv` (`BufferRoom` and `NothingMissed`), `InputWhole`, `MatchNotCut`, `CallReturns`, and the refinement `ImplementsChannel` |
| `isys` | a father (two calls) and its child (one call), three programs, shells that may die | `OwnStatus`, `OwnOutput`, `IsysInv` (`OwnShell`), `CallReturns` |
| `pdip_tool` | four scripts and the terminal mode, texts of three characters, processes of `sh` | `TextInv` (`NothingMissed` and `LastWords`), `FirstMatch`, `NothingLost`, `DeathSeen` (`DeathPending` and `OneDeath`), `NoOrphan`, `RecvEnds`, `ToolEnds` |
| `rsystemd_sigpipe` | one client, one shell | violated: a client that leaves kills the daemon |
| `pdip_affinity` | one object, two CPUs | violated: the process runs on all the CPUs |
| `pdip_tool_exit` | a script that only exits | violated: `-p` propagates 0 for a program that ends after the script |

`ReadsList`, `RecvInv`, `IsysInv` and `TextInv` also contain the type invariant of their module; those of
`Rsystemd`, `RsysGraceful` and `PdipObject` are proved and not checked again. Every invariant of a
passing run, every action property but `FirstMatch`, and the refinement also have a proof (section 4).

Bounds. Two clients for one shell is the least in which a client is refused, waits for a
shell another one leaves, and joins the list while the other is being removed; two shells
are the least in which the table is searched and a dead shell is in front of a live one.
Two commands per connection let an answer be late by one; `MaxFailures = 1` allows
one failed write or lack of memory beyond those that harm nobody new, and `SocketRoom = 1` a client that is slow to read. A shell that
dies and a client that is interrupted are in `rsystemd_faults`, with one command each, of one line; with two, they are in the proofs. Both runs
use the symmetry of the clients, which no property of theirs tells apart. Three tokens of output
(beginning of a line, end, prompt) give every position at which a read can cut. Two objects and two
processes let two deaths merge into one signal, an object be used again, and a signal about
one process come while the other object is handled. Six tokens
hold two shells with an interval followed by a field. Four descriptors let the greatest be
removed above a hole and come back. Three characters hold a match cut in two with something
before or after it, an empty line, and a NUL on either side of a match; an increment of three bytes makes
buffers grow at the second read. Programs that write nothing, an empty line last, or an
incomplete line are those `isys.c` treats apart; two calls let an answer be late by one, and a fork
before the first call is the one that may find an initialization failed. The scripts of the tool have
two synchronizations in a row, one of them with a timeout, another after `timeout 0`, and both kinds of `sh` before and beside them. Deadlock is not checked in the runs of `Rsystemd`,
where clients stop after `MaxCmds` calls, nor in those of `RsysAffinity`, which ends, nor in
those of the other modules, where the library or the tool ends or its user stops calling.

Fairness. The daemon's process and the graceful thread are scheduled; a client in
`rsystem()` goes on (it does not stop between its two writes); a running command ends.
In `PdipObject` the threads run, a process that gets SIGKILL ends, and the loop of
`pdip_lib_exit()` goes on; nothing makes a process end by itself or obey SIGTERM.
In `PdipRecv` and `Isys` the thread that is in the library runs and time passes; nothing is
assumed of the program, nor of the shell. In `PdipTool` the tool runs, a pending signal is
delivered and a killed program ends; nothing is assumed of the user, of the program or of the
processes of `sh`. `RecvEnds` is conditional on a program that stops writing: with `MaxText` characters it always does in the run,
but the code restarts the timeout at each reception (`pdip.c:2512`), and so would a program that never stops keep `recv` waiting.
Nothing is assumed of a client that has nothing to do, nor of faults. `CallReturns` is
checked for commands whose output ends with a line feed: the prompt is looked for as
`^prompt$`, and after an incomplete line it never comes (`rsystem.c` warns its users). It is also checked without
failed writes or lack of memory in `pdip_recv()`, with which it does not hold: a lost EOC or BUSY is not sent again and its
client waits for ever, and a shell out of step may put two prompts on one line, which never match.

The findings of `PROJECT.json` quote, for each violated property, the line it comes from.
Other disagreements between the code and its texts were met while modelling and have no run:

- A client that leaves before it has sent a command puts its shell FREE, "as the shell has not been sollicited: no pending data to
  read" (`rsystemd.c:1484`): false after a failed write of a display or a lack of memory in `pdip_recv()`, which had put that shell FREE with
  its command running. The next client gets its output. `FreeShellQuiet` and `OwnAnswers` name these
  shells and clients, and show that the harm stays with them.
- `timeout x` is "the maximum time to wait on each recv" (`pdip_en.1:68`), but each data received starts it again
  (`pdip.c:2512`): a program that writes regularly is waited for without end.
- `pthread_cond_wait()` may wake up spuriously, and the graceful thread then fails its assertion (`rsystemd.c:322`).
- `rsystem()` interrupted by a signal returns -1 and leaves the answers of its command in the socket
  (`rsystem.c:243`); the next call returns the status of the interrupted command.
- rsystemd calls `pdip_recv()` without timeout because "data are available" (`rsystemd.c:1115`), but
  that call reads until a whole line or the prompt has come: a command that writes the
  beginning of a line stops the daemon for every client.
- The automaton of the `-s` option does not go past the comma that follows an interval
  (`rsystemd.c:777`): a closed interval then gives all the CPUs, and an open one is a syntax error.
  `ReadsIntervalsLast` therefore restricts itself to intervals at the end of an affinity.
- The handler of SIGCHLD takes a stopped process for a dead one (`pdip_lib.c:2978`, no
  `SA_NOCLDSTOP`): the object is a ZOMBIE, `SIGCONT` is refused, and `pdip_delete()` waits for ever. If it is continued or
  ends meanwhile, the second SIGCHLD finds a ZOMBIE and the assertion of `pdip_lib.c:2974` fails.
- `pdip_look_for_regex()` says that NUL characters are removed (`pdip_lib.c:630`); they are not, and
  one after the match aborts the calling program (`pdip_lib.c:705`, and `:536` on the flow).
- `pdip_chld_failed_on_exec` can never be set (`pdip.c:928`, `:1009`): the branch that sets it
  is behind a test that fails as long as `pdip_pid` has no value, contrary to the comment at `pdip.c:296`. And what the handler notes before
  `main()` resets `pdip_dead_prog` (`:2871`) is lost. A program that dies at once is then never seen dead, without any `sh`: `DeathSeen` names this
  case (`early`), and `recv` ends by the error of `read()`.
- The timeout of the graceful thread is meant to close its sockets (`rsystemd.c:360`), but `select()` then
  returns an empty set and nothing is closed; SIGTERM between the test of the loop and `select()` (`rsystemd.c:2049`)
  is only seen when some descriptor becomes ready.
- `sh` without `-s` uses up the handler of the tool (`pdip.c:1066`), so that the death of the program is
  not seen any more; `DeathSeen` excludes it, and `RecvEnds` and `ToolEnds` show that the tool ends all the same.
- In `isystem()` an exit code from 128 is taken for a signal, an empty line received alone with the
  prompt is not displayed (`isys.c:270`), and a command of spaces only is read before its beginning (`isys.c:388`).

## 4. Proofs

A theorem holds for every value of the constants that satisfies the assumption of its
module; those assumptions say that the constants have their types and, where noted, what
the code guarantees. Bounds such as `MaxCmds` or `MaxText` are any number in them.

### Rsystemd: links and rounds

`TypeCorrect`, `LinksAgree`, `RoundsComplete`, `AssertionsHold` and `ShellsNotShared` hold for any
finite set of clients, any number of shells and commands, any outputs and faults. They share one
inductive invariant,

    IndInv == TypeOK /\ LinkInv /\ RoundInv /\ NoAssertFails

because none is inductive alone: the assertion at the end of a round needs the count of
`nb_ready` (`ReadyInv`), which needs the readable clients to be in front of the cursor, which
needs the list without duplicates (`ListInv`), which needs a freed context to be the
cursor's, which needs the links to agree when a disconnection is handled (`LinkInv`), which
needs the assertions not to have failed. Each conjunct has its own step lemma with one case
per action.

### Rsystemd: conversations

`FreeShellsQuiet`, `AnswersOwned` and `BusyNeverRuns` state `FreeShellQuiet`, `OwnAnswers` and `BusyNotRun`.
They hold with any number of failed writes and of lacks of memory: a shell is only
left out once such a failure has put it FREE, a client once it was linked to such a shell or not written to. So what is proved is also that the
damage of a failure goes no further. Each needs to know where everybody is in the exchange, which three more invariants say:

- `DialogueInv`: in each state of the machine, what the shell has still to read, to run and to
  write. It rests at its prompt (FREE, ALLOCATED), was told something it has not taken up, says something
  (`Says`: written and unread text `u`, `rest` to come, then one prompt), or is dead and
  can say nothing that would be taken for an answer (`Muted`). The lemma behind it is about `pdip_recv()`: when a text has one
  prompt, at its end, the outcome FOUND returns exactly what is before it and leaves nothing (`SaysRecv`).
  `FreeShellQuiet` follows.
- `NumberInv`: shells, sockets and history only know commands whose numbers have been given, so
  that the next number of a client is new to all of them.
- `TalkInv`: the phase of every client that no signal interrupts and that is not misled. `Idle`, nothing is on its way; `Sending`, no
  shell has heard of its command; `Served`, its shell works on it, and what the client has
  displayed, what is in its socket, what the daemon has still to read and what the shell has still
  to write make up the output of the command, in this order; `Answered`, an end of command or a BUSY
  follows the displays, and no shell will say more about the command; `Lost`, nobody serves it any more, or it does not listen.
  The phase is kept by the steps of the other clients and shells because links are never shared (`LinkInv`).

A client that a signal interrupts is excluded, as in the properties: its next call does get the
status of another command (section 3).

### RsysGraceful

For any set of descriptors, the thread closes only what it was given (`NeverClosesClients`), both
sets are watched (`SetsWatched`) and disjoint (`SetsDisjoint`), and the assertion after the wait
only fails by a spurious wake-up (`WaitIsSignalled`, which states `OnlySpurious`): after a signal there is something to watch. `Ownership` is what makes the others
inductive.

### RsysAffinity

For any number of CPUs and any list, the automaton stays in the list and in the bitmap (`AffinityTypes`)
and the loop of `rsysd_create_shells()` fills its table exactly (`TableFilled`). The invariant `CountInv` relates
two loops: the number of shells read is the number of colons behind the cursor, so that it reaches
the number that was counted beforehand when the list ends and not before.

`ListRead` states `ReadsList`: an accepted list is one of the manual's and gives each shell at least the CPUs it asks
for; when intervals come last, exactly those, and no list of the manual is refused. Its hypothesis `NumbersFit`, that the
numbers written are below `Width`, is needed: a bigger one wraps and is not read as the biggest CPU. The proof has two halves.

- The manual's side. `Affinity` and `Fields` cut the list at its colons and commas and choose pieces by counting.
  `FieldsAre` shows that the fields of shell `i` are the parts of the list between two successive delimiters (`Span`) with
  `i - 1` colons before them (`ShellOf`), and `FieldShape` and `AskedAre` what such a part is and asks for, by position.
- The automaton's side. The invariant `ListInv` says where in a field it is (`Cursor`), that up to a place `Mark` every field
  is one of the manual's and its CPUs are in the bitmap of its shell (`FieldsRead`), that a bitmap has no other CPU when intervals
  come last (`BitsAsked`), and why a list was refused (`ErrorIs`). `Mark` is not always the cursor: behind an interval the
  comma is not consumed, and the automaton takes it for an empty field (`Behind`), which asks for every CPU. That is the
  one step that gives CPUs no field asks for, and it needs a comma behind a hyphen.

### PdipObject

For any set of objects, any number of processes and CPUs, `TypeCorrect` and, when SIGCHLD
is handled by the calling thread, `AssertionsHold`, `ZombiesAreDead`, `PidsAreOwn`, `NothingLeftBehind`,
`StatusesAreOwn` and the action property `DeathsKept`. The inductive invariant has three parts
besides types: `ObjectInv`, what each state of an object says of its process; `CallInv`, what the
calling thread may still rely on at each step of a call, for instance that a ZOMBIE it is
waiting for stays one; and `SignalInv`, that a SIGCHLD on its way is about an ended process whose
object has not been told, which is why the assertion of the handler cannot fail: the signal of
a process that was waited for finds no object, because its pid was erased with SIGCHLD masked.

### PdipRecv

For any characters, expressions, increments, timeouts, texts and memory faults: `RecvCorrect` (types, room for
the final NUL, no match that is missed), `InputIsWhole` (messages reach the program whole and
in order, with `EmissionInv`: what is written is the beginning of the current message), and the
refinement of `TextChannel`, `Implements`: the initial states map, and each action is a step of the channel or
a stutter, with the queue `outstanding.data \o pty`. The refinement needs, besides `RecvInv`, that a call under way has no
answer yet. `MatchesWhole` (an occurrence is never cut by data given on the flow) has the hypothesis
`OneLine`, that no expression contains a line feed: the code flushes whole lines and compiles its
expressions with `REG_NEWLINE`, and a literal with a line feed in it really is cut.

### Isys

For any programs, calls and moment of the fork: `IsysCorrect`, `IsysOwnStatus` and `IsysOwnOutput`, under the
assumption that a program ended by a signal has a signal other than 0. The inductive invariant
`ConversationInvariant` has the types, what each process owns (`Own`: its shell is the one it started, its object is in
its memory), and `Conv`, the phase of the dialogue: `Starting`, `Silencing` (`stty -echo` was sent),
`Resting`, `Running` the command, `Asking` its status. Each phase says which text is displayed, which is
unread and which is to come, as `TalkInv` does, and is only claimed as long as no reception has failed (`clean`).

### PdipTool

For any scripts, texts and exit codes: `ToolCorrect` (an expression that has come is not waited for; the last
words of a dead program are printed), `ToolLosesNothing`, `ToolSeesDeath` and `ToolLeavesNoOrphan`, under the assumption
that a `recv` has an expression. The invariant has a part about processes and the handler that runs once (`Processes`), one
about the position in the script (`Control`), and one about the text (`Texts`, `Quiet`, `Spoken`): the part that was
already searched contains no match, since a match lies in one line and incomplete lines are searched again.

### Only model-checked

- Liveness (`CallReturns` of `Rsystemd`, `PdipRecv` and `Isys`, `FreeingEnds`, `GoneIsFreed`, `GivenIsClosed`, `ParserEnds`,
  `ExitEmpties`, `RecvEnds`, `ToolEnds`): out of the prover's reach.
- `FirstMatch` of `PdipTool`: it relates the matches in each line without its control characters to those in the whole
  text without them, and `SelectSeq`, which takes them out, is defined by recursion.
- The violated properties, which are counterexamples.

## 5. Plan

Done: all the modules, their runs, and proofs about each of them. What is left:

1. `FirstMatch`, if what `SelectSeq` does to a text that is cut in two can be had without induction, for instance with
   the positions that are kept (`Kept`) instead of the characters.
2. Clients that are interrupted: what does hold of the client the talk invariant excludes, for
   instance that its answers are about one of its own commands.
3. Whether a shell that was put FREE before its prompt ever comes back in step, and the status that a client makes of a torn
   message.

## 6. Not modelled

- The texts: regular expressions other than literals with anchors, messages, traces, options; in the tool the
  splitting of the lines and the formatting of their strings.
- `pdip_configure()`, `pdip_fd()`, the debug levels.
- The background mode of the tool (SIGTTIN, SIGTTOU): it changes where text goes, not its order.
- The creation of the daemon's shells and socket, and of the pseudo terminals: their failure ends
  the program or, in `pdip_exec()`, is the one action `ExecFails`; in `isys_lib_initialize()` the failures that come
  before the shell exists.
- A FREE shell of the daemon that writes (a background job), processes that are stopped, and
  exit codes from 128 in `Isys`, which the shell does not tell from signals.
- `pdip_util.c`, the tests, the build and the installation.
