------------------------------ MODULE Rsystemd ------------------------------
(***************************************************************************)
(* The rsystem() service: the main loop of the rsystemd daemon, the state  *)
(* machine of its shells, its client contexts (rsys/rsystemd.c), and the   *)
(* client library (rsys/rsystem.c) that talks to it over a Unix socket.    *)
(*                                                                         *)
(* An element of Clients is one connection of a client process. The shells *)
(* (/bin/sh behind a PDIP object) and the kernel are the environment.      *)
(***************************************************************************)
EXTENDS Naturals, Sequences, FiniteSets, SequencesExt, PdipStream

CONSTANTS
    Clients,        \* connections of client processes
    NoClient,       \* the null rsysd_client_t pointer
    NbShells,       \* rsysd_nb_shells
    MaxCmds,        \* bound: rsystem() calls made on one connection
    SocketRoom,     \* the messages a socket holds before a write to it blocks
    MaxFailures,    \* bound: failures "nomem" and "write", by what they leave
    Outputs,        \* what a command may print: sequences of "line" and "part"
    Mortal,         \* the shells that may die (command "exit", a signal)
    Interruptible,  \* the clients whose read() a signal may interrupt
    Faults          \* failures and signals considered: subset of FaultNames

\* "oom": no memory for a new client; "nomem": none in pdip_recv(); "write": a
\* write to a client is interrupted or cut short.
FaultNames == {"oom", "accept", "select", "read", "toolong", "sigterm", "nomem", "write"}
Shells == 1..NbShells
NoShell == 0

ASSUME RsystemdAssumption ==
    /\ IsFiniteSet(Clients)
    /\ NoClient \notin Clients
    /\ NbShells \in Nat \ {0}
    /\ MaxCmds \in Nat
    /\ SocketRoom \in Nat
    /\ MaxFailures \in Nat
    /\ Outputs \subseteq Seq({"line", "part"})
    /\ Mortal \subseteq Shells
    /\ Interruptible \subseteq Clients
    /\ Faults \subseteq FaultNames

VARIABLES
    \* the daemon's main()
    pc,                 \* where main() is
    rsysd_loop, rsysd_sig_received,
    rdListen, rdShells, rdClients,  \* what is left to handle of select()'s result
    nb_ready,
    todo,               \* the list of clients from the loop's cursor on
    \* its contexts
    rsysd_clients,      \* the linked list, most recent client first
    rsysd_fdset,        \* the clients' sockets in the set of select()
    client_state, client_shell,
    shell_state, shell_client, shell_status,
    \* the PDIP objects and the shells behind them
    outstanding,        \* data read from the terminal and not returned yet
    pty,                \* text written by the shell and not read yet
    stdin,              \* lines sent to the shell and not read by it yet
    job,                \* what the running command has still to print
    last,               \* the command "$?" is about
    alive,
    \* the client processes and the sockets
    clst,               \* where the client is in rsystem()
    ncmd,               \* number of the last rsystem() call
    shown,              \* what this call has displayed
    ret,                \* what it returned: a status, or << >> for -1
    backlog,            \* connections not accepted yet
    srv,                \* the daemon's end of the connection
    c2s, s2c,           \* the two directions of the socket
    \* history
    said,               \* what the client's current command has printed
    started,            \* the commands a shell has begun to run
    desynced,           \* the shells put FREE after a failure, while they had
                        \* something to write yet
    misled              \* the clients such a shell has served, or to which a
                        \* write has failed

mainVars   == <<rsysd_loop, rsysd_sig_received, rdListen, rdShells, rdClients, nb_ready, todo>>
listVars   == <<rsysd_clients, rsysd_fdset>>
ctxVars    == <<client_state, client_shell, shell_state, shell_client, shell_status>>
shellVars  == <<job, last, alive>>
procVars   == <<clst, ncmd, shown, ret>>
histVars   == <<said, started>>
ptyVars    == <<outstanding, pty>>
daemonVars == <<mainVars, listVars, ctxVars, outstanding, desynced, misled>>
vars == <<pc, mainVars, listVars, ctxVars, ptyVars, stdin, shellVars, procVars,
          backlog, srv, c2s, s2c, histVars, desynced, misled>>

\* A command is the n-th call on connection c; 0 stands for no command.
Cmd == (Clients \cup {NoClient}) \X (0..MaxCmds)
NoCmd == <<NoClient, 0>>
Token == [k : Kinds, of : Cmd, i : Nat]
Input == [k : {"cmd", "status"}, of : Cmd]
Packet == [k : {"hdr", "body"}, n : 0..MaxCmds]
Msg == [type : {"DISPLAY", "EOC", "BUSY", "OOM", "TORN"}, data : Seq(Token)]

ShellStates == {"FREE", "ALLOCATED", "WAIT_EOC", "WAIT_STATUS", "FREEING"}
Stopped == {"exited", "killed", "aborted"}
PcStates == {"loop", "select", "accept", "shells", "recv", "clients", "read",
             "next", "end"} \cup Stopped

\* The types of main()'s variables, of the contexts, of the shells with their
\* PDIP objects, and of the clients with their sockets.
MainType ==
    /\ pc \in PcStates
    /\ rsysd_loop \in BOOLEAN /\ rsysd_sig_received \in BOOLEAN
    /\ rdListen \in BOOLEAN /\ rdShells \subseteq Shells /\ rdClients \subseteq Clients
    /\ nb_ready \in Nat
    /\ todo \in Seq(Clients) /\ rsysd_clients \in Seq(Clients)
    /\ rsysd_fdset \subseteq Clients

ContextType ==
    /\ client_state \in [Clients -> {"NONE", "FREE", "ALLOCATED"}]
    /\ client_shell \in [Clients -> Shells \cup {NoShell}]
    /\ shell_state \in [Shells -> ShellStates]
    /\ shell_client \in [Shells -> Clients \cup {NoClient}]
    /\ shell_status \in [Shells -> Seq(Token)]

ShellType ==
    /\ outstanding \in [Shells -> Seq(Token)] /\ pty \in [Shells -> Seq(Token)]
    /\ stdin \in [Shells -> Seq(Input)] /\ job \in [Shells -> Seq(Token)]
    /\ last \in [Shells -> Cmd] /\ alive \in [Shells -> BOOLEAN]

SocketType ==
    /\ clst \in [Clients -> {"off", "idle", "body", "wait", "failed", "gone"}]
    /\ ncmd \in [Clients -> 0..MaxCmds]
    /\ shown \in [Clients -> Seq(Token)] /\ ret \in [Clients -> Seq(Token)]
    /\ backlog \in Seq(Clients)
    /\ srv \in [Clients -> {"none", "backlog", "open", "graceful", "closed"}]
    /\ c2s \in [Clients -> Seq(Packet)] /\ s2c \in [Clients -> Seq(Msg)]
    /\ said \in [Clients -> Seq(Token)] /\ started \subseteq Cmd
    /\ desynced \subseteq Shells /\ misled \subseteq Clients

\* Every variable has its type: in particular nb_ready never goes below 0.
TypeOK == MainType /\ ContextType /\ ShellType /\ SocketType

\* The daemon has created its shells, read their first prompts and opened its
\* socket: main() is about to enter its loop.
Init ==
    /\ pc = "loop"
    /\ rsysd_loop = TRUE /\ rsysd_sig_received = FALSE
    /\ rdListen = FALSE /\ rdShells = {} /\ rdClients = {} /\ nb_ready = 0
    /\ todo = << >> /\ rsysd_clients = << >> /\ rsysd_fdset = {}
    /\ client_state = [c \in Clients |-> "NONE"]
    /\ client_shell = [c \in Clients |-> NoShell]
    /\ shell_state = [s \in Shells |-> "FREE"]
    /\ shell_client = [s \in Shells |-> NoClient]
    /\ shell_status = [s \in Shells |-> << >>]
    /\ outstanding = [s \in Shells |-> << >>] /\ pty = [s \in Shells |-> << >>]
    /\ stdin = [s \in Shells |-> << >>] /\ job = [s \in Shells |-> << >>]
    /\ last = [s \in Shells |-> NoCmd] /\ alive = [s \in Shells |-> TRUE]
    /\ clst = [c \in Clients |-> "off"] /\ ncmd = [c \in Clients |-> 0]
    /\ shown = [c \in Clients |-> << >>] /\ ret = [c \in Clients |-> << >>]
    /\ backlog = << >> /\ srv = [c \in Clients |-> "none"]
    /\ c2s = [c \in Clients |-> << >>] /\ s2c = [c \in Clients |-> << >>]
    /\ said = [c \in Clients |-> << >>] /\ started = {}
    /\ desynced = {} /\ misled = {}

-----------------------------------------------------------------------------
(* The client library (rsystem.c), one call at a time on a connection.     *)

\* The daemon's end is closed: by the daemon, or by the kernel when it ends.
Hungup(c) == srv[c] = "closed" \/ pc \in Stopped

\* rsys_connect(): the connection waits in the backlog until it is accepted.
rsys_lib_initialize(c) ==
    /\ clst[c] = "off"
    /\ IF pc \in Stopped
       THEN clst' = [clst EXCEPT ![c] = "failed"] /\ UNCHANGED <<backlog, srv>>
       ELSE /\ clst' = [clst EXCEPT ![c] = "idle"]
            /\ backlog' = Append(backlog, c)
            /\ srv' = [srv EXCEPT ![c] = "backlog"]
    /\ UNCHANGED <<pc, daemonVars, pty, stdin, shellVars, ncmd, shown, ret, c2s, s2c, histVars>>

\* A write to a connection the daemon has closed raises SIGPIPE in the client.
ClientWrite(c, packet, then) ==
    IF Hungup(c)
    THEN clst' = [clst EXCEPT ![c] = "gone"] /\ UNCHANGED c2s
    ELSE /\ clst' = [clst EXCEPT ![c] = then]
         /\ c2s' = [c2s EXCEPT ![c] = Append(@, packet)]

\* rsystem() writes the header of the command, then the command itself.
rsystem_header(c) ==
    /\ clst[c] = "idle"
    /\ ncmd[c] < MaxCmds
    /\ ncmd' = [ncmd EXCEPT ![c] = @ + 1]
    /\ shown' = [shown EXCEPT ![c] = << >>]
    /\ ret' = [ret EXCEPT ![c] = << >>]
    /\ said' = [said EXCEPT ![c] = << >>]
    /\ ClientWrite(c, [k |-> "hdr", n |-> ncmd[c] + 1], "body")
    /\ UNCHANGED <<pc, daemonVars, pty, stdin, shellVars, backlog, srv, s2c, started>>

rsystem_body(c) ==
    /\ clst[c] = "body"
    /\ ClientWrite(c, [k |-> "body", n |-> ncmd[c]], "wait")
    /\ UNCHANGED <<pc, daemonVars, pty, stdin, shellVars, ncmd, shown, ret, backlog, srv, s2c, histVars>>

\* A message of which the first bytes only were written.
Torn == [type |-> "TORN", data |-> << >>]
Cut == {<< >>, <<Torn>>}

\* The reading loop of rsystem(): a display is printed, anything else ends
\* the call. EOC carries the status, << >> being the dummy status -1.
rsystem_reply(c) ==
    /\ clst[c] = "wait"
    /\ s2c[c] # << >>
    /\ s2c' = [s2c EXCEPT ![c] = Tail(@)]
    /\ \/ /\ Head(s2c[c]).type = "DISPLAY"
          /\ shown' = [shown EXCEPT ![c] = @ \o Head(s2c[c]).data]
          /\ UNCHANGED <<clst, ret>>
       \/ /\ Head(s2c[c]).type = "EOC"
          /\ clst' = [clst EXCEPT ![c] = "idle"]
          /\ ret' = [ret EXCEPT ![c] = Head(s2c[c]).data]
          /\ UNCHANGED shown
       \/ /\ Head(s2c[c]).type \in {"BUSY", "OOM"}
          /\ clst' = [clst EXCEPT ![c] = "idle"]
          /\ UNCHANGED <<shown, ret>>
    /\ UNCHANGED <<pc, daemonVars, pty, stdin, shellVars, ncmd, backlog, srv, c2s, histVars>>

\* The rest of a message written in part never comes: the bytes of the next
\* ones are taken for it, and the reading goes on in the middle of a message.
\* rsystem() still waits then, or a type it does not know, or a status made of
\* these bytes, ends the call; that value is not kept.
rsystem_torn(c) ==
    /\ clst[c] = "wait"
    /\ s2c[c] # << >> /\ Head(s2c[c]).type = "TORN"
    /\ \E n \in 1..Len(s2c[c]), part \in Cut :
          s2c' = [s2c EXCEPT ![c] = part \o SubSeq(@, n + 1, Len(@))]
    /\ \E st \in {"wait", "idle"} : clst' = [clst EXCEPT ![c] = st]
    /\ UNCHANGED <<pc, daemonVars, pty, stdin, shellVars, ncmd, shown, ret, backlog, srv, c2s, histVars>>

\* read() fails: the daemon is gone or has closed the connection, or a signal
\* interrupts the client. rsystem() returns -1 and forgets the exchange.
rsystem_error(c) ==
    /\ clst[c] = "wait"
    /\ \/ s2c[c] = << >> /\ Hungup(c)
       \/ c \in Interruptible
    /\ clst' = [clst EXCEPT ![c] = "idle"]
    /\ UNCHANGED <<pc, daemonVars, pty, stdin, shellVars, ncmd, shown, ret, backlog, srv, c2s, s2c, histVars>>

\* The process ends, at any point: the kernel closes its end of the socket.
rsys_lib_exit(c) ==
    /\ clst[c] \in {"idle", "body", "wait"}
    /\ clst' = [clst EXCEPT ![c] = "gone"]
    /\ s2c' = [s2c EXCEPT ![c] = << >>]
    /\ shown' = [shown EXCEPT ![c] = << >>]
    /\ ret' = [ret EXCEPT ![c] = << >>]
    /\ said' = [said EXCEPT ![c] = << >>]
    /\ UNCHANGED <<pc, daemonVars, pty, stdin, shellVars, ncmd, backlog, srv, c2s, started>>

-----------------------------------------------------------------------------
(* The shells: /bin/sh behind the pseudo terminal of a PDIP object. They   *)
(* end with the daemon, which holds the other side of the terminal.        *)

\* The shell reads its next input. A command prints one of the Outputs, the
\* status request prints "$?"; the prompt follows.
ShellStart(s) ==
    /\ pc \notin Stopped
    /\ alive[s] /\ job[s] = << >> /\ stdin[s] # << >>
    /\ stdin' = [stdin EXCEPT ![s] = Tail(@)]
    /\ LET in == Head(stdin[s]) IN
       \/ /\ in.k = "cmd"
          /\ \E out \in Outputs :
                job' = [job EXCEPT ![s] =
                    [j \in 1..Len(out) |-> [k |-> out[j], of |-> in.of, i |-> j]]
                    \o <<[k |-> "prompt", of |-> in.of, i |-> 0]>>]
          /\ last' = [last EXCEPT ![s] = in.of]
          /\ started' = started \cup {in.of}
       \/ /\ in.k = "status"
          /\ job' = [job EXCEPT ![s] = <<[k |-> "status", of |-> last[s], i |-> 0],
                                         [k |-> "prompt", of |-> last[s], i |-> 0]>>]
          /\ UNCHANGED <<last, started>>
    /\ UNCHANGED <<pc, daemonVars, pty, alive, procVars, backlog, srv, c2s, s2c, said>>

\* The running command writes its next token on the terminal.
ShellEmit(s) ==
    /\ pc \notin Stopped
    /\ alive[s] /\ job[s] # << >>
    /\ job' = [job EXCEPT ![s] = Tail(@)]
    /\ pty' = [pty EXCEPT ![s] = Append(@, Head(job[s]))]
    /\ said' = [c \in Clients |->
                   IF Head(job[s]).k \in {"line", "part"} /\ Head(job[s]).of = <<c, ncmd[c]>> /\ clst[c] # "gone"
                   THEN Append(said[c], Head(job[s])) ELSE said[c]]
    /\ UNCHANGED <<pc, daemonVars, stdin, last, alive, procVars, backlog, srv, c2s, s2c, started>>

\* The shell ends; what it has written can still be read.
ShellDie(s) ==
    /\ pc \notin Stopped
    /\ s \in Mortal /\ alive[s]
    /\ alive' = [alive EXCEPT ![s] = FALSE]
    /\ job' = [job EXCEPT ![s] = << >>]
    /\ stdin' = [stdin EXCEPT ![s] = << >>]
    /\ UNCHANGED <<pc, daemonVars, pty, last, procVars, backlog, srv, c2s, s2c, histVars>>

-----------------------------------------------------------------------------
(* The daemon: helpers.                                                    *)

EOC(status) == [type |-> "EOC", data |-> status]
Display(d) == IF d = << >> THEN << >> ELSE <<[type |-> "DISPLAY", data |-> d]>>

\* No memory in pdip_recv(), or a write that fails.
MayFail(fault) == fault \in Faults /\ Cardinality(desynced) + Cardinality(misled) < MaxFailures

\* A blocking write waits for the client to read when its socket is full.
Room(c, msgs) == msgs = << >> \/ s2c[c] = << >> \/ Len(s2c[c]) + Len(msgs) <= SocketRoom

\* rsys_send_msg(), rsys_send_eoc(), rsys_send_msg_data(): the daemon writes
\* msgs to client c and goes on at "then". Nobody ignores SIGPIPE, so a write
\* to a client that has closed its end kills the daemon; so does a null c.
Write(c, msgs, then) ==
    IF c = NoClient
    THEN pc' = "aborted" /\ UNCHANGED s2c
    ELSE IF msgs # << >> /\ clst[c] = "gone"
    THEN pc' = "killed" /\ UNCHANGED s2c
    ELSE Room(c, msgs) /\ pc' = then /\ s2c' = [s2c EXCEPT ![c] = @ \o msgs]

\* write() returns less than it was given: a signal interrupted it (SIGCHLD,
\* which the PDIP library catches without SA_RESTART) or it fails. It is not
\* tried again. Of what was to be written the client gets one of "got".
WriteFails(c, got, then) ==
    /\ MayFail("write")
    /\ c # NoClient /\ clst[c] # "gone"
    /\ \E msgs \in got : Room(c, msgs) /\ s2c' = [s2c EXCEPT ![c] = @ \o msgs]
    /\ pc' = then
    /\ misled' = misled \cup {c}

\* The result of the write of the last message is ignored. The clients "also"
\* are misled whatever becomes of it.
Deliver(c, msgs, then, also) ==
    \/ Write(c, msgs, then) /\ misled' = misled \cup also
    \/ WriteFails(c, {Front(msgs) \o part : part \in Cut}, then)

\* pdip_recv() on the PDIP object of shell s, when it does not lack memory: its
\* outcomes. There is none while the read blocks.
Received(s) ==
    IF RecvOutstanding(outstanding[s]) # {}
    THEN {[rc |-> r.rc, display |-> r.display, left |-> r.left, unread |-> pty[s]] :
             r \in RecvOutstanding(outstanding[s])}
    ELSE IF pty[s] = << >>
    THEN IF alive[s] THEN {}
         ELSE {[rc |-> "ERROR", display |-> << >>, left |-> outstanding[s], unread |-> << >>]}
    ELSE UNION {{[rc |-> r.rc, display |-> r.display, left |-> r.left,
                  unread |-> SubSeq(pty[s], n + 1, Len(pty[s]))] :
                    r \in RecvRead(outstanding[s], pty[s], n)} : n \in 1..Len(pty[s])}

\* What it leaves when it lacks memory: for the caller's buffer (or to compile
\* the expression), for the n tokens it has read, or for the end of line it
\* has to put aside.
NoMemory(s) ==
    LET data(n) == outstanding[s] \o SubSeq(pty[s], 1, n)
        outcome(left, n) == [rc |-> "NOMEM", display |-> << >>, left |-> left,
                             unread |-> SubSeq(pty[s], n + 1, Len(pty[s]))]
        reads == IF RecvOutstanding(outstanding[s]) = {} THEN 1..Len(pty[s]) ELSE {}
    IN  {outcome(outstanding[s], 0)}
        \cup {outcome(<< >>, n) : n \in {m \in reads : outstanding[s] # << >>}}
        \cup {outcome(data(n), n) : n \in {m \in reads : \E r \in Scan(data(m)) :
                                                r.rc = "DATA" /\ r.left # << >>}}

pdip_recv(s) == Received(s) \cup {r \in NoMemory(s) : MayFail("nomem")}

\* pdip_send() when it succeeds. It fails once the library has noticed that
\* the shell is dead; until then what is sent to a dead shell is lost.
pdip_send(s, in) == stdin' = [stdin EXCEPT ![s] = Append(@, in)]

\* The assertions of rsysd_send_cmd() and rsysd_unlink_client().
Linked(s) == shell_client[s] # NoClient /\ client_shell[shell_client[s]] # NoShell

\* rsysd_unlink_client() separates the client from the shell, which goes to
\* the FREE state.
Release(s) ==
    /\ client_shell' = [client_shell EXCEPT ![shell_client[s]] = NoShell]
    /\ shell_client' = [shell_client EXCEPT ![s] = NoClient]
    /\ shell_state' = [shell_state EXCEPT ![s] = "FREE"]

\* Mutant: the client is separated from its shell without its last messages.
SilentRelease(s, msgs, then, lost) ==
    /\ pc' = then /\ UNCHANGED <<s2c, desynced, misled>>
    /\ Release(s)

\* msgs go to the client, which is then separated from the shell. In "lost" is
\* s, when the shell has still something to write.
DeliverAndRelease(s, msgs, then, lost) ==
    IF Linked(s)
    THEN /\ Deliver(shell_client[s], msgs, then, {shell_client[t] : t \in lost})
         /\ Release(s)
         /\ desynced' = desynced \cup lost
    ELSE pc' = "aborted" /\ UNCHANGED <<s2c, desynced, misled, client_shell, shell_client, shell_state>>

-----------------------------------------------------------------------------
(* rsysd_shell_fsm() on RSYSD_EVT_DATA: r is what pdip_recv() returned.    *)

\* The shell, unless it is dead, has still to write its prompt after outcome r.
Unfinished(s, r) == {t \in {s} : r.rc \in {"DATA", "NOMEM"}}

\* Mutant: the text that comes in the same packet as the prompt is forgotten.
DisplayLost_WAIT_EOC_DATA(s, r) ==
    LET c == shell_client[s] IN
    /\ shell_state[s] = "WAIT_EOC"
    /\ \/ /\ r.rc = "FOUND" /\ alive[s]
          /\ Write(c, << >>, "shells")
          /\ pdip_send(s, [k |-> "status", of |-> NoCmd])
          /\ shell_state' = [shell_state EXCEPT ![s] = "WAIT_STATUS"]
          /\ UNCHANGED <<client_shell, shell_client, desynced, misled>>
       \/ /\ (r.rc = "FOUND" /\ ~alive[s]) \/ r.rc \in {"ERROR", "NOMEM"}
          /\ DeliverAndRelease(s, <<EOC(<< >>)>>, "shells", Unfinished(s, r))
          /\ UNCHANGED stdin
       \/ /\ r.rc = "DATA"
          /\ Write(c, Display(r.display), "shells")
          /\ UNCHANGED <<stdin, shell_state, client_shell, shell_client, desynced, misled>>
    /\ UNCHANGED shell_status

\* The answers of a shell to its command. When the display cannot be written,
\* or pdip_recv() fails, a dummy status is sent and the shell is taken for
\* free, whether or not it is at its prompt.
Fsm_WAIT_EOC_DATA(s, r) ==
    LET c == shell_client[s] IN
    /\ shell_state[s] = "WAIT_EOC"
    /\ \/ /\ r.rc = "FOUND"
          /\ Write(c, Display(r.display), "shells")
          /\ pdip_send(s, [k |-> "status", of |-> NoCmd])
          /\ shell_state' = [shell_state EXCEPT ![s] = "WAIT_STATUS"]
          /\ UNCHANGED <<client_shell, shell_client, desynced, misled>>
       \/ /\ r.rc = "FOUND" /\ ~alive[s]
          /\ DeliverAndRelease(s, Append(Display(r.display), EOC(<< >>)), "shells", {})
          /\ UNCHANGED stdin
       \/ /\ r.rc = "DATA"
          /\ Write(c, Display(r.display), "shells")
          /\ UNCHANGED <<stdin, shell_state, client_shell, shell_client, desynced, misled>>
       \/ /\ r.rc \in {"FOUND", "DATA"} /\ r.display # << >> /\ Linked(s)
          /\ WriteFails(c, {p[1] \o p[2] : p \in Cut \X (Cut \cup {<<EOC(<< >>)>>})}, "shells")
          /\ Release(s)
          /\ desynced' = desynced \cup Unfinished(s, r)
          /\ UNCHANGED stdin
       \/ /\ r.rc \in {"ERROR", "NOMEM"}
          /\ DeliverAndRelease(s, <<EOC(<< >>)>>, "shells", Unfinished(s, r))
          /\ UNCHANGED stdin
    /\ UNCHANGED shell_status

\* rsysd_read_shell_status(): atoi() of the first line, if any, that precedes
\* the prompt; the line may have come in an earlier packet.
rsysd_read_shell_status(s, r) == IF r.display = << >> THEN shell_status[s] ELSE <<r.display[1]>>

Fsm_WAIT_STATUS_DATA(s, r) ==
    LET status == rsysd_read_shell_status(s, r) IN
    /\ shell_state[s] = "WAIT_STATUS"
    /\ \/ /\ r.rc = "FOUND"
          /\ shell_status' = [shell_status EXCEPT ![s] = status]
          /\ DeliverAndRelease(s, <<EOC(status)>>, "shells", {})
       \/ /\ r.rc = "DATA"
          /\ shell_status' = [shell_status EXCEPT ![s] = status]
          /\ pc' = "shells"
          /\ UNCHANGED <<s2c, shell_state, client_shell, shell_client, desynced, misled>>
       \/ /\ r.rc \in {"ERROR", "NOMEM"}
          /\ DeliverAndRelease(s, <<EOC(<< >>)>>, "shells", Unfinished(s, r))
          /\ UNCHANGED shell_status
    /\ UNCHANGED stdin

\* Mutant: only the end of the shell ends FREEING, not its prompt.
Stuck_FREEING_DATA(s, r) ==
    /\ shell_state[s] = "FREEING"
    /\ pc' = "shells"
    /\ shell_state' = [shell_state EXCEPT ![s] = IF r.rc = "ERROR" THEN "FREE" ELSE @]
    /\ UNCHANGED <<s2c, stdin, client_shell, shell_client, shell_status, desynced, misled>>

Fsm_FREEING_DATA(s, r) ==
    /\ shell_state[s] = "FREEING"
    /\ pc' = "shells"
    /\ \/ r.rc = "DATA" /\ UNCHANGED <<shell_state, desynced>>
       \/ /\ r.rc # "DATA"
          /\ shell_state' = [shell_state EXCEPT ![s] = "FREE"]
          /\ desynced' = desynced \cup Unfinished(s, r)
    /\ UNCHANGED <<s2c, stdin, client_shell, shell_client, shell_status, misled>>

\* The shells select() has reported are handled in the order of the table.
ShellTurn(s) ==
    /\ pc \in {"shells", "recv"}
    /\ nb_ready > 0
    /\ s \in rdShells
    /\ \A t \in rdShells : s <= t

EndShellTurn(s) ==
    /\ rdShells' = rdShells \ {s}
    /\ nb_ready' = nb_ready - 1
    /\ UNCHANGED <<rsysd_loop, rsysd_sig_received, rdListen, rdClients, todo>>

\* A shell is readable while the daemon expects its output.
ShellData(s) ==
    /\ ShellTurn(s)
    /\ \E r \in pdip_recv(s) :
          /\ r.rc # "AGAIN"
          /\ outstanding' = [outstanding EXCEPT ![s] = r.left]
          /\ pty' = [pty EXCEPT ![s] = r.unread]
          /\ \/ Fsm_WAIT_EOC_DATA(s, r)
             \/ Fsm_WAIT_STATUS_DATA(s, r)
             \/ Fsm_FREEING_DATA(s, r)
    /\ EndShellTurn(s)
    /\ UNCHANGED <<listVars, client_state, shellVars, procVars, backlog, srv, c2s, histVars>>

\* The data does not complete a line: pdip_recv() reads again, and blocks.
ShellPartialData(s) ==
    /\ ShellTurn(s)
    /\ shell_state[s] \in {"WAIT_EOC", "WAIT_STATUS", "FREEING"}
    /\ \E r \in pdip_recv(s) :
          /\ r.rc = "AGAIN"
          /\ outstanding' = [outstanding EXCEPT ![s] = r.left]
          /\ pty' = [pty EXCEPT ![s] = r.unread]
    /\ pc' = "recv"
    /\ UNCHANGED <<mainVars, listVars, ctxVars, stdin, shellVars, procVars, backlog, srv, c2s, s2c, histVars,
                   desynced, misled>>

\* DATA is not expected in the FREE and ALLOCATED states: it is left unread.
ShellUnexpectedData(s) ==
    /\ ShellTurn(s)
    /\ shell_state[s] \in {"FREE", "ALLOCATED"}
    /\ pc' = "shells"
    /\ EndShellTurn(s)
    /\ UNCHANGED <<listVars, ctxVars, ptyVars, stdin, shellVars, procVars, backlog, srv, c2s, s2c, histVars,
                   desynced, misled>>

-----------------------------------------------------------------------------
(* The main loop: select(), accept(), then the shells, then the clients.   *)

commonEnv == <<ptyVars, stdin, shellVars, procVars, c2s, histVars, desynced>>
mainEnv == <<commonEnv, misled>>

LoopTest ==
    /\ pc = "loop"
    /\ pc' = IF rsysd_loop THEN "select" ELSE "end"
    /\ UNCHANGED <<mainVars, listVars, ctxVars, backlog, srv, s2c, mainEnv>>

ReadyShells == {s \in Shells : pty[s] # << >> \/ ~alive[s]}
ReadyClients == {c \in rsysd_fdset : c2s[c] # << >> \/ clst[c] = "gone"}

\* select() returns what is readable now; it blocks while nothing is.
Select ==
    /\ pc = "select"
    /\ rdListen' = (backlog # << >>)
    /\ rdShells' = ReadyShells
    /\ rdClients' = ReadyClients
    /\ nb_ready' = (IF backlog # << >> THEN 1 ELSE 0)
                   + Cardinality(ReadyShells) + Cardinality(ReadyClients)
    /\ backlog # << >> \/ ReadyShells # {} \/ ReadyClients # {}
    /\ pc' = IF backlog # << >> THEN "accept" ELSE "shells"
    /\ UNCHANGED <<rsysd_loop, rsysd_sig_received, todo, listVars, ctxVars, backlog, srv, s2c, mainEnv>>

\* select() or accept() fails: main() leaves the loop.
MainError ==
    /\ \/ pc = "select" /\ "select" \in Faults
       \/ pc = "accept" /\ "accept" \in Faults
    /\ pc' = "end"
    /\ UNCHANGED <<mainVars, listVars, ctxVars, backlog, srv, s2c, mainEnv>>

\* accept(), rsysd_new_client() and rsysd_add_set().
Accept ==
    /\ pc = "accept"
    /\ rdListen' = FALSE /\ nb_ready' = nb_ready - 1
    /\ backlog' = Tail(backlog)
    /\ LET c == Head(backlog) IN
       /\ srv' = [srv EXCEPT ![c] = "open"]
       /\ client_state' = [client_state EXCEPT ![c] = "ALLOCATED"]
       /\ client_shell' = [client_shell EXCEPT ![c] = NoShell]
       /\ rsysd_clients' = <<c>> \o rsysd_clients
       /\ rsysd_fdset' = rsysd_fdset \cup {c}
    /\ pc' = "shells"
    /\ UNCHANGED <<rsysd_loop, rsysd_sig_received, rdShells, rdClients, todo,
                   shell_state, shell_client, shell_status, s2c, mainEnv>>

\* rsysd_new_client() has no memory: the client is told and its socket is
\* given to the graceful thread.
AcceptOutOfMemory ==
    /\ "oom" \in Faults
    /\ pc = "accept"
    /\ rdListen' = FALSE /\ nb_ready' = nb_ready - 1
    /\ backlog' = Tail(backlog)
    /\ srv' = [srv EXCEPT ![Head(backlog)] = "graceful"]
    /\ Deliver(Head(backlog), <<[type |-> "OOM", data |-> << >>]>>, "shells", {})
    /\ UNCHANGED <<rsysd_loop, rsysd_sig_received, rdShells, rdClients, todo,
                   listVars, ctxVars, commonEnv>>

\* Mutant: the loop on the clients starts at the second one.
ShellsDoneSkipsHead ==
    /\ pc = "shells"
    /\ rdShells = {} \/ nb_ready = 0
    /\ todo' = IF rsysd_clients = << >> THEN << >> ELSE Tail(rsysd_clients)
    /\ pc' = "clients"
    /\ UNCHANGED <<rsysd_loop, rsysd_sig_received, rdListen, rdShells, rdClients, nb_ready,
                   listVars, ctxVars, backlog, srv, s2c, mainEnv>>

ShellsDone ==
    /\ pc = "shells"
    /\ rdShells = {} \/ nb_ready = 0
    /\ todo' = rsysd_clients
    /\ pc' = "clients"
    /\ UNCHANGED <<rsysd_loop, rsysd_sig_received, rdListen, rdShells, rdClients, nb_ready,
                   listVars, ctxVars, backlog, srv, s2c, mainEnv>>

\* The end of the loop on the clients, with its assertion.
ClientsDone ==
    /\ pc = "clients"
    /\ todo = << >> \/ nb_ready = 0
    /\ todo' = << >>
    /\ pc' = IF nb_ready = 0 THEN "loop" ELSE "aborted"
    /\ UNCHANGED <<rsysd_loop, rsysd_sig_received, rdListen, rdShells, rdClients, nb_ready,
                   listVars, ctxVars, backlog, srv, s2c, mainEnv>>

\* Mutant: a shell whose last command still runs is taken for a free one.
FreeOrFreeing == {s \in Shells : /\ shell_state[s] \in {"FREE", "FREEING"}
                                 /\ \A t \in 1..(s - 1) : shell_state[t] \notin {"FREE", "FREEING"}}

\* rsysd_get_shell(): the first free shell of the table.
rsysd_get_shell == {s \in Shells : /\ shell_state[s] = "FREE"
                                   /\ \A t \in 1..(s - 1) : shell_state[t] # "FREE"}

\* rsysd_shell_fsm() on RSYSD_EVT_LINK. Nobody checks that the shell is at its
\* prompt.
Fsm_LINK(s, c) ==
    /\ misled' = IF s \in desynced THEN misled \cup {c} ELSE misled
    /\ shell_client' = [shell_client EXCEPT ![s] = c]
    /\ client_shell' = [client_shell EXCEPT ![c] = s]
    /\ shell_state' = [shell_state EXCEPT ![s] = "ALLOCATED"]

\* A client is readable: unless it has one, it is linked to a free shell
\* (RSYSD_EVT_LINK) before its message is read.
ClientTurn ==
    /\ pc = "clients" /\ todo # << >> /\ nb_ready > 0
    /\ Head(todo) \in rdClients
    /\ rdClients' = rdClients \ {Head(todo)} /\ nb_ready' = nb_ready - 1
    /\ LET c == Head(todo) IN
       \/ /\ client_state[c] = "ALLOCATED" /\ client_shell[c] = NoShell
          /\ \E s \in rsysd_get_shell : Fsm_LINK(s, c)
       \/ /\ \/ client_state[c] # "ALLOCATED" \/ client_shell[c] # NoShell
             \/ rsysd_get_shell = {}
          /\ UNCHANGED <<client_shell, shell_client, shell_state, misled>>
    /\ pc' = "read"
    /\ UNCHANGED <<rsysd_loop, rsysd_sig_received, rdListen, rdShells, todo, listVars,
                   client_state, shell_status, backlog, srv, s2c, commonEnv>>

readEnv == <<mainVars, listVars, ptyVars, shellVars, procVars, backlog, srv, histVars, desynced>>

\* Mutant: a client without a shell is answered before its command is read.
ReadOnlyWithShell(c) ==
    /\ Len(c2s[c]) > 1
    /\ c2s' = IF client_shell[c] = NoShell THEN c2s ELSE [c2s EXCEPT ![c] = SubSeq(@, 3, Len(@))]

\* rsysd_read_client(): the header then the command are read; main() waits
\* there, and serves nobody, while a client has sent the header only.
rsysd_read_client(c) ==
    /\ Len(c2s[c]) > 1
    /\ c2s' = [c2s EXCEPT ![c] = SubSeq(@, 3, Len(@))]

\* rsysd_shell_fsm() on RSYSD_EVT_CMD. In the ALLOCATED state the command
\* goes to the shell (rsysd_send_cmd()), or the client gets a dummy status; in
\* another state it is unexpected, and dropped.
Fsm_CMD(s, cmd) ==
    \/ /\ shell_state[s] = "ALLOCATED"
       /\ pdip_send(s, [k |-> "cmd", of |-> cmd])
       /\ shell_state' = [shell_state EXCEPT ![s] = "WAIT_EOC"]
       /\ pc' = "next"
       /\ UNCHANGED <<s2c, misled, client_state, client_shell, shell_client, shell_status>>
    \/ /\ shell_state[s] = "ALLOCATED"
       /\ ~alive[s] \/ "toolong" \in Faults
       /\ DeliverAndRelease(s, <<EOC(<< >>)>>, "next", {})
       /\ UNCHANGED <<stdin, client_state, shell_status>>
    \/ /\ shell_state[s] # "ALLOCATED"
       /\ pc' = "next"
       /\ UNCHANGED <<stdin, s2c, misled, ctxVars>>

\* The client has sent a command. Without a shell the answer is BUSY.
ClientCmd ==
    /\ pc = "read"
    /\ rsysd_read_client(Head(todo))
    /\ LET c == Head(todo)
           s == client_shell[c]
       IN
       \/ /\ s = NoShell
          /\ Deliver(c, <<[type |-> "BUSY", data |-> << >>]>>, "next", {})
          /\ UNCHANGED <<stdin, ctxVars>>
       \/ s # NoShell /\ Fsm_CMD(s, <<c, c2s[c][2].n>>)
    /\ UNCHANGED readEnv

\* rsysd_delete_client(c), with its assertion.
rsysd_delete_client(c, then) ==
    IF c \in Clients /\ client_state[c] = "ALLOCATED"
    THEN /\ pc' = then
         /\ client_state' = [client_state EXCEPT ![c] = "FREE"]
         /\ client_shell' = [client_shell EXCEPT ![c] = NoShell]
    ELSE pc' = "aborted" /\ UNCHANGED <<client_state, client_shell>>

\* Mutants: the client is not separated from the shell it leaves; a shell
\* that runs a command is said to be free at once.
KeepLink_DCNX(s) ==
    /\ rsysd_delete_client(shell_client[s], "next")
    /\ shell_state' = [shell_state EXCEPT ![s] = IF @ = "ALLOCATED" THEN "FREE" ELSE "FREEING"]
    /\ UNCHANGED shell_client

FreeAtOnce_DCNX(s) ==
    /\ rsysd_delete_client(shell_client[s], "next")
    /\ shell_client' = [shell_client EXCEPT ![s] = NoClient]
    /\ shell_state' = [shell_state EXCEPT ![s] = "FREE"]

\* rsysd_shell_fsm() on RSYSD_EVT_CLIENT_DCNX. A shell that has been given a
\* command still has to write its prompt.
Fsm_DCNX(s) ==
    IF shell_state[s] \in {"ALLOCATED", "WAIT_EOC", "WAIT_STATUS"}
    THEN /\ rsysd_delete_client(shell_client[s], "next")
         /\ shell_client' = [shell_client EXCEPT ![s] = NoClient]
         /\ shell_state' = [shell_state EXCEPT ![s] =
                               IF @ = "ALLOCATED" THEN "FREE" ELSE "FREEING"]
    ELSE pc' = "next" /\ UNCHANGED <<client_state, client_shell, shell_client, shell_state>>

\* rsysd_read_client() fails: end of connection, even after the header, or an
\* interrupted read or no memory for the command.
ClientDcnx ==
    /\ pc = "read"
    /\ LET c == Head(todo) IN
       /\ \/ clst[c] = "gone" /\ Len(c2s[c]) < 2
          \/ "read" \in Faults /\ c2s[c] # << >>
       /\ c2s' = [c2s EXCEPT ![c] = IF @ = << >> THEN @ ELSE Tail(@)]
       /\ \/ client_shell[c] # NoShell /\ Fsm_DCNX(client_shell[c])
          \/ /\ client_shell[c] = NoShell
             /\ rsysd_delete_client(c, "next")
             /\ UNCHANGED <<shell_client, shell_state>>
    /\ UNCHANGED <<readEnv, shell_status, stdin, s2c, misled>>

\* Mutant: the socket of a deleted client stays in the set of select().
NextClientKeepsFd ==
    /\ \/ pc = "next"
       \/ pc = "clients" /\ todo # << >> /\ nb_ready > 0 /\ Head(todo) \notin rdClients
    /\ todo' = Tail(todo)
    /\ LET c == Head(todo) IN
       IF client_state[c] # "FREE"
       THEN UNCHANGED <<listVars, client_state, srv>>
       ELSE /\ rsysd_clients' = SelectSeq(rsysd_clients, LAMBDA d : d # c)
            /\ client_state' = [client_state EXCEPT ![c] = "NONE"]
            /\ srv' = [srv EXCEPT ![c] = "graceful"]
            /\ UNCHANGED rsysd_fdset
    /\ pc' = "clients"
    /\ UNCHANGED <<rsysd_loop, rsysd_sig_received, rdListen, rdShells, rdClients, nb_ready,
                   client_shell, shell_state, shell_client, shell_status, backlog, s2c, mainEnv>>

\* The cursor goes to the next client; a deleted client is freed first
\* (rsysd_free_client(), with its assertions) and its socket given to the
\* graceful thread.
NextClient ==
    /\ \/ pc = "next"
       \/ pc = "clients" /\ todo # << >> /\ nb_ready > 0 /\ Head(todo) \notin rdClients
    /\ todo' = Tail(todo)
    /\ LET c == Head(todo) IN
       \/ /\ client_state[c] # "FREE"
          /\ pc' = "clients"
          /\ UNCHANGED <<listVars, client_state, srv>>
       \/ /\ client_state[c] = "FREE"
          /\ \E p \in 1..Len(rsysd_clients) :
                /\ rsysd_clients[p] = c
                /\ rsysd_clients' = RemoveAt(rsysd_clients, p)
          /\ rsysd_fdset' = rsysd_fdset \ {c}
          /\ client_state' = [client_state EXCEPT ![c] = "NONE"]
          /\ srv' = [srv EXCEPT ![c] = "graceful"]
          /\ pc' = IF client_shell[c] = NoShell THEN "clients" ELSE "aborted"
    /\ UNCHANGED <<rsysd_loop, rsysd_sig_received, rdListen, rdShells, rdClients, nb_ready,
                   client_shell, shell_state, shell_client, shell_status, backlog, s2c, mainEnv>>

\* The end of main(): the sockets are closed and the shells deleted.
MainEnd ==
    /\ pc = "end"
    /\ pc' = "exited"
    /\ alive' = [s \in Shells |-> FALSE]
    /\ job' = [s \in Shells |-> << >>]
    /\ stdin' = [s \in Shells |-> << >>]
    /\ UNCHANGED <<daemonVars, pty, last, procVars, backlog, srv, c2s, s2c, histVars>>

\* SIGTERM. It interrupts select() if main() is blocked there; between the
\* test of rsysd_loop and the system call it does not.
rsysd_signal ==
    /\ "sigterm" \in Faults
    /\ ~rsysd_sig_received /\ pc \notin Stopped
    /\ rsysd_loop' = FALSE /\ rsysd_sig_received' = TRUE
    /\ \/ pc' = pc
       \/ pc = "select" /\ pc' = "loop"
    /\ UNCHANGED <<rdListen, rdShells, rdClients, nb_ready, todo, listVars, ctxVars,
                   backlog, srv, s2c, mainEnv>>

\* Mutant: the thread waits for data, and misses the end of the connection.
CloseOnDataOnly(c) ==
    /\ pc \notin Stopped
    /\ srv[c] = "graceful"
    /\ c2s[c] # << >>
    /\ srv' = [srv EXCEPT ![c] = "closed"]
    /\ UNCHANGED <<pc, daemonVars, pty, stdin, shellVars, procVars, backlog, c2s, s2c, histVars>>

\* The graceful thread closes a socket it was given once it is readable.
GracefulClose(c) ==
    /\ pc \notin Stopped
    /\ srv[c] = "graceful"
    /\ c2s[c] # << >> \/ clst[c] = "gone"
    /\ srv' = [srv EXCEPT ![c] = "closed"]
    /\ UNCHANGED <<pc, daemonVars, pty, stdin, shellVars, procVars, backlog, c2s, s2c, histVars>>

-----------------------------------------------------------------------------
Daemon ==
    \/ LoopTest \/ Select \/ Accept \/ ShellsDone
    \/ \E s \in Shells : ShellData(s) \/ ShellPartialData(s) \/ ShellUnexpectedData(s)
    \/ ClientTurn \/ ClientCmd \/ ClientDcnx \/ NextClient \/ ClientsDone \/ MainEnd

Client(c) ==
    \/ rsys_lib_initialize(c) \/ rsystem_header(c) \/ rsystem_body(c)
    \/ rsystem_reply(c) \/ rsystem_torn(c) \/ rsystem_error(c) \/ rsys_lib_exit(c)

Shell(s) == ShellStart(s) \/ ShellEmit(s)

Next ==
    \/ Daemon \/ MainError \/ AcceptOutOfMemory \/ rsysd_signal
    \/ \E c \in Clients : Client(c) \/ GracefulClose(c)
    \/ \E s \in Shells : Shell(s) \/ ShellDie(s)

Spec == Init /\ [][Next]_vars

\* The daemon runs when it can; a client that has begun to send a command
\* sends it all and reads the answer; a command a shell runs ends some day;
\* the graceful thread is scheduled.
Fairness ==
    /\ WF_vars(Daemon)
    /\ \A c \in Clients : /\ WF_vars(rsystem_body(c))
                          /\ WF_vars(rsystem_reply(c))
                          /\ WF_vars(rsystem_error(c))
                          /\ WF_vars(GracefulClose(c))
    /\ \A s \in Shells : WF_vars(Shell(s))

FairSpec == Spec /\ Fairness

-----------------------------------------------------------------------------
(* Properties.                                                             *)

Busy == {"ALLOCATED", "WAIT_EOC", "WAIT_STATUS"}

\* The two pointers that link a shell and a client agree, in the states of
\* the shell's machine where there is a client and in no other; only a live
\* client context is linked. In particular no client is linked to a FREEING
\* shell, so that shell gets no second disconnection.
LinkInv ==
    /\ \A s \in Shells :
          /\ shell_state[s] \in Busy <=> shell_client[s] # NoClient
          /\ shell_client[s] # NoClient =>
                /\ client_shell[shell_client[s]] = s
                /\ client_state[shell_client[s]] = "ALLOCATED"
    /\ \A c \in Clients : client_shell[c] # NoShell => shell_client[client_shell[c]] = c

\* The list of clients, select()'s set and the contexts agree: each accepted
\* client is once in the list and its socket in the set, with an open
\* connection, and a deleted context does not outlive the client's turn.
ListInv ==
    /\ IsInjective(rsysd_clients) /\ IsInjective(todo) /\ IsInjective(backlog)
    /\ rsysd_fdset = Range(rsysd_clients)
    /\ \A c \in Range(backlog) : srv[c] = "backlog"
    /\ \A c \in Clients :
          /\ client_state[c] # "NONE" <=> c \in rsysd_fdset
          /\ client_state[c] # "NONE" => srv[c] = "open"
          /\ client_state[c] = "FREE" => pc = "next" /\ c = Head(todo)
          /\ clst[c] = "off" => srv[c] = "none"

\* nb_ready counts what is left to handle of select()'s result, and the loop
\* on the clients has all the readable ones in front of its cursor, although
\* clients are added to the list and removed from it during the round.
ReadyInv ==
    /\ pc = "accept" => rdListen /\ backlog # << >>
    /\ pc \in {"shells", "recv"} => ~rdListen
    /\ pc \in {"accept", "shells", "recv"} =>
          /\ rdClients \subseteq rsysd_fdset
          /\ nb_ready = (IF rdListen THEN 1 ELSE 0)
                        + Cardinality(rdShells) + Cardinality(rdClients)
    /\ pc \in {"clients", "read", "next"} =>
          /\ Range(todo) \subseteq rsysd_fdset
          /\ nb_ready = Cardinality(rdClients)
    /\ pc = "clients" => rdClients \subseteq Range(todo)
    /\ pc \in {"read", "next"} => todo # << >> /\ rdClients \subseteq Range(Tail(todo))

\* Both: a round of the main loop handles each readable descriptor once.
RoundInv == ListInv /\ ReadyInv

\* No assertion of rsystemd.c fails: on the links and states of the contexts
\* (rsysd_delete_client(), rsysd_free_client(), rsysd_unlink_client(),
\* rsysd_send_cmd()), and on nb_ready at the end of a round of the main loop.
NoAssertFails == pc # "aborted"

\* A shell that is free to serve another client is at its prompt: it has no
\* input left, runs nothing, and none of its output waits to be read, in the
\* terminal or in the PDIP object. So a client that disconnects while its
\* command runs leaves nothing behind for the next user of the shell. The
\* exception is a shell that was put FREE by a failed write of a display
\* (rsystemd.c:1148-1171) or for lack of memory in pdip_recv() (pdip_lib.c:
\* 508-512, 588-596, 1142-1148) before its prompt was read: it is never known
\* to be in step again. No other way leads to one, and it upsets no other shell.
FreeShellQuiet ==
    \A s \in Shells \ desynced :
        shell_state[s] \in {"FREE", "ALLOCATED"} /\ alive[s] =>
            /\ stdin[s] = << >> /\ job[s] = << >>
            /\ pty[s] = << >> /\ outstanding[s] = << >>

\* What rsystem() displays and returns is about its own command: every
\* message on its way to a client that no signal interrupted, and the status
\* it returned, belong to its last command, whose whole output it displayed,
\* in order, before it returned. This is not said of the misled clients: those
\* to which a write failed (rsys_msg.c:119-136), and those that were linked to
\* a shell out of step, then or later. It is said of every other client while
\* they run: the harm of a failure stays with the users of that shell.
OwnAnswers ==
    \A c \in Clients \ (Interruptible \cup misled) :
        /\ \A j \in 1..Len(s2c[c]) : \A l \in 1..Len(s2c[c][j].data) :
               s2c[c][j].data[l].of = <<c, ncmd[c]>>
        /\ ret[c] # << >> => /\ ret[c][1].k = "status"
                             /\ ret[c][1].of = <<c, ncmd[c]>>
                             /\ shown[c] = said[c]

\* A command answered by BUSY (EAGAIN in rsystem(), an invitation to try
\* again) is run by no shell, then or later: with the same exceptions.
BusyNotRun ==
    \A c \in Clients \ (Interruptible \cup misled) : \A j \in 1..Len(s2c[c]) :
        s2c[c][j].type = "BUSY" =>
            /\ <<c, ncmd[c]>> \notin started
            /\ \A s \in Shells : \A l \in 1..Len(stdin[s]) : stdin[s][l].of # <<c, ncmd[c]>>

\* A shell serves one client until it is unlinked, and goes to a new client
\* only from the FREE state: the clients' commands never share a shell.
NoSharing ==
    [][\A s \in Shells :
          /\ shell_client[s] # NoClient => shell_client'[s] \in {shell_client[s], NoClient}
          /\ shell_client'[s] \notin {shell_client[s], NoClient} => shell_state[s] = "FREE"]_vars

\* Every rsystem() call returns, unless its process ends: an answer, BUSY or
\* the end of the connection always comes.
CallReturns ==
    \A c \in Clients : clst[c] \in {"body", "wait"} ~> clst[c] \notin {"body", "wait"}

\* A shell left by its client while it runs a command serves again.
FreeingEnds ==
    \A s \in Shells : shell_state[s] = "FREEING" ~> shell_state[s] = "FREE" \/ pc \in Stopped

\* The context and the socket of a client that has gone are released.
GoneIsFreed ==
    \A c \in Clients : clst[c] = "gone" /\ client_state[c] = "ALLOCATED"
                           ~> srv[c] = "closed" \/ pc \in Stopped

-----------------------------------------------------------------------------
(* What comments, documents and tests say, and the code does not do.       *)

\* "Anyway we disconnect the client and go into the FREE state": the daemon
\* outlives a client to which it cannot write.
SurvivesWrites == pc # "killed"
=============================================================================
