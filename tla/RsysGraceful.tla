---------------------------- MODULE RsysGraceful ----------------------------
(***************************************************************************)
(* The graceful thread of rsystemd (rsys/rsystemd.c) and the part of main()*)
(* it shares descriptors with. main() gives away the sockets it has done   *)
(* with; the thread waits in select() for the client to close or to write, *)
(* then closes them. The kernel gives closed numbers again to accept().    *)
(*                                                                         *)
(* Each critical section under rsysd_graceful_lock is one step, except the *)
(* one that closes a descriptor: accept() needs no lock and may come       *)
(* between close() and the update of the set.                              *)
(***************************************************************************)
EXTENDS Integers, FiniteSets

CONSTANTS
    Listen,     \* the greatest descriptor main() always watches
    Fds,        \* the numbers the sockets of clients may have
    SelectFails \* whether the thread's select() may fail

ASSUME GracefulAssumption ==
    /\ Listen \in Nat
    /\ Fds \subseteq Nat
    /\ \A i \in Fds : i > Listen
    /\ SelectFails \in BOOLEAN

VARIABLES
    \* kernel
    fd,                 \* what each descriptor is: unused, a client's, given away
    readable,           \* the given away descriptors whose client wrote or closed
    \* main()
    rsysd_fdset, rsysd_fd_max,
    \* shared
    rsysd_graceful_fdset, rsysd_graceful_fdmax,
    lock,               \* is the lock held between two steps?
    signalled,          \* the condition was signalled while the thread waited
    \* the thread
    tpc, nfds,
    fdset,              \* the set given to select(), then what is to be closed
    closing             \* the descriptor just closed

vars == <<fd, readable, rsysd_fdset, rsysd_fd_max, rsysd_graceful_fdset,
          rsysd_graceful_fdmax, lock, signalled, tpc, nfds, fdset, closing>>
mainVars == <<rsysd_fdset, rsysd_fd_max>>
sharedVars == <<rsysd_graceful_fdset, rsysd_graceful_fdmax, lock, signalled>>
threadVars == <<tpc, nfds, fdset, closing>>

TypeOK ==
    /\ fd \in [Fds -> {"unused", "client", "given"}]
    /\ readable \subseteq Fds
    /\ rsysd_fdset \subseteq Fds \cup {Listen} /\ rsysd_fd_max \in Fds \cup {Listen}
    /\ rsysd_graceful_fdset \subseteq Fds /\ rsysd_graceful_fdmax \in Fds \cup {-1}
    /\ lock \in BOOLEAN /\ signalled \in BOOLEAN
    /\ tpc \in {"top", "wait", "select", "close", "remove", "aborted"}
    /\ nfds \in Nat /\ fdset \subseteq Fds /\ closing \in Fds \cup {-1}

Init ==
    /\ fd = [i \in Fds |-> "unused"] /\ readable = {}
    /\ rsysd_fdset = {Listen} /\ rsysd_fd_max = Listen
    /\ rsysd_graceful_fdset = {} /\ rsysd_graceful_fdmax = -1
    /\ lock = FALSE /\ signalled = FALSE
    /\ tpc = "top" /\ nfds = 0 /\ fdset = {} /\ closing = -1

\* The greatest descriptor after rsysd_add_set() and rsysd_remove_set(). The
\* latter leaves it as it is when the set becomes empty.
rsysd_add_set(i, max) == IF i > max THEN i ELSE max

\* Mutant: the search for the new maximum does not stop at the first one.
RemoveGoesToLowest(i, set, max) ==
    LET lower == {j \in set : j < i} IN
    IF max = i /\ lower # {} THEN {m \in lower : \A j \in lower : m <= j} ELSE {max}

rsysd_remove_set(i, set, max) ==
    LET lower == {j \in set : j < i} IN
    IF max = i /\ lower # {} THEN {m \in lower : \A j \in lower : j <= m} ELSE {max}

-----------------------------------------------------------------------------
(* main() and the clients.                                                 *)

\* accept() returns the lowest unused number; the socket joins main()'s set.
Accept(i) ==
    /\ fd[i] = "unused"
    /\ \A j \in Fds : j < i => fd[j] # "unused"
    /\ fd' = [fd EXCEPT ![i] = "client"]
    /\ rsysd_fdset' = rsysd_fdset \cup {i}
    /\ rsysd_fd_max' = rsysd_add_set(i, rsysd_fd_max)
    /\ UNCHANGED <<readable, sharedVars, threadVars>>

\* Mutant: the thread is not woken up.
CloseWithoutSignal(i) ==
    /\ rsysd_graceful_fdset' = rsysd_graceful_fdset \cup {i}
    /\ rsysd_graceful_fdmax' = rsysd_add_set(i, rsysd_graceful_fdmax)
    /\ UNCHANGED signalled

\* rsysd_graceful_close(): the signal is lost unless the thread waits for it.
rsysd_graceful_close(i) ==
    /\ rsysd_graceful_fdset' = rsysd_graceful_fdset \cup {i}
    /\ rsysd_graceful_fdmax' = rsysd_add_set(i, rsysd_graceful_fdmax)
    /\ signalled' = (signalled \/ tpc = "wait")

\* Mutant: main() goes on watching a socket it has given away.
FreeKeepsFd(i) ==
    /\ fd[i] = "client" /\ ~lock
    /\ rsysd_graceful_close(i)
    /\ fd' = [fd EXCEPT ![i] = "given"]
    /\ UNCHANGED <<readable, mainVars, lock, threadVars>>

\* rsysd_free_client(): the socket leaves main()'s set and is given away.
rsysd_free_client(i) ==
    /\ fd[i] = "client" /\ ~lock
    /\ rsysd_fdset' = rsysd_fdset \ {i}
    /\ \E m \in rsysd_remove_set(i, rsysd_fdset \ {i}, rsysd_fd_max) : rsysd_fd_max' = m
    /\ rsysd_graceful_close(i)
    /\ fd' = [fd EXCEPT ![i] = "given"]
    /\ UNCHANGED <<readable, lock, threadVars>>

\* No memory for the context of a new client: its socket is given away at once.
AcceptOutOfMemory(i) ==
    /\ fd[i] = "unused" /\ ~lock
    /\ \A j \in Fds : j < i => fd[j] # "unused"
    /\ rsysd_graceful_close(i)
    /\ fd' = [fd EXCEPT ![i] = "given"]
    /\ UNCHANGED <<readable, mainVars, lock, threadVars>>

\* The client of a given away socket closes its end or writes.
ClientActs(i) ==
    /\ fd[i] = "given" /\ i \notin readable
    /\ readable' = readable \cup {i}
    /\ UNCHANGED <<fd, mainVars, sharedVars, threadVars>>

-----------------------------------------------------------------------------
(* rsysd_graceful_thd().                                                   *)

Snapshot ==
    /\ nfds' = rsysd_graceful_fdmax + 1
    /\ fdset' = rsysd_graceful_fdset
    /\ tpc' = "select"

\* The top of the loop: wait on the condition if no descriptor was ever given.
ThreadTop ==
    /\ tpc = "top" /\ ~lock
    /\ IF rsysd_graceful_fdmax < 0
       THEN tpc' = "wait" /\ signalled' = FALSE /\ UNCHANGED <<nfds, fdset>>
       ELSE Snapshot /\ UNCHANGED signalled
    /\ UNCHANGED <<fd, readable, mainVars, rsysd_graceful_fdset, rsysd_graceful_fdmax, lock, closing>>

\* pthread_cond_wait() returns. It is not in a loop: the assertion that follows
\* says that the set is not empty.
Wakes ==
    /\ tpc = "wait" /\ ~lock
    /\ IF rsysd_graceful_fdmax < 0
       THEN tpc' = "aborted" /\ UNCHANGED <<nfds, fdset>>
       ELSE Snapshot
    /\ UNCHANGED <<fd, readable, mainVars, sharedVars, closing>>

ThreadWake == signalled /\ Wakes

\* POSIX allows the wait to return without a signal.
SpuriousWake == ~signalled /\ Wakes

\* The process is over once an assertion has failed.
Aborted == tpc = "aborted" /\ UNCHANGED vars

Watched == {i \in fdset : i < nfds}

\* select() reports the descriptors that are readable.
ThreadSelect ==
    /\ tpc = "select"
    /\ Watched \cap readable # {}
    /\ fdset' = Watched \cap readable
    /\ tpc' = "close"
    /\ UNCHANGED <<fd, readable, mainVars, sharedVars, nfds, closing>>

\* It returns 0 after RSYSD_GRACEFUL_TIMEOUT: the loop closes nothing.
ThreadTimeout ==
    /\ tpc = "select"
    /\ Watched \cap readable = {}
    /\ tpc' = "top"
    /\ UNCHANGED <<fd, readable, mainVars, sharedVars, nfds, fdset, closing>>

\* It fails: all the descriptors it was given are closed.
ThreadSelectError ==
    /\ tpc = "select" /\ SelectFails
    /\ fdset' = Watched
    /\ tpc' = IF Watched = {} THEN "top" ELSE "close"
    /\ UNCHANGED <<fd, readable, mainVars, sharedVars, nfds, closing>>

\* The loop on the result takes the lock and closes the next descriptor.
ThreadClose(i) ==
    /\ tpc = "close" /\ ~lock
    /\ i \in fdset /\ \A j \in fdset : i <= j
    /\ fd' = [fd EXCEPT ![i] = "unused"]
    /\ readable' = readable \ {i}
    /\ closing' = i /\ lock' = TRUE
    /\ tpc' = "remove"
    /\ UNCHANGED <<mainVars, rsysd_graceful_fdset, rsysd_graceful_fdmax, signalled, nfds, fdset>>

\* Mutant: the closed descriptor stays in the set.
ThreadRemoveForgets ==
    /\ tpc = "remove"
    /\ fdset' = fdset \ {closing}
    /\ tpc' = IF fdset' = {} THEN "top" ELSE "close"
    /\ lock' = FALSE
    /\ UNCHANGED <<fd, readable, mainVars, rsysd_graceful_fdset, rsysd_graceful_fdmax, signalled, nfds, closing>>

\* rsysd_remove_set() and the end of the critical section.
ThreadRemove ==
    /\ tpc = "remove"
    /\ rsysd_graceful_fdset' = rsysd_graceful_fdset \ {closing}
    /\ \E m \in rsysd_remove_set(closing, rsysd_graceful_fdset \ {closing}, rsysd_graceful_fdmax) :
          rsysd_graceful_fdmax' = m
    /\ fdset' = fdset \ {closing}
    /\ tpc' = IF fdset' = {} THEN "top" ELSE "close"
    /\ lock' = FALSE
    /\ UNCHANGED <<fd, readable, mainVars, signalled, nfds, closing>>

-----------------------------------------------------------------------------
Thread ==
    \/ ThreadTop \/ ThreadWake \/ ThreadSelect \/ ThreadTimeout \/ ThreadRemove
    \/ \E i \in Fds : ThreadClose(i)

Next ==
    \/ /\ tpc # "aborted"
       /\ \/ Thread \/ ThreadSelectError \/ SpuriousWake
          \/ \E i \in Fds : Accept(i) \/ AcceptOutOfMemory(i) \/ rsysd_free_client(i) \/ ClientActs(i)
    \/ Aborted

Spec == Init /\ [][Next]_vars

\* The thread is scheduled, its select() has a timeout, and main() does not
\* hold the lock for ever. Nothing makes a wait return without a signal.
FairSpec == Spec /\ WF_vars(Thread)

-----------------------------------------------------------------------------
(* Properties.                                                             *)

\* Both select() calls watch their whole set: no member is above the recorded
\* maximum, whatever the order in which numbers come, go and come again.
AllWatched ==
    /\ \A i \in rsysd_fdset : i <= rsysd_fd_max
    /\ \A i \in rsysd_graceful_fdset : i <= rsysd_graceful_fdmax

\* A descriptor the thread waits on or is about to close is one that was given
\* to it and is still open: it never closes a socket main() got by accept()
\* with the number of a closed one.
ClosesOnlyGiven ==
    /\ tpc \in {"select", "close"} => \A i \in fdset : fd[i] = "given"
    /\ tpc = "remove" => \A i \in fdset \ {closing} : fd[i] = "given"

\* A socket is never in the sets of both select() calls, but for the instant
\* between close() and rsysd_remove_set() in the thread.
OneWatcher ==
    \A i \in rsysd_fdset \cap rsysd_graceful_fdset : tpc = "remove" /\ i = closing

\* What the invariants rest on: the thread's set holds the descriptors given
\* to it and not closed, and the one being closed; main()'s set holds clients;
\* the lock is held between two steps by the thread that is closing; a signal
\* means that the set was not empty, and its maximum never goes back to -1.
Ownership ==
    /\ \A i \in Fds : i \in rsysd_graceful_fdset => fd[i] = "given" \/ (tpc = "remove" /\ i = closing)
    /\ \A i \in Fds : i \in rsysd_fdset => fd[i] = "client"
    /\ tpc \in {"select", "close", "remove"} => fdset \subseteq rsysd_graceful_fdset
    /\ lock <=> tpc = "remove"
    /\ lock => closing \in Fds /\ fd[closing] # "given"
    /\ signalled => rsysd_graceful_fdmax >= 0

\* A socket that was given away, and whose client has acted, is closed.
GivenIsClosed ==
    \A i \in Fds : fd[i] = "given" /\ i \in readable ~> fd[i] # "given"

\* "We must have opened file descriptors": the assertion after the wait fails only
\* when the wait returned without a signal, which nothing in the code excludes;
\* whenever main() has signalled, there is a descriptor to watch.
OnlySpurious == [][tpc' = "aborted" /\ tpc # "aborted" => ~signalled]_vars
=============================================================================
