----------------------------- MODULE PdipObject -----------------------------
(***************************************************************************)
(* The objects of the PDIP library (pdip_lib.c) and the processes they     *)
(* control: pdip_new(), pdip_exec(), pdip_status(), pdip_sig(),            *)
(* pdip_delete(), the handler of SIGCHLD, and what fork() does of the      *)
(* library in the child.                                                   *)
(*                                                                         *)
(* One thread of the application calls the library. SIGCHLD may be handled *)
(* by that thread, between any two of its steps, or by another thread.     *)
(* What the library does with SIGCHLD masked is one step when it only      *)
(* touches one field, or when the handler reads none of the others.        *)
(***************************************************************************)
EXTENDS Naturals, FiniteSets

CONSTANTS
    Objects,        \* pdip_t pointers
    NoObject,       \* the null pointer
    MaxPid,         \* bound: processes that may be forked
    NbCpus,         \* the number of CPUs
    Affinities,     \* the bitmaps pdip_new() may be given
    NoMap,          \* no bitmap
    OtherThread     \* another thread of the application may handle SIGCHLD

Pids == 1..MaxPid
NoPid == 0
Cpus == 0..(NbCpus - 1)
Threads == IF OtherThread THEN {"main", "other"} ELSE {"main"}

ASSUME PdipObjectAssumption ==
    /\ NoObject \notin Objects
    /\ MaxPid \in Nat
    /\ NbCpus \in Nat \ {0}
    /\ Affinities \subseteq SUBSET Cpus /\ \A map \in SUBSET Cpus : map # NoMap
    /\ OtherThread \in BOOLEAN

VARIABLES
    \* the objects
    pdip_ctx_list,  \* those the handler can find
    state, pid, status, cpu,
    \* the calling thread
    pc, cur,        \* the call in progress and its object
    ctn,            \* who called pdip_wait_child() or pdip_check_child()
    rc,             \* what they returned
    lpid, lstatus,  \* local copies of the fields
    masked,         \* SIGCHLD is masked between two steps
    exiting,        \* pdip_lib_exit() has begun
    \* the handlers: where, the pid that signals, the object found
    hpc, hsi, hctx,
    \* the kernel
    proc, affinity,
    killed,         \* processes to which SIGKILL was sent
    pending,        \* the pid of the pending SIGCHLD: the signal is not queued
    \* history
    mine,           \* the process forked for an object by its last pdip_exec()
    ret             \* the last status returned, and whose it should be

objVars == <<pdip_ctx_list, state, pid, status, cpu>>
localVars == <<cur, ctn, rc, lpid, lstatus, masked, exiting>>
hdlVars == <<hpc, hsi, hctx>>
kernelVars == <<proc, affinity, killed, pending>>
histVars == <<mine, ret>>
vars == <<objVars, pc, localVars, hdlVars, kernelVars, histVars>>

InCall == {"exec", "forked", "pid_set", "alive", "wait", "waitpid", "check", "nohang",
           "update", "return", "term", "sleep", "kill", "unlink", "free"}
Callers == {"status", "term", "slept", "killed", "zombie"}
PidOrNone == Pids \cup {NoPid}

TypeOK ==
    /\ pdip_ctx_list \subseteq Objects
    /\ state \in [Objects -> {"NONE", "INIT", "ALIVE", "ZOMBIE", "DEAD"}]
    /\ pid \in [Objects -> PidOrNone] /\ status \in [Objects -> PidOrNone]
    /\ cpu \in [Objects -> {NoMap} \cup SUBSET Cpus]
    /\ pc \in InCall \cup {"idle", "aborted"} /\ cur \in Objects \cup {NoObject}
    /\ pc \in InCall => cur \in Objects
    /\ ctn \in Callers /\ rc \in {"dead", "alive", "error"}
    /\ lpid \in PidOrNone /\ lstatus \in PidOrNone
    /\ masked \in BOOLEAN /\ exiting \in BOOLEAN
    /\ hpc \in [Threads -> {"off", "lookup", "update"}]
    /\ hsi \in [Threads -> PidOrNone] /\ hctx \in [Threads -> Objects \cup {NoObject}]
    /\ \A t \in Threads : hpc[t] = "update" => hctx[t] \in Objects
    /\ proc \in [Pids -> {"none", "running", "zombie", "reaped"}]
    /\ affinity \in [Pids -> SUBSET Cpus]
    /\ killed \subseteq Pids /\ pending \in PidOrNone
    /\ mine \in [Objects -> PidOrNone] /\ ret \in [st : PidOrNone, own : PidOrNone]

Init ==
    /\ pdip_ctx_list = {} /\ state = [o \in Objects |-> "NONE"]
    /\ pid = [o \in Objects |-> NoPid] /\ status = [o \in Objects |-> NoPid]
    /\ cpu = [o \in Objects |-> NoMap]
    /\ pc = "idle" /\ cur = NoObject /\ ctn = "status" /\ rc = "error"
    /\ lpid = NoPid /\ lstatus = NoPid /\ masked = FALSE /\ exiting = FALSE
    /\ hpc = [t \in Threads |-> "off"] /\ hsi = [t \in Threads |-> NoPid]
    /\ hctx = [t \in Threads |-> NoObject]
    /\ proc = [p \in Pids |-> "none"] /\ affinity = [p \in Pids |-> Cpus]
    /\ killed = {} /\ pending = NoPid
    /\ mine = [o \in Objects |-> NoPid] /\ ret = [st |-> NoPid, own |-> NoPid]

-----------------------------------------------------------------------------
\* The calling thread is at l, and no handler interrupts it.
At(l) == pc = l /\ hpc["main"] = "off"

\* SIGCHLD about p; it is lost if another one waits to be handled.
Sigchld(p) == pending' = IF pending = NoPid THEN p ELSE pending

(* pdip_new() and pdip_exec().                                             *)

\* pdip_init_ctx(), pdip_set_user_cfg() and the insertion in the list, which
\* needs the lock: a handler holds it only while it looks for an object.
pdip_new(o) ==
    /\ At("idle") /\ ~exiting
    /\ state[o] = "NONE"
    /\ pdip_ctx_list' = pdip_ctx_list \cup {o}
    /\ state' = [state EXCEPT ![o] = "INIT"]
    /\ pid' = [pid EXCEPT ![o] = NoPid] /\ status' = [status EXCEPT ![o] = NoPid]
    /\ \E map \in Affinities \cup {NoMap} : cpu' = [cpu EXCEPT ![o] = map]
    /\ mine' = [mine EXCEPT ![o] = NoPid]
    /\ UNCHANGED <<pc, localVars, hdlVars, kernelVars, ret>>

\* The bitmap after pdip_get_user_cfg(), pdip_free_resources() and
\* pdip_set_user_cfg(): it is copied from memory that has just been freed.
SavedMap(o) == IF cpu[o] = NoMap THEN {NoMap} ELSE SUBSET Cpus

\* Mutant: the fields of the last process are kept.
ReuseAsItIs(o) == pc' = "exec" /\ cur' = o /\ UNCHANGED <<state, pid, status, cpu>>

\* The object of a dead process is used again: its fields are reinitialised.
Reuse(o) ==
    /\ pc' = "exec" /\ cur' = o
    /\ state' = [state EXCEPT ![o] = "INIT"]
    /\ pid' = [pid EXCEPT ![o] = NoPid] /\ status' = [status EXCEPT ![o] = NoPid]
    /\ \E map \in SavedMap(o) : cpu' = [cpu EXCEPT ![o] = map]

\* pdip_exec() refuses an object whose process is ALIVE or a ZOMBIE.
pdip_exec(o) ==
    /\ At("idle") /\ ~exiting
    /\ \/ state[o] = "INIT" /\ pc' = "exec" /\ cur' = o /\ UNCHANGED <<state, pid, status, cpu>>
       \/ state[o] = "DEAD" /\ Reuse(o)
    /\ mine' = [mine EXCEPT ![o] = NoPid]
    /\ UNCHANGED <<pdip_ctx_list, ctn, rc, lpid, lstatus, masked, exiting, hdlVars, kernelVars, ret>>

\* No memory, no terminal or no process: the fields are reinitialised. The
\* bitmap may have been lost with the memory.
ExecFails ==
    /\ At("exec")
    /\ state' = [state EXCEPT ![cur] = "INIT"]
    /\ \E map \in SavedMap(cur) \cup {NoMap} : cpu' = [cpu EXCEPT ![cur] = map]
    /\ pc' = "idle"
    /\ UNCHANGED <<pdip_ctx_list, pid, status, localVars, hdlVars, kernelVars, histVars>>

\* pdip_cpu_isset() where pdip_nb_cpu is nb: -1 is an error, and is true in C.
pdip_cpu_isset(map, nb, n) == IF n >= nb THEN "-1" ELSE IF n \in map THEN "1" ELSE "0"

\* pdip_nb_cpu in the child: pdip_child_fork() has run before fork() returns.
pdip_child_fork == 0

\* The CPUs the child asks for before execvp(); without any it asks nothing.
ChildMask(o) ==
    LET mask == {n \in Cpus : pdip_cpu_isset(cpu[o], pdip_child_fork, n) # "0"} IN
    IF cpu[o] = NoMap \/ mask = {} THEN Cpus ELSE mask

\* fork(); the child runs from here on.
Fork ==
    /\ At("exec")
    /\ \E p \in Pids :
          /\ proc[p] = "none" /\ \A q \in Pids : proc[q] = "none" => p <= q
          /\ proc' = [proc EXCEPT ![p] = "running"]
          /\ affinity' = [affinity EXCEPT ![p] = ChildMask(cur)]
          /\ mine' = [mine EXCEPT ![cur] = p]
          /\ lpid' = p
    /\ pc' = "forked"
    /\ UNCHANGED <<objVars, cur, ctn, rc, lstatus, masked, exiting, hdlVars, killed, pending, ret>>

\* The father notes the pid; only then can the handler find the object.
SetPid ==
    /\ At("forked")
    /\ pid' = [pid EXCEPT ![cur] = lpid]
    /\ pc' = "pid_set"
    /\ UNCHANGED <<pdip_ctx_list, state, status, cpu, localVars, hdlVars, kernelVars, histVars>>

\* Mutant: the state is not looked at.
CheckNothing == masked' = TRUE /\ pc' = "alive"

\* SIGCHLD is masked. The process may be dead already; another state than
\* ZOMBIE fails an assertion.
CheckState ==
    \/ state[cur] = "INIT" /\ masked' = TRUE /\ pc' = "alive"
    \/ state[cur] = "ZOMBIE" /\ masked' = FALSE /\ pc' = "idle"
    \/ state[cur] \notin {"INIT", "ZOMBIE"} /\ masked' = masked /\ pc' = "aborted"

ExecCheck ==
    /\ At("pid_set")
    /\ CheckState
    /\ UNCHANGED <<objVars, cur, ctn, rc, lpid, lstatus, exiting, hdlVars, kernelVars, histVars>>

ExecAlive ==
    /\ At("alive")
    /\ state' = [state EXCEPT ![cur] = "ALIVE"]
    /\ masked' = FALSE
    /\ pc' = "idle"
    /\ UNCHANGED <<pdip_ctx_list, pid, status, cpu, cur, ctn, rc, lpid, lstatus, exiting,
                   hdlVars, kernelVars, histVars>>

-----------------------------------------------------------------------------
(* pdip_status() and the functions it shares with pdip_delete().           *)

\* A blocking call is made for an object that has a process, as the manual
\* asks; a non blocking one at any time.
pdip_status(o, blocking) ==
    /\ At("idle") /\ ~exiting
    /\ o \in pdip_ctx_list
    /\ blocking => state[o] # "INIT"
    /\ pc' = IF blocking THEN "wait" ELSE "check"
    /\ cur' = o /\ ctn' = "status"
    /\ UNCHANGED <<objVars, rc, lpid, lstatus, masked, exiting, hdlVars, kernelVars, histVars>>

\* The beginning of pdip_wait_child() and pdip_check_child(): the fields are
\* copied; a process marked dead is not waited for.
ChildFields ==
    /\ At("wait") \/ At("check")
    /\ lpid' = pid[cur] /\ lstatus' = status[cur]
    /\ \/ state[cur] = "DEAD" /\ rc' = "dead" /\ pc' = "return"
       \/ state[cur] = "INIT" /\ pc = "check" /\ rc' = "error" /\ pc' = "return"
       \/ /\ state[cur] \in {"ALIVE", "ZOMBIE"}
          /\ pc' = IF pc = "wait" THEN "waitpid" ELSE "nohang"
          /\ UNCHANGED rc
    /\ UNCHANGED <<objVars, cur, ctn, masked, exiting, hdlVars, kernelVars, histVars>>

\* waitpid(lpid): it gives the status of a dead process, and blocks while the
\* process lives unless it is called with WNOHANG.
waitpid ==
    /\ At("waitpid") \/ At("nohang")
    /\ \/ /\ proc[lpid] = "zombie"
          /\ proc' = [proc EXCEPT ![lpid] = "reaped"]
          /\ lstatus' = lpid
          /\ pc' = "update" /\ UNCHANGED rc
       \/ /\ pc = "nohang" /\ proc[lpid] = "running"
          /\ rc' = "alive" /\ pc' = "return" /\ UNCHANGED <<proc, lstatus>>
    /\ UNCHANGED <<objVars, cur, ctn, lpid, masked, exiting, hdlVars, affinity, killed, pending, histVars>>

\* Mutant: the status of the dead process is not kept.
UpdateForgetsStatus ==
    /\ At("update")
    /\ state' = [state EXCEPT ![cur] = "DEAD"]
    /\ pid' = [pid EXCEPT ![cur] = NoPid]
    /\ rc' = "dead" /\ pc' = "return"
    /\ UNCHANGED <<pdip_ctx_list, status, cpu, cur, ctn, lpid, lstatus, masked, exiting, hdlVars, kernelVars, histVars>>

\* Mutant: the pid of the dead process stays in the object.
UpdateKeepsPid ==
    /\ At("update")
    /\ status' = [status EXCEPT ![cur] = lstatus]
    /\ state' = [state EXCEPT ![cur] = "DEAD"]
    /\ rc' = "dead" /\ pc' = "return"
    /\ UNCHANGED <<pdip_ctx_list, pid, cpu, cur, ctn, lpid, lstatus, masked, exiting, hdlVars, kernelVars, histVars>>

pdip_update_dead_child ==
    /\ At("update")
    /\ status' = [status EXCEPT ![cur] = lstatus]
    /\ state' = [state EXCEPT ![cur] = "DEAD"]
    /\ pid' = [pid EXCEPT ![cur] = NoPid]
    /\ rc' = "dead" /\ pc' = "return"
    /\ UNCHANGED <<pdip_ctx_list, cpu, cur, ctn, lpid, lstatus, masked, exiting, hdlVars, kernelVars, histVars>>

\* What the callers make of the result: pdip_status() returns; when its child
\* is not dead pdip_terminate_child() sleeps, then kills, then gives up;
\* pdip_delete() gives up at once for a ZOMBIE.
Returned ==
    /\ At("return")
    /\ \/ /\ ctn = "status" /\ pc' = "idle"
          /\ ret' = IF rc = "dead" THEN [st |-> lstatus, own |-> mine[cur]] ELSE ret
       \/ /\ ctn = "term" /\ pc' = (IF rc = "dead" THEN "unlink" ELSE "sleep") /\ UNCHANGED ret
       \/ /\ ctn = "slept" /\ pc' = (IF rc = "dead" THEN "unlink" ELSE "kill") /\ UNCHANGED ret
       \/ /\ ctn = "killed" /\ pc' = "unlink" /\ UNCHANGED ret
       \/ /\ ctn = "zombie" /\ pc' = (IF rc = "dead" THEN "unlink" ELSE "idle") /\ UNCHANGED ret
    /\ UNCHANGED <<objVars, localVars, hdlVars, kernelVars, mine>>

-----------------------------------------------------------------------------
(* pdip_sig(), pdip_delete() and the end of the library.                   *)

\* pdip_kill_child(): the signals other than SIGKILL may be ignored.
pdip_kill_child(o) == killed' = IF pid[o] = NoPid THEN killed ELSE killed \cup {pid[o]}

pdip_sig(o) ==
    /\ At("idle") /\ ~exiting
    /\ o \in pdip_ctx_list /\ state[o] = "ALIVE"
    /\ pdip_kill_child(o)
    /\ UNCHANGED <<objVars, pc, localVars, hdlVars, proc, affinity, pending, histVars>>

\* Mutant: the process of an ALIVE object is forgotten.
DeleteForgets(o) ==
    /\ At("idle")
    /\ o \in pdip_ctx_list
    /\ cur' = o /\ lstatus' = status[o] /\ pc' = "unlink"
    /\ UNCHANGED <<objVars, ctn, rc, lpid, masked, exiting, hdlVars, kernelVars, histVars>>

\* The object is looked for in the list; then all depends on its state.
pdip_delete(o) ==
    /\ At("idle")
    /\ o \in pdip_ctx_list
    /\ cur' = o /\ lstatus' = status[o]
    /\ \/ state[o] = "ALIVE" /\ pc' = "term" /\ UNCHANGED ctn
       \/ state[o] = "ZOMBIE" /\ pc' = "wait" /\ ctn' = "zombie"
       \/ state[o] \in {"DEAD", "INIT"} /\ pc' = "unlink" /\ UNCHANGED ctn
    /\ UNCHANGED <<objVars, rc, lpid, masked, exiting, hdlVars, kernelVars, histVars>>

\* pdip_terminate_child(): SIGTERM, which the process may ignore, a check, a
\* sleep, which a signal may end, another check.
Terminate ==
    /\ \/ At("term") /\ ctn' = "term"
       \/ At("sleep") /\ ctn' = "slept"
    /\ pc' = "check"
    /\ UNCHANGED <<objVars, cur, rc, lpid, lstatus, masked, exiting, hdlVars, kernelVars, histVars>>

\* Mutant: SIGTERM again.
TermAgain ==
    /\ At("kill")
    /\ pc' = "wait" /\ ctn' = "killed"
    /\ UNCHANGED <<objVars, cur, rc, lpid, lstatus, masked, exiting, hdlVars, kernelVars, histVars>>

\* SIGKILL, then a blocking wait.
Kill ==
    /\ At("kill")
    /\ pdip_kill_child(cur)
    /\ pc' = "wait" /\ ctn' = "killed"
    /\ UNCHANGED <<objVars, cur, rc, lpid, lstatus, masked, exiting, hdlVars, proc, affinity, pending, histVars>>

pdip_unlink_ctx ==
    /\ At("unlink")
    /\ pdip_ctx_list' = pdip_ctx_list \ {cur}
    /\ pc' = "free"
    /\ UNCHANGED <<state, pid, status, cpu, localVars, hdlVars, kernelVars, histVars>>

\* The object is freed and its status returned.
Free ==
    /\ At("free")
    /\ state' = [state EXCEPT ![cur] = "NONE"]
    /\ pid' = [pid EXCEPT ![cur] = NoPid] /\ status' = [status EXCEPT ![cur] = NoPid]
    /\ cpu' = [cpu EXCEPT ![cur] = NoMap]
    /\ ret' = [st |-> lstatus, own |-> mine[cur]]
    /\ pc' = "idle"
    /\ UNCHANGED <<pdip_ctx_list, localVars, hdlVars, kernelVars, mine>>

\* The end of the program: from now on pdip_delete() on the first object of
\* the list, until there is none.
pdip_lib_exit ==
    /\ At("idle") /\ ~exiting
    /\ exiting' = TRUE
    /\ UNCHANGED <<objVars, pc, cur, ctn, rc, lpid, lstatus, masked, hdlVars, kernelVars, histVars>>

-----------------------------------------------------------------------------
(* The handler of SIGCHLD, in the thread t.                                *)

\* The kernel interrupts the thread; the signal is masked in the handler.
Interrupt(t) ==
    /\ pc # "aborted"
    /\ pending # NoPid /\ hpc[t] = "off"
    /\ t = "main" => ~masked
    /\ hpc' = [hpc EXCEPT ![t] = "lookup"] /\ hsi' = [hsi EXCEPT ![t] = pending]
    /\ pending' = NoPid
    /\ UNCHANGED <<objVars, pc, localVars, hctx, proc, affinity, killed, histVars>>

\* Under the lock, the list is searched for the pid.
HandlerLookup(t) ==
    /\ pc # "aborted"
    /\ hpc[t] = "lookup"
    /\ \/ \E o \in pdip_ctx_list :
             /\ pid[o] = hsi[t]
             /\ hctx' = [hctx EXCEPT ![t] = o] /\ hpc' = [hpc EXCEPT ![t] = "update"]
       \/ /\ \A o \in pdip_ctx_list : pid[o] # hsi[t]
          /\ hpc' = [hpc EXCEPT ![t] = "off"] /\ UNCHANGED hctx
    /\ UNCHANGED <<objVars, pc, localVars, hsi, kernelVars, histVars>>

\* Mutant: a process that dies before pdip_exec() has returned is not expected.
UpdateAliveOnly(t) ==
    /\ pc # "aborted"
    /\ hpc[t] = "update"
    /\ \/ /\ state[hctx[t]] = "ALIVE"
          /\ state' = [state EXCEPT ![hctx[t]] = "ZOMBIE"]
          /\ UNCHANGED pc
       \/ /\ state[hctx[t]] # "ALIVE"
          /\ pc' = "aborted"
          /\ UNCHANGED state
    /\ hpc' = [hpc EXCEPT ![t] = "off"]
    /\ UNCHANGED <<pdip_ctx_list, pid, status, cpu, localVars, hsi, hctx, kernelVars, histVars>>

\* Without the lock, the object becomes a ZOMBIE; an unexpected state fails an
\* assertion, and so may an object that has been freed.
HandlerUpdate(t) ==
    /\ pc # "aborted"
    /\ hpc[t] = "update"
    /\ \/ /\ state[hctx[t]] \in {"ALIVE", "INIT"}
          /\ state' = [state EXCEPT ![hctx[t]] = "ZOMBIE"]
          /\ UNCHANGED pc
       \/ /\ state[hctx[t]] \notin {"ALIVE", "INIT"}
          /\ pc' = "aborted"
          /\ UNCHANGED state
    /\ hpc' = [hpc EXCEPT ![t] = "off"]
    /\ UNCHANGED <<pdip_ctx_list, pid, status, cpu, localVars, hsi, hctx, kernelVars, histVars>>

(* The controlled processes.                                               *)

\* A process ends, by itself or by a signal.
Die(p) ==
    /\ proc[p] = "running"
    /\ proc' = [proc EXCEPT ![p] = "zombie"]
    /\ Sigchld(p)
    /\ UNCHANGED <<objVars, pc, localVars, hdlVars, affinity, killed, histVars>>

-----------------------------------------------------------------------------
\* The steps inside a call.
Library ==
    \/ ExecFails \/ Fork \/ SetPid \/ ExecCheck \/ ExecAlive
    \/ ChildFields \/ waitpid \/ pdip_update_dead_child \/ Returned
    \/ Terminate \/ Kill \/ pdip_unlink_ctx \/ Free

Handler(t) == HandlerLookup(t) \/ HandlerUpdate(t)

Next ==
    \/ \E o \in Objects :
          \/ pdip_new(o) \/ pdip_exec(o) \/ pdip_sig(o) \/ pdip_delete(o)
          \/ \E blocking \in BOOLEAN : pdip_status(o, blocking)
    \/ Library \/ pdip_lib_exit
    \/ \E t \in Threads : Interrupt(t) \/ Handler(t)
    \/ \E p \in Pids : Die(p)

Spec == Init /\ [][Next]_vars

\* The threads run; a process that gets SIGKILL ends; pdip_lib_exit() goes on
\* while there are objects.
FairSpec ==
    /\ Spec
    /\ WF_vars(Library)
    /\ \A t \in Threads : WF_vars(Handler(t))
    /\ \A p \in Pids : WF_vars(p \in killed /\ Die(p))
    /\ WF_vars(\E o \in Objects : exiting /\ pdip_delete(o))

-----------------------------------------------------------------------------
(* Properties.                                                             *)

\* No assertion of pdip_exec() and of the handler fails, whenever SIGCHLD
\* comes: not after the process was waited for, not twice for a process.
NoAssertFails == pc # "aborted"

\* A ZOMBIE is the object of a process that has ended and that nobody has
\* waited for, but for the calling thread just now; a DEAD one is of a process
\* that has been waited for.
ZombieIsDead ==
    \A o \in Objects :
        /\ state[o] = "ZOMBIE" =>
              /\ pid[o] # NoPid
              /\ \/ proc[pid[o]] = "zombie"
                 \/ proc[pid[o]] = "reaped" /\ pc = "update" /\ cur = o
        /\ state[o] = "DEAD" => mine[o] # NoPid /\ proc[mine[o]] = "reaped"

\* A death noted by the handler is not forgotten, even if it comes while
\* pdip_exec() is about to mark the object ALIVE: a ZOMBIE stays one until it is
\* waited for.
DeathNotForgotten ==
    [][\A o \in Objects : state[o] = "ZOMBIE" => state'[o] \in {"ZOMBIE", "DEAD"}]_vars

\* The pid in an object is the one of its own process, and of one that still
\* has it: no signal goes to a process that got the number afterwards, or to
\* all of them, and no two objects wait for one process.
PidIsOwn ==
    \A o \in Objects : pid[o] # NoPid =>
        /\ pid[o] = mine[o]
        /\ proc[pid[o]] # "reaped" \/ (pc = "update" /\ cur = o)
        /\ \A q \in Objects : pid[q] = pid[o] => q = o

\* No process is left behind: one that nobody has waited for is the process
\* of an object of the list, or has just been forked.
NoOrphan ==
    \A p \in Pids : proc[p] \in {"running", "zombie"} =>
        \/ \E o \in pdip_ctx_list : pid[o] = p
        \/ pc = "forked" /\ lpid = p

\* A status given by pdip_status() or pdip_delete() is the status of the last
\* process of that object, 0 if there was none.
StatusIsOwn == ret.st = ret.own

\* The end of the library deletes all the objects, whatever their processes
\* do, and signals come when they want.
ExitEmpties == exiting ~> pdip_ctx_list = {}

-----------------------------------------------------------------------------
(* What the documents say, and the code does not do.                       *)

\* "Array of bits describing the CPU affinity of the controlled process".
RunsWhereAsked ==
    \A o \in Objects : pid[o] # NoPid /\ cpu[o] \notin {NoMap, {}} => affinity[pid[o]] = cpu[o]
=============================================================================
