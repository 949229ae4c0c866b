-------------------------- MODULE PdipObjectProofs --------------------------
(***************************************************************************)
(* For any number of objects and processes, when only the calling thread   *)
(* handles SIGCHLD: the state, the pid and the status of an object are     *)
(* those of its own process, no process is left behind and no assertion    *)
(* fails, at whatever step of the library the signal comes.                *)
(***************************************************************************)
EXTENDS PdipObject, TLAPS

Ended == {"zombie", "reaped"}
Unreaped == {"running", "zombie"}
HasProcess == {"ALIVE", "ZOMBIE"}

\* An object and its process. INIT: no process, or pdip_exec() is forking it;
\* ALIVE and ZOMBIE: the pid is set; DEAD: the status is the process's.
ObjectInv ==
    /\ \A o \in Objects :
          /\ state[o] = "NONE" <=> o \notin pdip_ctx_list /\ ~(pc = "free" /\ cur = o)
          /\ pid[o] # NoPid => pid[o] = mine[o]
          /\ pid[o] # NoPid => proc[pid[o]] \in Unreaped \/ (pc = "update" /\ cur = o)
          /\ pid[o] # NoPid => state[o] \in HasProcess \/ (pc \in {"pid_set", "alive"} /\ cur = o)
          /\ state[o] \in HasProcess => pid[o] # NoPid
          /\ state[o] = "ZOMBIE" => proc[pid[o]] \in Ended
          /\ state[o] = "INIT" /\ ~(pc \in {"forked", "pid_set", "alive"} /\ cur = o) =>
                mine[o] = NoPid /\ status[o] = NoPid
          /\ state[o] = "DEAD" => mine[o] # NoPid /\ proc[mine[o]] = "reaped" /\ status[o] = mine[o]
          /\ mine[o] # NoPid => proc[mine[o]] # "none"
    /\ \A o, q \in Objects : mine[o] = mine[q] /\ mine[o] # NoPid => o = q

\* What the calling thread knows of its object at each step.
CallInv ==
    /\ pc # "aborted"
    /\ masked <=> pc = "alive"
    /\ pc \in InCall => (cur \in pdip_ctx_list <=> pc # "free")
    /\ pc \in {"exec", "forked"} => state[cur] = "INIT" /\ pid[cur] = NoPid
    /\ pc = "forked" => lpid # NoPid /\ mine[cur] = lpid /\ proc[lpid] \in Unreaped
    /\ pc = "pid_set" => state[cur] \in {"INIT", "ZOMBIE"} /\ pid[cur] # NoPid
    /\ pc = "alive" => state[cur] = "INIT" /\ pid[cur] # NoPid
    /\ pc = "wait" => state[cur] \in HasProcess \cup {"DEAD"}
    /\ pc = "check" /\ ctn # "status" => state[cur] \in HasProcess
    /\ pc = "check" => ctn \in {"status", "term", "slept"}
    /\ pc \in {"waitpid", "nohang", "update"} => state[cur] \in HasProcess /\ lpid = pid[cur]
    /\ pc = "nohang" => ctn \in {"status", "term", "slept"}
    /\ pc = "update" => proc[lpid] = "reaped" /\ lstatus = lpid
    /\ pc \in {"term", "sleep", "kill"} => state[cur] \in HasProcess
    /\ pc = "return" =>
          \/ rc = "dead" /\ state[cur] = "DEAD" /\ lstatus = mine[cur]
          \/ rc = "alive" /\ state[cur] \in HasProcess /\ ctn \in {"status", "term", "slept"}
          \/ rc = "error" /\ ctn = "status"
    /\ pc \in {"unlink", "free"} => state[cur] \in {"DEAD", "INIT"} /\ lstatus = mine[cur]

\* A SIGCHLD on its way is about a process that has ended, and about one whose
\* object does not know it yet.
SignalInv ==
    LET h == hpc["main"]
        p == hsi["main"]
        x == hctx["main"]
    IN
    /\ pending # NoPid => proc[pending] \in Ended
    /\ h # "off" => p # NoPid /\ proc[p] \in Ended /\ pending # p /\ ~masked
    /\ \A o \in Objects : state[o] = "ZOMBIE" => pending # pid[o] /\ (h # "off" => p # pid[o])
    /\ h = "update" => x \in pdip_ctx_list /\ pid[x] = p

\* The inductive invariant.
IndInv == TypeOK /\ ObjectInv /\ CallInv /\ SignalInv /\ NoOrphan /\ StatusIsOwn

-----------------------------------------------------------------------------
\* SIGCHLD is handled by the calling thread, and by it alone if OtherThread is
\* FALSE (PDIP_MASK_SIG() masks the signal in the calling thread only).
LEMMA MainThread == "main" \in Threads
BY DEF Threads

\* The only thread that handles SIGCHLD when no other one does.
LEMMA OneThread == ~OtherThread => Threads = {"main"}
BY DEF Threads

\* The CPUs a child asks for are CPUs.
LEMMA ChildMaskType == \A o \in Objects : ChildMask(o) \subseteq Cpus
BY DEF ChildMask

\* Whatever is read from the freed bitmap is a bitmap.
LEMMA SavedMapType ==
    ASSUME TypeOK, NEW o \in Objects
    PROVE  SavedMap(o) \subseteq {NoMap} \cup SUBSET Cpus
BY DEF SavedMap, TypeOK

\* pdip_kill_child() sends a signal to a process, never to pid -1.
LEMMA KillType ==
    ASSUME TypeOK, NEW o \in Objects, pdip_kill_child(o)
    PROVE  killed' \subseteq Pids
BY DEF TypeOK, pdip_kill_child, PidOrNone

\* Before the first pdip_new().
LEMMA InitType == Init => TypeOK
<1> SUFFICES ASSUME Init PROVE TypeOK
  OBVIOUS
<1> USE DEF Init, PidOrNone
<1>1. /\ pdip_ctx_list \subseteq Objects
      /\ state \in [Objects -> {"NONE", "INIT", "ALIVE", "ZOMBIE", "DEAD"}]
      /\ pid \in [Objects -> PidOrNone] /\ status \in [Objects -> PidOrNone]
      /\ cpu \in [Objects -> {NoMap} \cup SUBSET Cpus]
  OBVIOUS
<1>2. /\ pc \in InCall \cup {"idle", "aborted"} /\ cur \in Objects \cup {NoObject}
      /\ pc \in InCall => cur \in Objects
      /\ ctn \in Callers /\ rc \in {"dead", "alive", "error"}
      /\ lpid \in PidOrNone /\ lstatus \in PidOrNone
  BY DEF InCall, Callers
<1>3. masked \in BOOLEAN /\ exiting \in BOOLEAN
  OBVIOUS
<1>4. /\ hpc \in [Threads -> {"off", "lookup", "update"}]
      /\ hsi \in [Threads -> PidOrNone] /\ hctx \in [Threads -> Objects \cup {NoObject}]
      /\ \A t \in Threads : hpc[t] = "update" => hctx[t] \in Objects
  OBVIOUS
<1>5. /\ proc \in [Pids -> {"none", "running", "zombie", "reaped"}]
      /\ affinity \in [Pids -> SUBSET Cpus]
      /\ killed \subseteq Pids /\ pending \in PidOrNone
      /\ mine \in [Objects -> PidOrNone] /\ ret \in [st : PidOrNone, own : PidOrNone]
  OBVIOUS
<1> QED BY <1>1, <1>2, <1>3, <1>4, <1>5 DEF TypeOK

\* Each step of the library, of a handler and of a process keeps the types.
LEMMA TypeStep ==
    ASSUME TypeOK, [Next]_vars
    PROVE  TypeOK'
<1> USE PdipObjectAssumption DEF objVars, localVars, hdlVars, kernelVars, histVars, At,
    TypeOK, InCall, Callers, PidOrNone, Pids, NoPid
<1>1. ASSUME NEW o \in Objects, pdip_new(o) PROVE TypeOK'
  BY <1>1 DEF pdip_new
<1>2. ASSUME NEW o \in Objects, pdip_exec(o) PROVE TypeOK'
  <2>1. CASE Reuse(o)
    BY <1>2, <2>1, SavedMapType DEF pdip_exec, Reuse
  <2>2. CASE ~Reuse(o)
    BY <1>2, <2>2 DEF pdip_exec
  <2> QED BY <2>1, <2>2
<1>3. ASSUME NEW o \in Objects, pdip_sig(o) PROVE TypeOK'
  BY <1>3, KillType DEF pdip_sig
<1>4. ASSUME NEW o \in Objects, pdip_delete(o) PROVE TypeOK'
  BY <1>4 DEF pdip_delete
<1>5. ASSUME NEW o \in Objects, NEW b \in BOOLEAN, pdip_status(o, b) PROVE TypeOK'
  BY <1>5 DEF pdip_status
<1>6. CASE ExecFails
  BY <1>6, SavedMapType DEF ExecFails
<1>7. CASE Fork
  BY <1>7, ChildMaskType DEF Fork
<1>8. CASE SetPid
  BY <1>8 DEF SetPid
<1>9. CASE ExecCheck
  <2>1. pc \in InCall /\ pc' \in InCall \cup {"idle", "aborted"} /\ masked' \in BOOLEAN
    BY <1>9 DEF ExecCheck, CheckState
  <2>2. UNCHANGED << pdip_ctx_list, state, pid, status, cpu, cur, ctn, rc, lpid, lstatus,
                     exiting >>
    BY <1>9 DEF ExecCheck
  <2>3. UNCHANGED << hpc, hsi, hctx, proc, affinity, killed, pending, mine, ret >>
    BY <1>9 DEF ExecCheck
  <2> HIDE DEF InCall, Callers, PidOrNone
  <2>4. pc' \in InCall \cup {"idle", "aborted"} /\ cur \in Objects
    BY <2>1
  <2> QED BY <2>1, <2>2, <2>3, <2>4
<1>10. CASE ExecAlive
  <2>1. /\ pc' = "idle" /\ masked' \in BOOLEAN /\ state' = [state EXCEPT ![cur] = "ALIVE"]
        /\ UNCHANGED << pdip_ctx_list, pid, status, cpu, cur, ctn, rc, lpid, lstatus, exiting >>
    BY <1>10 DEF ExecAlive
  <2>2. UNCHANGED << hpc, hsi, hctx, proc, affinity, killed, pending, mine, ret >>
    BY <1>10 DEF ExecAlive
  <2>3. state' \in [Objects -> {"NONE", "INIT", "ALIVE", "ZOMBIE", "DEAD"}]
    BY <2>1
  <2>4. pc' \in InCall \cup {"idle", "aborted"} /\ ~(pc' \in InCall)
    BY <2>1
  <2> HIDE DEF InCall, Callers, PidOrNone
  <2> QED BY <2>1, <2>2, <2>3, <2>4
<1>11. CASE ChildFields
  BY <1>11 DEF ChildFields
<1>12. CASE waitpid
  <2>1. pc \in InCall /\ pc' \in {"update", "return"}
    BY <1>12 DEF waitpid
  <2>2. proc' \in [Pids -> {"none", "running", "zombie", "reaped"}]
    BY <1>12 DEF waitpid
  <2>3. lstatus' \in PidOrNone /\ rc' \in {"dead", "alive", "error"}
    BY <1>12 DEF waitpid
  <2>4. UNCHANGED <<objVars, cur, ctn, lpid, masked, exiting, hdlVars, affinity, killed,
                    pending, histVars>>
    BY <1>12 DEF waitpid
  <2> QED BY <2>1, <2>2, <2>3, <2>4
<1>13. CASE pdip_update_dead_child
  BY <1>13 DEF pdip_update_dead_child
<1>14. CASE Returned
  BY <1>14 DEF Returned
<1>15. CASE Terminate
  BY <1>15 DEF Terminate
<1>16. CASE Kill
  BY <1>16, KillType DEF Kill
<1>17. CASE pdip_unlink_ctx
  BY <1>17 DEF pdip_unlink_ctx
<1>18. CASE Free
  BY <1>18 DEF Free
<1>19. CASE pdip_lib_exit
  BY <1>19 DEF pdip_lib_exit
<1>20. ASSUME NEW t \in Threads, Interrupt(t) PROVE TypeOK'
  BY <1>20 DEF Interrupt
<1>21. ASSUME NEW t \in Threads, HandlerLookup(t) PROVE TypeOK'
  <2>1. CASE hpc' = [hpc EXCEPT ![t] = "off"] /\ UNCHANGED hctx
    BY <1>21, <2>1 DEF HandlerLookup
  <2>2. CASE \E o \in pdip_ctx_list :
                 hctx' = [hctx EXCEPT ![t] = o] /\ hpc' = [hpc EXCEPT ![t] = "update"]
    BY <1>21, <2>2 DEF HandlerLookup
  <2> QED BY <1>21, <2>1, <2>2 DEF HandlerLookup
<1>22. ASSUME NEW t \in Threads, HandlerUpdate(t) PROVE TypeOK'
  <2>1. hctx[t] \in Objects /\ hpc' = [hpc EXCEPT ![t] = "off"]
    BY <1>22 DEF HandlerUpdate
  <2>2. CASE state' = [state EXCEPT ![hctx[t]] = "ZOMBIE"] /\ UNCHANGED pc
    BY <1>22, <2>1, <2>2 DEF HandlerUpdate
  <2>3. CASE pc' = "aborted" /\ UNCHANGED state
    BY <1>22, <2>1, <2>3 DEF HandlerUpdate
  <2> QED BY <1>22, <2>2, <2>3 DEF HandlerUpdate
<1>23. ASSUME NEW p \in Pids, Die(p) PROVE TypeOK'
  BY <1>23 DEF Die, Sigchld
<1>24. CASE UNCHANGED vars
  BY <1>24 DEF vars
<1> QED BY <1>1, <1>2, <1>3, <1>4, <1>5, <1>6, <1>7, <1>8, <1>9, <1>10, <1>11, <1>12,
    <1>13, <1>14, <1>15, <1>16, <1>17, <1>18, <1>19, <1>20, <1>21, <1>22, <1>23, <1>24
    DEF Next, Library, Handler

\* Each step keeps the agreement between an object and its process.
LEMMA ObjectStep ==
    ASSUME ~OtherThread, IndInv, [Next]_vars
    PROVE  ObjectInv'
<1> USE PdipObjectAssumption, MainThread DEF objVars, localVars, hdlVars, kernelVars,
    histVars, At, PidOrNone, Pids, NoPid, InCall, Ended, Unreaped, HasProcess, IndInv,
    TypeOK, ObjectInv, CallInv, SignalInv, NoOrphan
<1>1. ASSUME NEW o \in Objects, pdip_new(o) PROVE ObjectInv'
  BY <1>1 DEF pdip_new
<1>2. ASSUME NEW o \in Objects, pdip_exec(o) PROVE ObjectInv'
  BY <1>2 DEF pdip_exec, Reuse, SavedMap
<1>3. ASSUME NEW o \in Objects, pdip_sig(o) PROVE ObjectInv'
  BY <1>3 DEF pdip_sig, pdip_kill_child
<1>4. ASSUME NEW o \in Objects, pdip_delete(o) PROVE ObjectInv'
  BY <1>4 DEF pdip_delete
<1>5. ASSUME NEW o \in Objects, NEW b \in BOOLEAN, pdip_status(o, b) PROVE ObjectInv'
  BY <1>5 DEF pdip_status
<1>6. CASE ExecFails
  BY <1>6 DEF ExecFails, SavedMap
<1>7. CASE Fork
  BY <1>7 DEF Fork
<1>8. CASE SetPid
  BY <1>8 DEF SetPid
<1>9. CASE ExecCheck
  BY <1>9 DEF ExecCheck, CheckState
<1>10. CASE ExecAlive
  BY <1>10 DEF ExecAlive
<1>11. CASE ChildFields
  BY <1>11 DEF ChildFields
<1>12. CASE waitpid
  BY <1>12 DEF waitpid
<1>13. CASE pdip_update_dead_child
  BY <1>13 DEF pdip_update_dead_child
<1>14. CASE Returned
  BY <1>14 DEF Returned
<1>15. CASE Terminate
  BY <1>15 DEF Terminate
<1>16. CASE Kill
  BY <1>16 DEF Kill, pdip_kill_child
<1>17. CASE pdip_unlink_ctx
  BY <1>17 DEF pdip_unlink_ctx
<1>18. CASE Free
  BY <1>18 DEF Free
<1>19. CASE pdip_lib_exit
  BY <1>19 DEF pdip_lib_exit
<1>20. CASE Interrupt("main")
  BY <1>20 DEF Interrupt
<1>21. CASE HandlerLookup("main")
  BY <1>21 DEF HandlerLookup
<1>22. CASE HandlerUpdate("main")
  BY <1>22 DEF HandlerUpdate
<1>23. ASSUME NEW p \in Pids, Die(p) PROVE ObjectInv'
  BY <1>23 DEF Die, Sigchld
<1>24. CASE UNCHANGED vars
  BY <1>24 DEF vars
<1>25. ASSUME NEW t \in Threads, Interrupt(t) \/ Handler(t)
       PROVE  Interrupt("main") \/ HandlerLookup("main") \/ HandlerUpdate("main")
  <2>1. t = "main"
    BY OneThread
  <2> QED BY <1>25, <2>1 DEF Handler
<1> QED BY <1>1, <1>2, <1>3, <1>4, <1>5, <1>6, <1>7, <1>8, <1>9, <1>10, <1>11, <1>12,
    <1>13, <1>14, <1>15, <1>16, <1>17, <1>18, <1>19, <1>20, <1>21, <1>22, <1>23, <1>24,
    <1>25 DEF Next, Library

\* Each step keeps what the calling thread knows of its object, whatever the
\* handler does to it meanwhile.
LEMMA CallStep ==
    ASSUME ~OtherThread, IndInv, [Next]_vars
    PROVE  CallInv'
<1> USE PdipObjectAssumption, MainThread DEF objVars, localVars, hdlVars, kernelVars,
    histVars, At, PidOrNone, Pids, NoPid, InCall, Ended, Unreaped, HasProcess, IndInv,
    TypeOK, ObjectInv, CallInv, SignalInv
<1>1. ASSUME NEW o \in Objects, pdip_new(o) PROVE CallInv'
  BY <1>1 DEF pdip_new
<1>2. ASSUME NEW o \in Objects, pdip_exec(o) PROVE CallInv'
  BY <1>2 DEF pdip_exec, Reuse, SavedMap
<1>3. ASSUME NEW o \in Objects, pdip_sig(o) PROVE CallInv'
  BY <1>3 DEF pdip_sig, pdip_kill_child
<1>4. ASSUME NEW o \in Objects, pdip_delete(o) PROVE CallInv'
  BY <1>4 DEF pdip_delete
<1>5. ASSUME NEW o \in Objects, NEW b \in BOOLEAN, pdip_status(o, b) PROVE CallInv'
  BY <1>5 DEF pdip_status
<1>6. CASE ExecFails
  BY <1>6 DEF ExecFails, SavedMap
<1>7. CASE Fork
  BY <1>7 DEF Fork
<1>8. CASE SetPid
  BY <1>8 DEF SetPid
<1>9. CASE ExecCheck
  BY <1>9 DEF ExecCheck, CheckState
<1>10. CASE ExecAlive
  BY <1>10 DEF ExecAlive
<1>11. CASE ChildFields
  BY <1>11 DEF ChildFields
<1>12. CASE waitpid
  BY <1>12 DEF waitpid
<1>13. CASE pdip_update_dead_child
  BY <1>13 DEF pdip_update_dead_child
<1>14. CASE Returned
  BY <1>14 DEF Returned
<1>15. CASE Terminate
  BY <1>15 DEF Terminate
<1>16. CASE Kill
  BY <1>16 DEF Kill, pdip_kill_child
<1>17. CASE pdip_unlink_ctx
  BY <1>17 DEF pdip_unlink_ctx
<1>18. CASE Free
  BY <1>18 DEF Free
<1>19. CASE pdip_lib_exit
  BY <1>19 DEF pdip_lib_exit
<1>20. CASE Interrupt("main")
  BY <1>20 DEF Interrupt
<1>21. CASE HandlerLookup("main")
  BY <1>21 DEF HandlerLookup
<1>22. CASE HandlerUpdate("main")
  BY <1>22 DEF HandlerUpdate
<1>23. ASSUME NEW p \in Pids, Die(p) PROVE CallInv'
  BY <1>23 DEF Die, Sigchld
<1>24. CASE UNCHANGED vars
  BY <1>24 DEF vars
<1>25. ASSUME NEW t \in Threads, Interrupt(t) \/ Handler(t)
       PROVE  Interrupt("main") \/ HandlerLookup("main") \/ HandlerUpdate("main")
  <2>1. t = "main"
    BY OneThread
  <2> QED BY <1>25, <2>1 DEF Handler
<1> QED BY <1>1, <1>2, <1>3, <1>4, <1>5, <1>6, <1>7, <1>8, <1>9, <1>10, <1>11, <1>12,
    <1>13, <1>14, <1>15, <1>16, <1>17, <1>18, <1>19, <1>20, <1>21, <1>22, <1>23, <1>24,
    <1>25 DEF Next, Library

\* Each step keeps what is known of a SIGCHLD that is pending or being handled.
LEMMA SignalStep ==
    ASSUME ~OtherThread, IndInv, [Next]_vars
    PROVE  SignalInv'
<1> USE PdipObjectAssumption, MainThread DEF objVars, localVars, hdlVars, kernelVars,
    histVars, At, PidOrNone, Pids, NoPid, InCall, Ended, Unreaped, HasProcess, IndInv,
    TypeOK, ObjectInv, CallInv, SignalInv
<1>1. ASSUME NEW o \in Objects, pdip_new(o) PROVE SignalInv'
  BY <1>1 DEF pdip_new
<1>2. ASSUME NEW o \in Objects, pdip_exec(o) PROVE SignalInv'
  BY <1>2 DEF pdip_exec, Reuse, SavedMap
<1>3. ASSUME NEW o \in Objects, pdip_sig(o) PROVE SignalInv'
  BY <1>3 DEF pdip_sig, pdip_kill_child
<1>4. ASSUME NEW o \in Objects, pdip_delete(o) PROVE SignalInv'
  BY <1>4 DEF pdip_delete
<1>5. ASSUME NEW o \in Objects, NEW b \in BOOLEAN, pdip_status(o, b) PROVE SignalInv'
  BY <1>5 DEF pdip_status
<1>6. CASE ExecFails
  BY <1>6 DEF ExecFails, SavedMap
<1>7. CASE Fork
  BY <1>7 DEF Fork
<1>8. CASE SetPid
  BY <1>8 DEF SetPid
<1>9. CASE ExecCheck
  BY <1>9 DEF ExecCheck, CheckState
<1>10. CASE ExecAlive
  BY <1>10 DEF ExecAlive
<1>11. CASE ChildFields
  BY <1>11 DEF ChildFields
<1>12. CASE waitpid
  BY <1>12 DEF waitpid
<1>13. CASE pdip_update_dead_child
  BY <1>13 DEF pdip_update_dead_child
<1>14. CASE Returned
  BY <1>14 DEF Returned
<1>15. CASE Terminate
  BY <1>15 DEF Terminate
<1>16. CASE Kill
  BY <1>16 DEF Kill, pdip_kill_child
<1>17. CASE pdip_unlink_ctx
  BY <1>17 DEF pdip_unlink_ctx
<1>18. CASE Free
  BY <1>18 DEF Free
<1>19. CASE pdip_lib_exit
  BY <1>19 DEF pdip_lib_exit
<1>20. CASE Interrupt("main")
  BY <1>20 DEF Interrupt
<1>21. CASE HandlerLookup("main")
  BY <1>21 DEF HandlerLookup
<1>22. CASE HandlerUpdate("main")
  <2> DEFINE x == hctx["main"]
  <2>1. /\ x \in Objects /\ pid[x] = hsi["main"] /\ pid[x] # NoPid /\ pending # pid[x]
        /\ hpc' = [hpc EXCEPT !["main"] = "off"]
        /\ UNCHANGED <<pdip_ctx_list, pid, masked, proc, pending>>
    BY <1>22 DEF HandlerUpdate
  <2>2. \A o \in Objects : state'[o] = "ZOMBIE" => state[o] = "ZOMBIE" \/ o = x
    BY <1>22 DEF HandlerUpdate
  <2> QED BY <2>1, <2>2
<1>23. ASSUME NEW p \in Pids, Die(p) PROVE SignalInv'
  <2>1. proc[p] \notin Ended /\ proc' = [proc EXCEPT ![p] = "zombie"]
    BY <1>23 DEF Die
  <2>2. pending' \in {p, pending} /\ (pending' = p \/ pending' = pending)
    BY <1>23 DEF Die, Sigchld
  <2>3. \A q \in Pids : proc[q] \in Ended => q # p /\ proc'[q] \in Ended
    BY <2>1
  <2>4. pending' # NoPid => proc'[pending'] \in Ended
    BY <2>1, <2>2, <2>3
  <2>5. hpc["main"] # "off" => /\ proc'[hsi["main"]] \in Ended
                               /\ pending' # hsi["main"]
    BY <2>2, <2>3
  <2>6. ASSUME NEW o \in Objects, state[o] = "ZOMBIE" PROVE pending' # pid[o]
    BY <2>2, <2>3, <2>6
  <2>7. UNCHANGED <<objVars, pc, localVars, hdlVars>>
    BY <1>23 DEF Die
  <2> QED BY <2>4, <2>5, <2>6, <2>7
<1>24. CASE UNCHANGED vars
  BY <1>24 DEF vars
<1>25. ASSUME NEW t \in Threads, Interrupt(t) \/ Handler(t)
       PROVE  Interrupt("main") \/ HandlerLookup("main") \/ HandlerUpdate("main")
  <2>1. t = "main"
    BY OneThread
  <2> QED BY <1>25, <2>1 DEF Handler
<1> QED BY <1>1, <1>2, <1>3, <1>4, <1>5, <1>6, <1>7, <1>8, <1>9, <1>10, <1>11, <1>12,
    <1>13, <1>14, <1>15, <1>16, <1>17, <1>18, <1>19, <1>20, <1>21, <1>22, <1>23, <1>24,
    <1>25 DEF Next, Library

\* Each step leaves a process that nobody has waited for in reach of the library.
LEMMA OrphanStep ==
    ASSUME ~OtherThread, IndInv, [Next]_vars
    PROVE  NoOrphan'
<1> USE PdipObjectAssumption, MainThread DEF objVars, localVars, hdlVars, kernelVars,
    histVars, At, PidOrNone, Pids, NoPid, InCall, Ended, Unreaped, HasProcess, IndInv,
    TypeOK, ObjectInv, CallInv, SignalInv, NoOrphan
<1>1. ASSUME NEW o \in Objects, pdip_new(o) PROVE NoOrphan'
  BY <1>1 DEF pdip_new
<1>2. ASSUME NEW o \in Objects, pdip_exec(o) PROVE NoOrphan'
  BY <1>2 DEF pdip_exec, Reuse, SavedMap
<1>3. ASSUME NEW o \in Objects, pdip_sig(o) PROVE NoOrphan'
  BY <1>3 DEF pdip_sig, pdip_kill_child
<1>4. ASSUME NEW o \in Objects, pdip_delete(o) PROVE NoOrphan'
  BY <1>4 DEF pdip_delete
<1>5. ASSUME NEW o \in Objects, NEW b \in BOOLEAN, pdip_status(o, b) PROVE NoOrphan'
  BY <1>5 DEF pdip_status
<1>6. CASE ExecFails
  BY <1>6 DEF ExecFails, SavedMap
<1>7. CASE Fork
  BY <1>7 DEF Fork
<1>8. CASE SetPid
  BY <1>8 DEF SetPid
<1>9. CASE ExecCheck
  BY <1>9 DEF ExecCheck, CheckState
<1>10. CASE ExecAlive
  BY <1>10 DEF ExecAlive
<1>11. CASE ChildFields
  BY <1>11 DEF ChildFields
<1>12. CASE waitpid
  BY <1>12 DEF waitpid
<1>13. CASE pdip_update_dead_child
  BY <1>13 DEF pdip_update_dead_child
<1>14. CASE Returned
  BY <1>14 DEF Returned
<1>15. CASE Terminate
  BY <1>15 DEF Terminate
<1>16. CASE Kill
  BY <1>16 DEF Kill, pdip_kill_child
<1>17. CASE pdip_unlink_ctx
  BY <1>17 DEF pdip_unlink_ctx
<1>18. CASE Free
  BY <1>18 DEF Free
<1>19. CASE pdip_lib_exit
  BY <1>19 DEF pdip_lib_exit
<1>20. CASE Interrupt("main")
  BY <1>20 DEF Interrupt
<1>21. CASE HandlerLookup("main")
  BY <1>21 DEF HandlerLookup
<1>22. CASE HandlerUpdate("main")
  BY <1>22 DEF HandlerUpdate
<1>23. ASSUME NEW p \in Pids, Die(p) PROVE NoOrphan'
  BY <1>23 DEF Die, Sigchld
<1>24. CASE UNCHANGED vars
  BY <1>24 DEF vars
<1>25. ASSUME NEW t \in Threads, Interrupt(t) \/ Handler(t)
       PROVE  Interrupt("main") \/ HandlerLookup("main") \/ HandlerUpdate("main")
  <2>1. t = "main"
    BY OneThread
  <2> QED BY <1>25, <2>1 DEF Handler
<1> QED BY <1>1, <1>2, <1>3, <1>4, <1>5, <1>6, <1>7, <1>8, <1>9, <1>10, <1>11, <1>12,
    <1>13, <1>14, <1>15, <1>16, <1>17, <1>18, <1>19, <1>20, <1>21, <1>22, <1>23, <1>24,
    <1>25 DEF Next, Library

\* Each status returned is the one of the object's last process.
LEMMA StatusStep ==
    ASSUME ~OtherThread, IndInv, [Next]_vars
    PROVE  StatusIsOwn'
<1> USE PdipObjectAssumption, MainThread DEF objVars, localVars, hdlVars, kernelVars,
    histVars, At, PidOrNone, Pids, NoPid, InCall, Ended, Unreaped, HasProcess, IndInv,
    TypeOK, ObjectInv, CallInv, StatusIsOwn
<1>1. ASSUME NEW o \in Objects, pdip_new(o) PROVE StatusIsOwn'
  BY <1>1 DEF pdip_new
<1>2. ASSUME NEW o \in Objects, pdip_exec(o) PROVE StatusIsOwn'
  BY <1>2 DEF pdip_exec, Reuse, SavedMap
<1>3. ASSUME NEW o \in Objects, pdip_sig(o) PROVE StatusIsOwn'
  BY <1>3 DEF pdip_sig, pdip_kill_child
<1>4. ASSUME NEW o \in Objects, pdip_delete(o) PROVE StatusIsOwn'
  BY <1>4 DEF pdip_delete
<1>5. ASSUME NEW o \in Objects, NEW b \in BOOLEAN, pdip_status(o, b) PROVE StatusIsOwn'
  BY <1>5 DEF pdip_status
<1>6. CASE ExecFails
  BY <1>6 DEF ExecFails, SavedMap
<1>7. CASE Fork
  BY <1>7 DEF Fork
<1>8. CASE SetPid
  BY <1>8 DEF SetPid
<1>9. CASE ExecCheck
  BY <1>9 DEF ExecCheck, CheckState
<1>10. CASE ExecAlive
  BY <1>10 DEF ExecAlive
<1>11. CASE ChildFields
  BY <1>11 DEF ChildFields
<1>12. CASE waitpid
  BY <1>12 DEF waitpid
<1>13. CASE pdip_update_dead_child
  BY <1>13 DEF pdip_update_dead_child
<1>14. CASE Returned
  BY <1>14 DEF Returned
<1>15. CASE Terminate
  BY <1>15 DEF Terminate
<1>16. CASE Kill
  BY <1>16 DEF Kill, pdip_kill_child
<1>17. CASE pdip_unlink_ctx
  BY <1>17 DEF pdip_unlink_ctx
<1>18. CASE Free
  BY <1>18 DEF Free
<1>19. CASE pdip_lib_exit
  BY <1>19 DEF pdip_lib_exit
<1>20. CASE Interrupt("main")
  BY <1>20 DEF Interrupt
<1>21. CASE HandlerLookup("main")
  BY <1>21 DEF HandlerLookup
<1>22. CASE HandlerUpdate("main")
  BY <1>22 DEF HandlerUpdate
<1>23. ASSUME NEW p \in Pids, Die(p) PROVE StatusIsOwn'
  BY <1>23 DEF Die, Sigchld
<1>24. CASE UNCHANGED vars
  BY <1>24 DEF vars
<1>25. ASSUME NEW t \in Threads, Interrupt(t) \/ Handler(t)
       PROVE  Interrupt("main") \/ HandlerLookup("main") \/ HandlerUpdate("main")
  <2>1. t = "main"
    BY OneThread
  <2> QED BY <1>25, <2>1 DEF Handler
<1> QED BY <1>1, <1>2, <1>3, <1>4, <1>5, <1>6, <1>7, <1>8, <1>9, <1>10, <1>11, <1>12,
    <1>13, <1>14, <1>15, <1>16, <1>17, <1>18, <1>19, <1>20, <1>21, <1>22, <1>23, <1>24,
    <1>25 DEF Next, Library

-----------------------------------------------------------------------------
\* Types, whoever handles SIGCHLD.
THEOREM TypeCorrect == Spec => []TypeOK
<1>1. Init => TypeOK
  BY InitType
<1>2. TypeOK /\ [Next]_vars => TypeOK'
  BY TypeStep
<1> QED BY <1>1, <1>2, PTL DEF Spec

\* The inductive invariant: an object, what the calling thread knows of it and
\* the signals on their way agree with the object's process at every step.
THEOREM Inductive ==
    ASSUME ~OtherThread
    PROVE  Spec => []IndInv
<1>1. Init => IndInv
  <2>1. Init => TypeOK
    BY InitType
  <2>2. Init => ObjectInv /\ CallInv /\ NoOrphan /\ StatusIsOwn
    BY DEF Init, ObjectInv, CallInv, NoOrphan, StatusIsOwn, InCall, HasProcess
  <2>3. Init => SignalInv
    BY MainThread DEF Init, SignalInv
  <2> QED BY <2>1, <2>2, <2>3 DEF IndInv
<1>2. IndInv /\ [Next]_vars => IndInv'
  BY TypeStep, ObjectStep, CallStep, SignalStep, OrphanStep, StatusStep DEF IndInv
<1> QED BY <1>1, <1>2, PTL DEF Spec

\* No assertion of pdip_exec() or of the handler of SIGCHLD fails, at whatever
\* step of the calling thread the signal comes.
THEOREM AssertionsHold ==
    ASSUME ~OtherThread
    PROVE  Spec => []NoAssertFails
<1>1. IndInv => NoAssertFails
  BY DEF IndInv, CallInv, NoAssertFails
<1> QED BY <1>1, Inductive, PTL

\* A ZOMBIE is the object of an ended process, a DEAD one of a process that has
\* been waited for.
THEOREM ZombiesAreDead ==
    ASSUME ~OtherThread
    PROVE  Spec => []ZombieIsDead
<1>1. IndInv => ZombieIsDead
  BY DEF IndInv, ObjectInv, ZombieIsDead, HasProcess, Ended, Unreaped
<1> QED BY <1>1, Inductive, PTL

\* The pid of an object, the one signals are sent to, is the pid of its own
\* process, which still has it.
THEOREM PidsAreOwn ==
    ASSUME ~OtherThread
    PROVE  Spec => []PidIsOwn
<1>1. IndInv => PidIsOwn
  BY DEF IndInv, ObjectInv, PidIsOwn, Unreaped
<1> QED BY <1>1, Inductive, PTL

\* No process is left behind by pdip_delete(), pdip_exec() or a lost signal.
THEOREM NothingLeftBehind ==
    ASSUME ~OtherThread
    PROVE  Spec => []NoOrphan
<1>1. IndInv => NoOrphan
  BY DEF IndInv
<1> QED BY <1>1, Inductive, PTL

\* pdip_status() and pdip_delete() give the status of the object's last process.
THEOREM StatusesAreOwn ==
    ASSUME ~OtherThread
    PROVE  Spec => []StatusIsOwn
<1>1. IndInv => StatusIsOwn
  BY DEF IndInv
<1> QED BY <1>1, Inductive, PTL

\* A death that the handler has noted is only forgotten by waiting for the process.
THEOREM DeathsKept ==
    ASSUME ~OtherThread
    PROVE  Spec => DeathNotForgotten
<1> DEFINE Kept == \A o \in Objects : state[o] = "ZOMBIE" => state'[o] \in {"ZOMBIE", "DEAD"}
<1>1. ASSUME IndInv, [Next]_vars
      PROVE  [Kept]_vars
  <2> USE DEF objVars, localVars, hdlVars, kernelVars, histVars, At, IndInv, TypeOK, ObjectInv, CallInv, InCall
  <2>1. ASSUME NEW o \in Objects, pdip_new(o) \/ pdip_exec(o) PROVE Kept
    BY <1>1, <2>1 DEF pdip_new, pdip_exec, Reuse
  <2>2. CASE ExecFails \/ ExecAlive \/ Free
    BY <1>1, <2>2 DEF ExecFails, ExecAlive, Free
  <2>3. CASE pdip_update_dead_child
    BY <1>1, <2>3 DEF pdip_update_dead_child
  <2>4. CASE HandlerUpdate("main")
    BY <1>1, <2>4 DEF HandlerUpdate
  <2>5. CASE UNCHANGED state
    BY <2>5
  <2>6. ASSUME NEW o \in Objects, NEW b \in BOOLEAN,
               pdip_sig(o) \/ pdip_delete(o) \/ pdip_status(o, b)
        PROVE  UNCHANGED state
    BY <2>6 DEF pdip_sig, pdip_delete, pdip_status
  <2>7. CASE Fork \/ SetPid \/ ExecCheck \/ ChildFields \/ waitpid \/ Returned
    BY <2>5, <2>7 DEF Fork, SetPid, ExecCheck, ChildFields, waitpid, Returned
  <2>8. CASE Terminate \/ Kill \/ pdip_unlink_ctx \/ pdip_lib_exit
    BY <2>5, <2>8 DEF Terminate, Kill, pdip_unlink_ctx, pdip_lib_exit
  <2>9. CASE Interrupt("main") \/ HandlerLookup("main") \/ \E p \in Pids : Die(p)
    BY <2>5, <2>9 DEF Interrupt, HandlerLookup, Die
  <2> QED BY <1>1, <2>1, <2>2, <2>3, <2>4, <2>5, <2>6, <2>7, <2>8, <2>9, OneThread
          DEF Next, Library, Handler
<1>2. [][Next]_vars /\ []IndInv => [][Kept]_vars
  BY <1>1, PTL
<1> QED BY <1>2, Inductive, PTL DEF Spec, DeathNotForgotten
=============================================================================
