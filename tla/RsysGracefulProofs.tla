------------------------- MODULE RsysGracefulProofs -------------------------
(***************************************************************************)
(* For any set of descriptors, the graceful thread closes only what main() *)
(* gave it, and both select() calls watch all of their sets.               *)
(***************************************************************************)
EXTENDS RsysGraceful, TLAPS

\* rsysd_remove_set() finds the maximum of what is left, if anything is.
LEMMA RemoveSetBound ==
  ASSUME NEW i \in Int, NEW set, set \subseteq Int, NEW max \in Int,
         \A j \in set : j <= max, i \notin set,
         NEW m \in rsysd_remove_set(i, set, max)
  PROVE  (m = max \/ m \in set) /\ \A j \in set : j <= m
BY DEF rsysd_remove_set

\* The inductive invariant.
IndInv == TypeOK /\ AllWatched /\ ClosesOnlyGiven /\ OneWatcher /\ Ownership

\* It holds before the first descriptor is given away.
LEMMA InitInd == Init => IndInv
<1> SUFFICES ASSUME Init PROVE IndInv
  OBVIOUS
<1>1. TypeOK
  BY DEF Init, TypeOK
<1>2. AllWatched
  BY GracefulAssumption DEF Init, AllWatched
<1>3. Ownership
  BY GracefulAssumption DEF Init, Ownership
<1> QED BY <1>1, <1>2, <1>3 DEF Init, IndInv, ClosesOnlyGiven, OneWatcher

\* Every step of main(), of the clients and of the thread keeps it.
LEMMA StepInd ==
  ASSUME IndInv, [Next]_vars
  PROVE  IndInv'
<1> USE DEF IndInv, mainVars, sharedVars, threadVars
<1>0. /\ Listen \in Nat /\ Fds \subseteq Nat /\ Fds \subseteq Int
      /\ \A i \in Fds : i > Listen
  BY GracefulAssumption
<1> USE <1>0
<1>1. ASSUME NEW i \in Fds, Accept(i)
      PROVE  IndInv'
  <2>1. TypeOK'
    BY <1>1 DEF Accept, TypeOK, rsysd_add_set
  <2>2. AllWatched'
    BY <1>1 DEF Accept, TypeOK, AllWatched, rsysd_add_set
  <2>3. ClosesOnlyGiven' /\ OneWatcher' /\ Ownership'
    BY <1>1 DEF Accept, TypeOK, ClosesOnlyGiven, OneWatcher, Ownership
  <2> QED BY <2>1, <2>2, <2>3
<1>2. ASSUME NEW i \in Fds, rsysd_free_client(i)
      PROVE  IndInv'
  <2>1. PICK m \in rsysd_remove_set(i, rsysd_fdset \ {i}, rsysd_fd_max) : rsysd_fd_max' = m
    BY <1>2 DEF rsysd_free_client
  <2>2. (m = rsysd_fd_max \/ m \in rsysd_fdset \ {i}) /\ \A j \in rsysd_fdset \ {i} : j <= m
    <3>1. /\ i \in Int /\ rsysd_fdset \ {i} \subseteq Int /\ rsysd_fd_max \in Int
          /\ \A j \in rsysd_fdset \ {i} : j <= rsysd_fd_max
      BY DEF TypeOK, AllWatched
    <3> QED BY <2>1, <3>1, RemoveSetBound
  <2>3. TypeOK'
    BY <1>2, <2>1, <2>2 DEF rsysd_free_client, rsysd_graceful_close, TypeOK, rsysd_add_set
  <2>4. AllWatched'
    BY <1>2, <2>1, <2>2 DEF rsysd_free_client, rsysd_graceful_close, TypeOK, AllWatched, rsysd_add_set
  <2>5. ClosesOnlyGiven' /\ OneWatcher' /\ Ownership'
    BY <1>2 DEF rsysd_free_client, rsysd_graceful_close, TypeOK, ClosesOnlyGiven, OneWatcher, Ownership,
                rsysd_add_set
  <2> QED BY <2>3, <2>4, <2>5
<1>3. ASSUME NEW i \in Fds, AcceptOutOfMemory(i)
      PROVE  IndInv'
  <2>1. TypeOK'
    BY <1>3 DEF AcceptOutOfMemory, rsysd_graceful_close, TypeOK, rsysd_add_set
  <2>2. AllWatched'
    BY <1>3 DEF AcceptOutOfMemory, rsysd_graceful_close, TypeOK, AllWatched, rsysd_add_set
  <2>3. ClosesOnlyGiven' /\ OneWatcher' /\ Ownership'
    BY <1>3 DEF AcceptOutOfMemory, rsysd_graceful_close, TypeOK, ClosesOnlyGiven, OneWatcher, Ownership,
                rsysd_add_set
  <2> QED BY <2>1, <2>2, <2>3
<1>4. ASSUME NEW i \in Fds, ClientActs(i)
      PROVE  IndInv'
  BY <1>4 DEF ClientActs, TypeOK, AllWatched, ClosesOnlyGiven, OneWatcher, Ownership
<1>5. CASE ThreadTop
  <2>1. TypeOK'
    <3>1. rsysd_graceful_fdmax \in Int /\ (~(rsysd_graceful_fdmax < 0) => rsysd_graceful_fdmax + 1 \in Nat)
      BY DEF TypeOK
    <3> QED BY <1>5, <3>1 DEF ThreadTop, Snapshot, TypeOK
  <2>2. AllWatched' /\ OneWatcher'
    BY <1>5 DEF ThreadTop, AllWatched, OneWatcher, Ownership
  <2>3. ClosesOnlyGiven' /\ Ownership'
    BY <1>5 DEF ThreadTop, Snapshot, TypeOK, ClosesOnlyGiven, Ownership
  <2> QED BY <2>1, <2>2, <2>3
<1>6. CASE Wakes
  <2>1. TypeOK'
    <3>1. rsysd_graceful_fdmax \in Int /\ (~(rsysd_graceful_fdmax < 0) => rsysd_graceful_fdmax + 1 \in Nat)
      BY DEF TypeOK
    <3> QED BY <1>6, <3>1 DEF Wakes, Snapshot, TypeOK
  <2>2. AllWatched' /\ OneWatcher'
    BY <1>6 DEF Wakes, AllWatched, OneWatcher, Ownership
  <2>3. ClosesOnlyGiven' /\ Ownership'
    BY <1>6 DEF Wakes, Snapshot, TypeOK, ClosesOnlyGiven, Ownership
  <2> QED BY <2>1, <2>2, <2>3
<1>7. CASE ThreadSelect \/ ThreadTimeout \/ ThreadSelectError
  <2>1. TypeOK'
    BY <1>7 DEF ThreadSelect, ThreadTimeout, ThreadSelectError, Watched, TypeOK
  <2>2. AllWatched' /\ OneWatcher'
    BY <1>7 DEF ThreadSelect, ThreadTimeout, ThreadSelectError, AllWatched, OneWatcher, Ownership
  <2>3. ClosesOnlyGiven' /\ Ownership'
    <3>1. /\ tpc = "select" /\ tpc' \in {"top", "close"} /\ fdset' \subseteq fdset
          /\ UNCHANGED <<fd, rsysd_fdset, rsysd_graceful_fdset, rsysd_graceful_fdmax, lock, signalled, closing>>
      BY <1>7 DEF ThreadSelect, ThreadTimeout, ThreadSelectError, Watched
    <3> QED BY <3>1 DEF TypeOK, ClosesOnlyGiven, Ownership
  <2> QED BY <2>1, <2>2, <2>3
<1>8. ASSUME NEW i \in Fds, ThreadClose(i)
      PROVE  IndInv'
  <2>1. TypeOK'
    BY <1>8 DEF ThreadClose, TypeOK
  <2>2. AllWatched'
    BY <1>8 DEF ThreadClose, AllWatched
  <2>3. ClosesOnlyGiven' /\ OneWatcher' /\ Ownership'
    BY <1>8 DEF ThreadClose, TypeOK, ClosesOnlyGiven, OneWatcher, Ownership
  <2> QED BY <2>1, <2>2, <2>3
<1>9. CASE ThreadRemove
  <2>1. PICK m \in rsysd_remove_set(closing, rsysd_graceful_fdset \ {closing}, rsysd_graceful_fdmax) :
            rsysd_graceful_fdmax' = m
    BY <1>9 DEF ThreadRemove
  <2>2. /\ m = rsysd_graceful_fdmax \/ m \in rsysd_graceful_fdset \ {closing}
        /\ \A j \in rsysd_graceful_fdset \ {closing} : j <= m
    <3>1. /\ closing \in Int /\ rsysd_graceful_fdset \ {closing} \subseteq Int
          /\ rsysd_graceful_fdmax \in Int
          /\ \A j \in rsysd_graceful_fdset \ {closing} : j <= rsysd_graceful_fdmax
      BY DEF TypeOK, AllWatched
    <3> QED BY <2>1, <3>1, RemoveSetBound
  <2>3. TypeOK'
    BY <1>9, <2>1, <2>2 DEF ThreadRemove, TypeOK
  <2>4. AllWatched'
    BY <1>9, <2>1, <2>2 DEF ThreadRemove, TypeOK, AllWatched
  <2>5. /\ tpc = "remove" /\ tpc' \in {"top", "close"} /\ lock' = FALSE
        /\ fdset' = fdset \ {closing} /\ rsysd_graceful_fdset' = rsysd_graceful_fdset \ {closing}
        /\ UNCHANGED <<fd, rsysd_fdset, signalled, closing>>
    BY <1>9 DEF ThreadRemove
  <2>6. ClosesOnlyGiven' /\ OneWatcher'
    BY <2>5 DEF ClosesOnlyGiven, OneWatcher
  <2>7. signalled' => rsysd_graceful_fdmax' >= 0
    <3>1. CASE m = rsysd_graceful_fdmax
      BY <2>1, <2>5, <3>1 DEF Ownership
    <3>2. CASE m \in rsysd_graceful_fdset
      <4>1. m \in Nat
        BY <3>2 DEF TypeOK
      <4> QED BY <2>1, <4>1
    <3> QED BY <2>2, <3>1, <3>2
  <2>8. Ownership'
    BY <2>5, <2>7 DEF Ownership
  <2> QED BY <2>3, <2>4, <2>6, <2>8
<1>10. CASE UNCHANGED vars
  BY <1>10 DEF vars, TypeOK, AllWatched, ClosesOnlyGiven, OneWatcher, Ownership
<1> QED
  BY <1>1, <1>2, <1>3, <1>4, <1>5, <1>6, <1>7, <1>8, <1>9, <1>10
     DEF Next, Thread, ThreadWake, SpuriousWake, Aborted

\* The invariants hold together.
THEOREM GracefulInductive == Spec => []IndInv
<1>1. IndInv /\ [Next]_vars => IndInv'
  BY StepInd
<1> QED BY InitInd, <1>1, PTL DEF Spec

\* The graceful thread never closes a socket main() uses, however the kernel
\* gives the numbers of closed descriptors again.
THEOREM NeverClosesClients == Spec => []ClosesOnlyGiven
BY GracefulInductive, PTL DEF IndInv

\* No descriptor of either set is above the bound given to select().
THEOREM SetsWatched == Spec => []AllWatched
BY GracefulInductive, PTL DEF IndInv

\* main() and the thread never wait on the same socket.
THEOREM SetsDisjoint == Spec => []OneWatcher
BY GracefulInductive, PTL DEF IndInv

\* The assertion that follows pthread_cond_wait() never fails when the condition
\* was signalled: only a spurious wake-up, which the "if" around the wait lets
\* through, ends the daemon there.
THEOREM WaitIsSignalled == Spec => OnlySpurious
<1> DEFINE A == tpc' = "aborted" /\ tpc # "aborted" => ~signalled
<1>1. ASSUME IndInv, Next PROVE A
  <2>1. CASE ThreadWake
    BY <1>1, <2>1, GracefulAssumption DEF ThreadWake, Wakes, Snapshot, IndInv, Ownership, TypeOK
  <2>2. CASE SpuriousWake
    BY <2>2 DEF SpuriousWake
  <2>3. CASE ~ThreadWake /\ ~SpuriousWake
    BY <1>1, <2>3 DEF Next, Thread, Aborted, threadVars, Accept, AcceptOutOfMemory, rsysd_free_client,
       ClientActs, ThreadTop, Snapshot, ThreadSelect, ThreadTimeout, ThreadSelectError, ThreadClose,
       ThreadRemove
  <2> QED BY <2>1, <2>2, <2>3
<1>2. IndInv /\ [Next]_vars => IndInv' /\ [A]_vars
  BY <1>1, StepInd
<1> QED BY <1>2, InitInd, PTL DEF Spec, OnlySpurious
=============================================================================
