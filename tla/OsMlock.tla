------------------------------- MODULE OsMlock -------------------------------
(***************************************************************************)
(* The recursive lock of src/os_mlock.c, whose caller runs at the lock's   *)
(* priority, over the semaphores, thread-local values and priorities of    *)
(* each port.  A step is what happens between two points at which another  *)
(* thread can see a difference.                                            *)
(***************************************************************************)
EXTENDS OsPort

CONSTANTS
    Lockers,    \* the threads that use the locks
    Locks,
    Nobody,
    Prio,       \* the priority of each thread, and of each lock (its ceiling)
    DepthMax,   \* bound on how often a thread takes a lock again
    KHi, KLo    \* K_HIGHEST_ and K_LOWEST_APPLICATION_THREAD_PRIO of Zephyr

MAX_TLS_ID == 4

VARIABLES
    kprio,      \* the kernel's priority of each thread, in the port's numbers
    tls_used,   \* the indices os_thread_tls_alloc has given out
    tls_index,  \* _mlock_tls_prio and _mlock_tls_cnt
    tls,        \* the values of each thread
    lock,       \* NULL before os_mlock_init, then semaphore, owner and cnt
    at,         \* where each thread is
    on,         \* the lock its call is about
    holds       \* history: how often each thread holds each lock

mlockVars == <<port, kprio, tls_used, tls_index, tls, lock, at, on, holds>>
static == <<port, tls_used, tls_index>>

----------------------------------------------------------------------------
(* The priorities of the ports.                                            *)

z_map_os_to_kprio(p) ==
    LET level == IF p \div 8 < 1 THEN 1 ELSE IF p \div 8 > 14 THEN 14 ELSE p \div 8
    IN  KHi + ((KLo - KHi) * (14 - level)) \div 13

z_map_kprio_to_os(k) ==
    IF k <= KHi THEN 14 * 8
    ELSE IF k >= KLo THEN 8
    ELSE 8 * (14 - ((k - KHi) * 13 + (KLo - KHi) \div 2) \div (KLo - KHi))

ToKernel(p) == CASE port = "freertos" -> p \div 8
                 [] port = "threadx"  -> 32 - p \div 4
                 [] port = "zephyr"   -> z_map_os_to_kprio(p)
                 [] port = "posix"    -> p

FromKernel(k) == CASE port = "freertos" -> k * 8
                   [] port = "threadx"  -> 4 * (32 - k)
                   [] port = "zephyr"   -> z_map_kprio_to_os(k)
                   [] port = "posix"    -> k

os_thread_get_prio(t) == FromKernel(kprio[t])

\* os_thread_set_prio (0, p): the posix port does nothing without a thread.
os_thread_set_prio(t, p) ==
    kprio' = IF port = "posix" THEN kprio ELSE [kprio EXCEPT ![t] = ToKernel(p)]

----------------------------------------------------------------------------
MlockInit ==
    /\ port \in Ports
    /\ kprio = [t \in Lockers |-> ToKernel(Prio[t])]
    /\ tls_used = {} /\ tls_index = [prio |-> -1, cnt |-> -1]
    /\ tls = [t \in Lockers |-> [i \in 0 .. MAX_TLS_ID - 1 |-> 0]]
    /\ lock = [m \in Locks |-> [sem |-> -1, owner |-> Nobody, cnt |-> 0]]
    /\ at = [t \in Lockers |-> "idle"] /\ on = [t \in Lockers |-> Nobody]
    /\ holds = [t \in Lockers |-> [m \in Locks |-> 0]]

tls_get(t, name) == tls[t][tls_index[name]]

FreeIndices(used) == {i \in 0 .. MAX_TLS_ID - 1 : i \notin used}

\* The first free index.
os_thread_tls_alloc(used) == Lowest(FreeIndices(used))

\* Under os_sys_lock; the locks are initialised before there are threads that
\* could interfere on posix, where that does nothing.
os_mlock_init(m) ==
    /\ lock[m].sem = -1
    /\ lock' = [lock EXCEPT ![m] = [sem |-> 1, owner |-> Nobody, cnt |-> 0]]
    /\ IF tls_index.prio < 0
       THEN LET p == os_thread_tls_alloc(tls_used)
                c == os_thread_tls_alloc(tls_used \cup {p})
            IN  tls_index' = [prio |-> p, cnt |-> c] /\ tls_used' = tls_used \cup {p, c}
       ELSE UNCHANGED <<tls_used, tls_index>>
    /\ UNCHANGED <<port, kprio, tls, at, on, holds>>

GoesTo(t, place, m) == at' = [at EXCEPT ![t] = place] /\ on' = [on EXCEPT ![t] = m]

Again(t, m) ==
    /\ lock[m].owner = t /\ holds[t][m] < DepthMax
    /\ lock' = [lock EXCEPT ![m].cnt = @ + 1]
    /\ holds' = [holds EXCEPT ![t][m] = @ + 1]
    /\ UNCHANGED <<static, kprio, tls, at, on>>

\* The first lock a thread takes saves its priority and raises it, before it
\* has the lock.  The saved value is never cleared.
RaisePriority(t, m) ==
    IF tls_get(t, "prio") = 0
    THEN /\ tls' = [tls EXCEPT ![t][tls_index.prio] = os_thread_get_prio(t)]
         /\ IF os_thread_get_prio(t) < Prio[m] THEN os_thread_set_prio(t, Prio[m])
                                               ELSE UNCHANGED kprio
    ELSE UNCHANGED <<tls, kprio>>

\* Callers nest the locks they wait for in one order, that of their priority.
os_mlock_lock(t, m) ==
    /\ at[t] = "idle" /\ lock[m].sem >= 0
    /\ \A h \in Locks : holds[t][h] > 0 => Prio[h] <= Prio[m]
    /\ \/ Again(t, m)
       \/ /\ lock[m].owner # t
          /\ RaisePriority(t, m) /\ GoesTo(t, "wait", m)
          /\ UNCHANGED <<static, lock, holds>>

\* SEM_WAIT_S (&ps, OS_TIME_INFINITE).  Its result is ignored; here the wait
\* does not fail.  On posix it may: OS_TIME_INFINITE becomes a time of day
\* whose nanoseconds may exceed a second.
LockWait(t) ==
    /\ at[t] = "wait" /\ lock[on[t]].sem > 0
    /\ lock' = [lock EXCEPT ![on[t]].sem = @ - 1]
    /\ GoesTo(t, "own", on[t])
    /\ UNCHANGED <<static, kprio, tls, holds>>

Owns(t, m) ==
    /\ lock' = [lock EXCEPT ![m].owner = t, ![m].cnt = 1]
    /\ holds' = [holds EXCEPT ![t][m] = @ + 1]
    /\ GoesTo(t, "idle", Nobody)
    /\ UNCHANGED <<static, kprio>>

CountsLock(t, by) == tls' = [tls EXCEPT ![t][tls_index.cnt] = @ + by]

LockOwn(t) == at[t] = "own" /\ Owns(t, on[t]) /\ CountsLock(t, 1)

\* Mutant: trylock goes on whatever the semaphore answered.
TrylockIgnoresAnswer(t, m) ==
    /\ at[t] = "idle" /\ lock[m].sem >= 0
    /\ \/ Again(t, m)
       \/ /\ lock[m].owner # t
          /\ lock' = [lock EXCEPT ![m].sem = IF @ > 0 THEN @ - 1 ELSE 0]
          /\ GoesTo(t, "try", m)
          /\ UNCHANGED <<static, kprio, tls, holds>>

\* Here the priority is raised once the lock is taken.
os_mlock_trylock(t, m) ==
    /\ at[t] = "idle" /\ lock[m].sem >= 0
    /\ \/ Again(t, m)
       \/ /\ lock[m].owner # t /\ lock[m].sem > 0
          /\ lock' = [lock EXCEPT ![m].sem = @ - 1]
          /\ GoesTo(t, "try", m)
          /\ UNCHANGED <<static, kprio, tls, holds>>

TrylockOwn(t) ==
    /\ at[t] = "try"
    /\ RaisePriority(t, on[t]) /\ GoesTo(t, "own", on[t])
    /\ UNCHANGED <<static, lock, holds>>

os_mlock_unlock(t, m) ==
    /\ at[t] = "idle" /\ holds[t][m] > 0
    /\ holds' = [holds EXCEPT ![t][m] = @ - 1]
    /\ IF lock[m].cnt = 1
       THEN /\ lock' = [lock EXCEPT ![m].cnt = 0, ![m].owner = Nobody]
            /\ GoesTo(t, "leave", m)
       ELSE /\ lock' = [lock EXCEPT ![m].cnt = @ - 1]
            /\ UNCHANGED <<at, on>>
    /\ UNCHANGED <<static, kprio, tls>>

\* Mutant: the last of the locks is not told from the others.
RestoreLate(t) ==
    IF tls_get(t, "cnt") = 0 THEN os_thread_set_prio(t, tls_get(t, "prio")) ELSE UNCHANGED kprio

RestorePriority(t) ==
    IF tls_get(t, "cnt") = 1 THEN os_thread_set_prio(t, tls_get(t, "prio")) ELSE UNCHANGED kprio

\* The priority goes back when the thread's last lock does, then the
\* semaphore is signalled.
UnlockLeave(t) ==
    /\ at[t] = "leave"
    /\ CountsLock(t, -1) /\ RestorePriority(t)
    /\ lock' = [lock EXCEPT ![on[t]].sem = @ + 1]
    /\ GoesTo(t, "idle", Nobody)
    /\ UNCHANGED <<static, holds>>

\* Called when no other thread uses the lock: what the caller holds of it is
\* unlocked first, so the semaphore is free when it goes.
os_mlock_deinit(m) ==
    /\ lock[m].sem >= 0 /\ lock[m].owner = Nobody
    /\ \A t \in Lockers : on[t] # m
    /\ lock' = [lock EXCEPT ![m].sem = -1]
    /\ UNCHANGED <<static, kprio, tls, at, on, holds>>

MlockNext ==
    \/ \E m \in Locks : os_mlock_init(m) \/ os_mlock_deinit(m)
    \/ \E t \in Lockers, m \in Locks :
          os_mlock_lock(t, m) \/ os_mlock_trylock(t, m) \/ os_mlock_unlock(t, m)
    \/ \E t \in Lockers : LockWait(t) \/ LockOwn(t) \/ TrylockOwn(t) \/ UnlockLeave(t)

MlockSpec == MlockInit /\ [][MlockNext]_mlockVars

\* A lock has one holder, and its owner and cnt say who and how often, as long
\* as the wait for its semaphore does not fail (os_mlock_lock ignores that).
MlockExclusive ==
    \A m \in Locks : \A t \in Lockers : holds[t][m] > 0 =>
        /\ lock[m].owner = t /\ lock[m].cnt = holds[t][m]
        /\ \A u \in Lockers \ {t} : holds[u][m] = 0

\* A thread that holds nothing and is in no call runs at its own priority,
\* whatever locks it has taken, nested, tried and given back in any order: the
\* priority saved by the first lock survives the port's conversions.
PriorityRestored ==
    \A t \in Lockers : at[t] = "idle" /\ (\A m \in Locks : holds[t][m] = 0)
                       => kprio[t] = ToKernel(Prio[t])
=============================================================================
