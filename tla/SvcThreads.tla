----------------------------- MODULE SvcThreads ------------------------------
(***************************************************************************)
(* The threads of src/svc/svc_threads.c: created with an object that their *)
(* owner allocates, entered in a list, moved to the list of the completed  *)
(* when they end, and joined by the idle thread, which then calls the      *)
(* completion callback.  A user of the module says what a thread does      *)
(* (module SvcServices does).                                              *)
(***************************************************************************)
EXTENDS Integers, Sequences

CONSTANTS
    Objects,    \* the SVC_THREADS_T objects; a thread has the name of its object
    Idle,       \* svc_threads_idle
    NoOne,
    SemMax      \* bound on the count of _svc_threads_sem

ASSUME ObjectsAssumption ==
    /\ Idle \notin Objects /\ NoOne \notin Objects \cup {Idle}
    /\ SemMax \in Nat \ {0}

VARIABLES
    threads_mutex,  \* owner of _svc_threads_mutex
    active,     \* pf # 0 of an object
    thread,     \* what the system's thread of an object does
    list,       \* _svc_threads_list
    complete,   \* _svc_threads_complete
    sem,        \* _svc_threads_sem
    idle,       \* where the idle thread is
    reaped      \* the object it has taken off the list of the completed

threadsVars == <<threads_mutex, active, thread, list, complete, sem, idle, reaped>>

ThreadsInit ==
    /\ threads_mutex = NoOne
    /\ active = [o \in Objects |-> FALSE]
    /\ thread = [o \in Objects |-> "none"]
    /\ list = {} /\ complete = <<>>
    /\ sem = 0
    /\ idle = "wait" /\ reaped = NoOne

\* The thread may run before its object is in the list, but not end: it needs
\* the mutex for that.  The system may have no thread to give.
svc_threads_create(o, given) ==
    /\ threads_mutex = NoOne
    /\ active' = [active EXCEPT ![o] = given]
    /\ IF given THEN /\ thread' = [thread EXCEPT ![o] = "running"]
                     /\ list' = list \cup {o}
                ELSE UNCHANGED <<thread, list>>
    /\ UNCHANGED <<threads_mutex, complete, sem, idle, reaped>>

\* Mutant: the idle thread is not told.
TerminateSilent(o) ==
    /\ thread[o] = "running" /\ threads_mutex = NoOne
    /\ thread' = [thread EXCEPT ![o] = "exiting"]
    /\ list' = list \ {o} /\ complete' = <<o>> \o complete
    /\ UNCHANGED <<threads_mutex, active, sem, idle, reaped>>

svc_threads_terminate(o) ==
    /\ thread[o] = "running" /\ threads_mutex = NoOne /\ sem < SemMax
    /\ thread' = [thread EXCEPT ![o] = "exiting"]
    /\ IF o \in list
       THEN list' = list \ {o} /\ complete' = <<o>> \o complete /\ sem' = sem + 1
       ELSE UNCHANGED <<list, complete, sem>>
    /\ UNCHANGED <<threads_mutex, active, idle, reaped>>

\* svc_thread_start returns, and the thread can be joined.
ThreadExit(o) ==
    /\ thread[o] = "exiting"
    /\ thread' = [thread EXCEPT ![o] = "ended"]
    /\ UNCHANGED <<threads_mutex, active, list, complete, sem, idle, reaped>>

IdleWait ==
    /\ idle = "wait" /\ sem > 0
    /\ sem' = sem - 1 /\ idle' = "check"
    /\ UNCHANGED <<threads_mutex, active, thread, list, complete, reaped>>

\* svc_threads_count: one call of svc_threads_complete_check after the other
\* until there is nothing to do.
CheckEmpty ==
    /\ idle = "check" /\ complete = <<>>
    /\ idle' = "wait"
    /\ UNCHANGED <<threads_mutex, active, thread, list, complete, sem, reaped>>
CheckTake ==
    /\ idle = "check" /\ complete # <<>> /\ threads_mutex = NoOne
    /\ threads_mutex' = Idle
    /\ reaped' = Head(complete) /\ complete' = Tail(complete)
    /\ idle' = "join"
    /\ UNCHANGED <<active, thread, list, sem>>

\* Mutant: the object is free before the thread has ended.
CheckNoJoin ==
    /\ idle = "join"
    /\ active' = [active EXCEPT ![reaped] = FALSE]
    /\ threads_mutex' = NoOne /\ idle' = "call"
    /\ UNCHANGED <<thread, list, complete, sem, reaped>>

\* os_thread_join, with the mutex held.
CheckJoin ==
    /\ idle = "join" /\ thread[reaped] = "ended"
    /\ thread' = [thread EXCEPT ![reaped] = "none"]
    /\ active' = [active EXCEPT ![reaped] = FALSE]
    /\ threads_mutex' = NoOne /\ idle' = "call"
    /\ UNCHANGED <<list, complete, sem, reaped>>

\* The completion callback has returned.
CheckCalled ==
    /\ idle = "call"
    /\ idle' = "check" /\ reaped' = NoOne
    /\ UNCHANGED <<threads_mutex, active, thread, list, complete, sem>>

IdleStep == IdleWait \/ CheckEmpty \/ CheckTake \/ CheckJoin
=============================================================================
