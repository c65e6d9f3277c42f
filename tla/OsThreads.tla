------------------------------ MODULE OsThreads ------------------------------
(***************************************************************************)
(* One thread of the os_thread interface over its life: its owner creates  *)
(* it, tells it something (os_thread_notify), and joins it; the thread     *)
(* waits (os_thread_wait) and returns.  The owner is sequential, as in     *)
(* svc_tasks and svc_threads.                                              *)
(***************************************************************************)
EXTENDS OsPort

CONSTANTS
    NoteMax,    \* bound on the notifications a port counts
    IsrMsgs     \* the messages an interrupt tells a thread; 0 is EOK

VARIABLES
    mem,        \* what the thread object lies in: "none" | "heap" | "static"
    run,        \* where the thread is
    handle,     \* *thread of its owner: "null" | "live" | "dangling"
    join_sem,   \* count of wa->join_sem
    owner,      \* where its owner is
    outcome,    \* what the owner's last call returned
    note,       \* notifications that wait for the thread
    asleep,     \* the thread in os_thread_wait
    got,        \* what os_thread_wait returned last
    owed        \* history: told something since it last woke

threadVars == <<port, mem, run, handle, join_sem, owner, outcome, note,
                asleep, got, owed>>
life == <<mem, run, handle, join_sem, owner, outcome>>
told == <<note, asleep, got, owed>>

ThreadInit ==
    /\ port \in Ports
    /\ mem = "none" /\ run = "none" /\ handle = "null" /\ join_sem = 0
    /\ owner = "idle" /\ outcome = "none"
    /\ note = 0 /\ asleep = "no" /\ got = "none" /\ owed = FALSE

----------------------------------------------------------------------------
(* os_thread_create and os_thread_create_static: take the memory, create   *)
(* the kernel's thread in it (it may run from then on), store the handle.  *)

\* No memory, or a working area that does not serve: refused says how.
Reserve(kind, refused) ==
    /\ owner = "idle" /\ mem = "none" /\ run \in {"none", "gone"}
    /\ handle' = "null"
    /\ \/ mem' = kind /\ owner' = "alloc" /\ UNCHANGED outcome
       \/ \E error \in refused : outcome' = error /\ UNCHANGED <<mem, owner>>
    /\ UNCHANGED <<port, run, join_sem, told>>

\* The kernel has no thread to give: what was taken is given back.
KernelRefuses ==
    /\ owner = "alloc"
    /\ mem' = "none" /\ owner' = "idle" /\ outcome' = "EFAIL"
    /\ UNCHANGED <<port, run, handle, join_sem, told>>

KernelCreates ==
    /\ owner = "alloc"
    /\ run' = "created" /\ join_sem' = 0 /\ owner' = "created"
    /\ note' = 0 /\ asleep' = "no" /\ got' = "none" /\ owed' = FALSE
    /\ UNCHANGED <<port, mem, handle, outcome>>

StoreHandle ==
    /\ owner = "created"
    /\ handle' = "live" /\ owner' = "idle" /\ outcome' = "EOK"
    /\ UNCHANGED <<port, mem, run, join_sem, told>>

posix_create         == port = "posix"    /\ Reserve("heap", {"E_NOMEM"})
posix_create_static  == port = "posix"    /\ Reserve("static", {"E_NOMEM", "EFAIL"})
freertos_create      == port = "freertos" /\ Reserve("heap", {"E_NOMEM"})
freertos_create_static == port = "freertos" /\ Reserve("static", {})
threadx_create       == port = "threadx"  /\ Reserve("heap", {"E_NOMEM"})
threadx_create_static == port = "threadx" /\ Reserve("static", {})
zephyr_create        == port = "zephyr"   /\ Reserve("heap", {"E_PARM", "E_NOMEM"})
zephyr_create_static == port = "zephyr"   /\ Reserve("static", {"E_PARM"})

----------------------------------------------------------------------------
(* The thread.                                                             *)

Gives(from, to) ==
    /\ run = from /\ run' = to
    /\ join_sem' = join_sem + 1
    /\ UNCHANGED <<port, mem, handle, owner, outcome, told>>

Moves(from, to) ==
    /\ run = from /\ run' = to
    /\ UNCHANGED <<port, mem, handle, join_sem, owner, outcome, told>>

ThreadStarts == Moves("created", "running")

FunctionReturns == asleep = "no" /\ Moves("running", "returned")

posix_task_start == port = "posix" /\ Gives("returned", "gave")

\* A thread on the heap stays suspended until it is deleted.
freertos_task_start ==
    /\ port = "freertos"
    /\ \/ Gives("returned", "gave")
       \/ mem = "heap" /\ Moves("gave", "suspended")
       \/ mem = "static" /\ Moves("gave", "gone")

threadx_task_start ==
    /\ port = "threadx"
    /\ Gives("returned", "gave") \/ Moves("gave", "gone")

zephyr_thread_entry ==
    /\ port = "zephyr"
    /\ Moves("returned", "terminated") \/ Gives("terminated", "gave") \/ Moves("gave", "gone")

----------------------------------------------------------------------------
(* The owner.                                                              *)

Released(newHandle, newRun) ==
    /\ mem' = "none" /\ handle' = newHandle /\ run' = newRun
    /\ owner' = "idle" /\ outcome' = "EOK"
    /\ UNCHANGED <<port, join_sem, told>>

\* Mutant: the suspended thread is not deleted before its memory is freed.
FreertosFreesOnly == port = "freertos" /\ Released("dangling", run)

posix_release    == port = "posix" /\ run = "gave" /\ Released("null", "gone")
freertos_release == port = "freertos" /\ Released("dangling", "gone")
threadx_release  == port = "threadx" /\ Released("dangling", "gone")

\* A thread that is marked terminated is not aborted, although it may still
\* be on its stack.
zephyr_release ==
    /\ port = "zephyr"
    /\ Released("null", IF run \in {"terminated", "gave", "gone"} THEN run ELSE "gone")

os_thread_release ==
    /\ owner = "release"
    /\ posix_release \/ freertos_release \/ threadx_release \/ zephyr_release

JoinCalled(how) ==
    /\ owner = "idle" /\ handle = "live"
    /\ owner' = how
    /\ UNCHANGED <<port, mem, run, handle, join_sem, outcome, told>>

os_thread_join ==
    /\ owner \in {"join", "join_timeout"} /\ join_sem > 0
    /\ join_sem' = join_sem - 1 /\ owner' = "release"
    /\ UNCHANGED <<port, mem, run, handle, outcome, told>>

\* The posix port waits without a limit here too.
os_thread_join_timeout ==
    /\ port # "posix" /\ owner = "join_timeout" /\ join_sem = 0
    /\ owner' = "idle" /\ outcome' = "E_TIMEOUT"
    /\ UNCHANGED <<port, mem, run, handle, join_sem, told>>

----------------------------------------------------------------------------
(* Notifications.                                                          *)

WaitCalled(how) ==
    /\ run = "running" /\ asleep = "no"
    /\ asleep' = how
    /\ UNCHANGED <<port, life, note, got, owed>>

Wakes(left, result) ==
    /\ asleep' = "no" /\ note' = left /\ got' = result
    /\ owed' = IF result = "E_TIMEOUT" THEN owed ELSE FALSE
    /\ UNCHANGED <<port, life>>

\* The condition variable may also let the thread go when nobody told it.
posix_wait == port = "posix" /\ asleep # "no" /\ Wakes(note, "told")

freertos_wait ==
    /\ port = "freertos" /\ asleep # "no"
    /\ \/ note > 0 /\ Wakes(note - 1, "told")
       \/ note = 0 /\ asleep = "woken" /\ Wakes(0, "E_TIMEOUT")

threadx_wait == port = "threadx" /\ asleep # "no" /\ note > 0 /\ Wakes(0, "told")

\* Mutant: every wait clears the count, before it looks.
ZephyrWaitClears ==
    /\ port = "zephyr" /\ asleep # "no"
    /\ IF note > 0 /\ asleep = "forever" THEN Wakes(0, "told") ELSE Wakes(0, "E_TIMEOUT")

zephyr_wait == port = "zephyr" /\ asleep # "no" /\ note > 0 /\ Wakes(note - 1, "told")

\* The kernel decides on a timeout and on a notification under one lock.
WaitTimesOut == asleep = "timed" /\ note = 0 /\ Wakes(0, "E_TIMEOUT")

\* Whoever has the handle may tell the thread while its owner joins it.
Tells(count, wake) ==
    /\ handle = "live"
    /\ note' = count /\ owed' = TRUE
    /\ asleep' = IF wake /\ asleep # "no" THEN "woken" ELSE asleep
    /\ UNCHANGED <<port, life, got>>

Pokes ==
    /\ handle = "live"
    /\ asleep' = IF asleep # "no" THEN "woken" ELSE asleep
    /\ UNCHANGED <<port, life, note, got, owed>>

\* A condition variable remembers nothing: a thread that does not wait yet
\* is not told.
posix_notify == port = "posix" /\ Tells(0, TRUE)
freertos_notify == port = "freertos" /\ note < NoteMax /\ Tells(note + 1, FALSE)
threadx_notify == port = "threadx" /\ Tells(1, FALSE)
zephyr_notify == port = "zephyr" /\ note < NoteMax /\ Tells(note + 1, FALSE)

\* eSetBits: the message is OR-ed into the count that os_thread_wait takes; 0
\* wakes the thread and tells it nothing.
freertos_notify_isr(msg) ==
    /\ port = "freertos"
    /\ IF msg = 0 THEN Pokes ELSE Tells(2 * (note \div 2) + 1, TRUE)

----------------------------------------------------------------------------
ThreadNext ==
    \/ posix_create \/ posix_create_static \/ freertos_create \/ freertos_create_static
    \/ threadx_create \/ threadx_create_static \/ zephyr_create \/ zephyr_create_static
    \/ KernelCreates \/ KernelRefuses \/ StoreHandle
    \/ ThreadStarts \/ FunctionReturns
    \/ posix_task_start \/ freertos_task_start \/ threadx_task_start \/ zephyr_thread_entry
    \/ \E how \in {"join", "join_timeout"} : JoinCalled(how)
    \/ os_thread_join \/ os_thread_join_timeout \/ os_thread_release
    \/ \E how \in {"forever", "timed"} : WaitCalled(how)
    \/ posix_wait \/ freertos_wait \/ threadx_wait \/ zephyr_wait \/ WaitTimesOut
    \/ posix_notify \/ freertos_notify \/ threadx_notify \/ zephyr_notify
    \/ \E msg \in IsrMsgs : freertos_notify_isr(msg)

ThreadSpec == ThreadInit /\ [][ThreadNext]_threadVars

\* The memory of a thread is given back only after its function has returned
\* and signalled, and then nothing runs in it, except on Zephyr, where the
\* thread may not yet have left its stack (os_thread_release).
FreedIsDone ==
    [][mem # "none" /\ mem' = "none" /\ owner = "release"
       => /\ run \in {"gave", "suspended", "gone"}
          /\ run' = "gone" \/ port = "zephyr"]_threadVars

\* Where the kernel keeps a notification, a wait that times out has missed
\* none: everything told since the thread last woke has been delivered.  The
\* posix port keeps none, and an interrupt's message 0 is none (FreeRTOS).
NoLostNotify ==
    [][asleep # "no" /\ asleep' = "no" /\ got' = "E_TIMEOUT" /\ port # "posix"
       => ~owed]_threadVars
=============================================================================
