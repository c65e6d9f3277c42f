------------------------------ MODULE SvcTasks ------------------------------
(***************************************************************************)
(* The task engine of src/svc/svc_tasks.c: a list of timed tasks sorted by *)
(* deadline, one FIFO of ready tasks per priority queue, one worker thread *)
(* per queue, one OS timer that moves expired tasks to their queue, and    *)
(* the threads that schedule and cancel tasks.                             *)
(*                                                                         *)
(* A critical section of _svc_task_mutex that does not loop is one action; *)
(* what the code does outside the mutex (clearing a waitable's event,      *)
(* arming the timer, the callbacks, svc_tasks_complete) is an action of    *)
(* its own.  svc_tasks_task_event, which pops one expired task after the   *)
(* other and may be nested in another critical section, holds the mutex    *)
(* over several actions, so the clock and the unlocked code run meanwhile. *)
(***************************************************************************)
EXTENDS Integers, SequencesExt

CONSTANTS
    Tasks,      \* the SVC_TASKS_T objects
    Waitable,   \* those with SVC_TASKS_FLAGS_WAITABLE
    Queues,     \* the priority queues; a queue also names its worker thread
    Clients,    \* application threads that call the API
    Waiters,    \* those that may call svc_tasks_wait_queue
    Timer,      \* the thread that runs svc_tasks_task_event for the OS timer
    NoTask,     \* "no task" and "mutex free"
    Half,       \* half the range of a tick: ticks are modulo 2*Half (2^32)
    MaxDelay,   \* bound: longest delay a caller asks for
    MaxLate,    \* bound: how long, in ticks, threads leave an expired head
    MaxStops,   \* bound: calls of svc_tasks_stop
    MaxStarts,  \* bound: calls of svc_tasks_start after a stop
    Sticky,     \* a notification of a thread that does not wait yet is kept
                \* (FreeRTOS, ThreadX, Zephyr) or is lost (POSIX)
    Torn        \* another thread may run between the load and the store of
                \* "status &= ~ACTIVE" in svc_tasks_complete

Actors == Clients \cup Queues \cup {Timer}

ASSUME ActorsAssumption ==
    /\ Clients \cap Queues = {}
    /\ Timer \notin Clients \cup Queues
    /\ NoTask \notin Tasks /\ NoTask \notin Actors
    /\ Waitable \subseteq Tasks
    /\ Waiters \subseteq Clients

ASSUME BoundsAssumption ==
    /\ Half \in Nat /\ Half >= 2
    /\ MaxDelay \in Nat
    /\ MaxLate \in Nat
    /\ MaxStops \in Nat /\ MaxStarts \in Nat
    /\ Sticky \in BOOLEAN /\ Torn \in BOOLEAN

VARIABLES
    mutex,       \* owner of _svc_task_mutex, NoTask when free
    list,        \* _svc_tasks_list with the ticks and queue of its members
    list_count,  \* _svc_tasks_list_count
    ready,       \* _svc_tasks_ready_list
    ready_count, \* _svc_tasks_ready_count
    status,      \* SVC_TASKS_T.status: status value and ACTIVE bit
    event,       \* bit 0 of the event of a waitable task
    complete,    \* _svc_tasks_complete_event, one bit per queue
    notified,    \* the notification a worker finds in os_thread_wait
    timer,       \* ticks left on _svc_tasks_virtual_timer, -1 when not set
    fired,       \* the timer expired and its callback has yet to run
    run,         \* _svc_tasks_run
    stops,       \* number of svc_tasks_stop calls so far
    pc,          \* where each thread is
    call,        \* the call each thread is in: its task, queue and delay
    saved,       \* status loaded by svc_tasks_complete, yet to be stored
    asserted     \* a DBG_ASSERT_SVC_TASKS of the lists has failed

lists  == <<list, list_count, ready, ready_count>>
clock  == <<timer, fired>>
engine == <<run, stops>>
flow   == <<pc, call, saved>>
vars   == <<mutex, lists, status, event, complete, notified, clock, engine,
            flow, asserted>>

Statuses == {"COMPLETE", "QUEUED", "ACTIVE"}

\* A member of the timed list.  "left" is the true number of ticks left until
\* its deadline.  The code keeps the deadline itself but only ever uses the
\* differences of two deadlines and of a deadline and os_sys_ticks (), modulo
\* 2*Half: differences of two "left" values and "left" itself.
Entry == [task : Tasks, queue : Queues, left : Int]

\* The actual parameters of a call; the queue and delay of svc_tasks_schedule.
Call == [task : Tasks \cup {NoTask}, queue : Queues \cup {NoTask}, delay : Nat]
NoCall == [task |-> NoTask, queue |-> NoTask, delay |-> 0]

Labels == {"idle",                                   \* client, timer thread
           "loop", "sleep", "wait", "service", "callback",  \* worker
           "complete", "store", "signal", "done", "exit",
           "schedule", "arm", "check",               \* svc_tasks_schedule
           "evlock", "event",                        \* svc_tasks_task_event
           "unlink", "canceled", "canceledReady"}         \* svc_tasks_cancel

Listed == {list[i].task : i \in 1 .. Len(list)}
ReadyIn(q) == {ready[q][i] : i \in 1 .. Len(ready[q])}

\* (int32_t)x for a tick difference x.
Signed(x) == LET m == x % (2 * Half) IN IF m >= Half THEN m - 2 * Half ELSE m

Init ==
    /\ mutex = NoTask
    /\ list = <<>> /\ list_count = 0
    /\ ready = [q \in Queues |-> <<>>] /\ ready_count = 0
    /\ status = [t \in Tasks |-> "COMPLETE"]
    /\ event = [t \in Tasks |-> FALSE]
    /\ complete = [q \in Queues |-> FALSE]
    /\ notified = [q \in Queues |-> FALSE]
    /\ timer = -1 /\ fired = FALSE
    /\ run = TRUE /\ stops = 0
    /\ pc = [a \in Actors |-> IF a \in Queues THEN "loop" ELSE "idle"]
    /\ call = [a \in Actors |-> NoCall]
    /\ saved = [q \in Queues |-> "COMPLETE"]
    /\ asserted = FALSE

-----------------------------------------------------------------------------
Goto(a, l) == pc' = [pc EXCEPT ![a] = l]

\* What of a call is still needed after its critical section: the delay d, and
\* on a worker the task whose callback made the call.
Rest(a, d) == [task |-> IF a \in Queues THEN call[a].task ELSE NoTask,
               queue |-> NoTask, delay |-> d]

\* Leave the API call: a client is idle again, a worker back in its callback.
Return(a) ==
    /\ Goto(a, IF a \in Queues THEN "complete" ELSE "idle")
    /\ call' = [call EXCEPT ![a] = Rest(a, 0)]
    /\ UNCHANGED saved

\* Mutant: only a worker that is already blocked keeps a notification.
NotifyBlocked(q) == notified[q] \/ pc[q] = "wait"

\* os_thread_notify of a worker in state w; POSIX forgets it unless the worker
\* is already blocked in os_thread_wait.
Notify(q) == notified[q] \/ (pc[q] # "exit" /\ (Sticky \/ pc[q] = "wait"))

\* Mutant: the counter is forgotten.
ToReadyUncounted(t, q) ==
    /\ ready' = [ready EXCEPT ![q] = Append(@, t)]
    /\ complete' = [complete EXCEPT ![q] = FALSE]
    /\ notified' = [notified EXCEPT ![q] = Notify(q)]
    /\ UNCHANGED ready_count

\* task_to_ready, always called with the mutex held.
task_to_ready(t, q) ==
    /\ ready' = [ready EXCEPT ![q] = Append(@, t)]
    /\ ready_count' = ready_count + 1
    /\ complete' = [complete EXCEPT ![q] = FALSE]
    /\ notified' = [notified EXCEPT ![q] = Notify(q)]

-----------------------------------------------------------------------------
(* svc_tasks_schedule (and svc_tasks_add for a delay of 0).                *)

\* The range check of the delay and, before the mutex is taken and before it
\* is known whether the task is free, the clearing of a waitable's event.
ScheduleCall(a, t, q, d) ==
    /\ call' = [call EXCEPT ![a] = [task |-> t, queue |-> q,
                   delay |-> IF d >= Half - 1 THEN Half - 2 ELSE d]]
    /\ event' = [event EXCEPT ![t] = IF t \in Waitable THEN FALSE ELSE @]
    /\ Goto(a, "schedule")
    /\ UNCHANGED <<mutex, lists, status, complete, notified, clock, engine,
                   saved, asserted>>

ClientSchedule(c, t, q, d) == pc[c] = "idle" /\ ScheduleCall(c, t, q, d)

\* E_BUSY
ScheduleBusy(a) ==
    /\ pc[a] = "schedule" /\ mutex = NoTask
    /\ status[call[a].task] = "QUEUED"
    /\ Return(a)
    /\ UNCHANGED <<mutex, lists, status, event, complete, notified, clock,
                   engine, asserted>>

svc_tasks_add(a) ==
    LET t == call[a].task IN
    /\ pc[a] = "schedule" /\ mutex = NoTask
    /\ call[a].delay = 0
    /\ status[t] # "QUEUED"
    /\ status' = [status EXCEPT ![t] = "QUEUED"]
    /\ task_to_ready(t, call[a].queue)
    /\ Return(a)
    /\ UNCHANGED <<mutex, list, list_count, event, clock, engine, asserted>>

\* Mutant: without the cast to int32_t ">= 0" is always true.
IsInsertPosUnsigned(pos, delay) == pos = Len(list) + 1

\* The walk over the list stops at the first member that expires later.
IsInsertPos(pos, delay) ==
    /\ \A i \in 1 .. pos - 1 : Signed(delay - list[i].left) >= 0
    /\ pos <= Len(list) => Signed(delay - list[pos].left) < 0

InsertTimed(a) ==
    LET t == call[a].task IN
    /\ pc[a] = "schedule" /\ mutex = NoTask
    /\ call[a].delay > 0
    /\ status[t] # "QUEUED"
    /\ status' = [status EXCEPT ![t] = "QUEUED"]
    /\ \E pos \in 1 .. Len(list) + 1 :
          /\ IsInsertPos(pos, call[a].delay)
          /\ list' = InsertAt(list, pos, [task |-> t, queue |-> call[a].queue,
                                         left |-> call[a].delay])
          /\ IF pos = 1
             THEN Goto(a, "arm") /\ call' = [call EXCEPT ![a] = Rest(a, @.delay)]
             ELSE Goto(a, "check") /\ call' = [call EXCEPT ![a] = Rest(a, 0)]
          /\ asserted' = (asserted \/ \E i \in 1 .. pos - 1 : list[i].task = t)
    /\ list_count' = list_count + 1
    /\ UNCHANGED <<mutex, ready, ready_count, event, complete, notified, clock,
                   engine, saved>>

\* The new head sets the timer after the mutex is released.
ArmTimer(a) ==
    /\ pc[a] = "arm"
    /\ timer' = call[a].delay
    /\ Return(a)
    /\ UNCHANGED <<mutex, lists, status, event, complete, notified, fired,
                   engine, asserted>>

\* os_timer_is_set may still say yes while the callback of an expired timer is
\* under way (POSIX clears is_set when the callback has returned).
CheckTimer(a) ==
    /\ pc[a] = "check"
    /\ \/ /\ timer # -1 \/ fired \/ pc[Timer] = "event"
          /\ Return(a)
       \/ /\ timer = -1
          /\ Goto(a, "evlock")
          /\ UNCHANGED <<call, saved>>
    /\ UNCHANGED <<mutex, lists, status, event, complete, notified, clock,
                   engine, asserted>>

-----------------------------------------------------------------------------
(* svc_tasks_task_event, run by the timer, svc_tasks_schedule and          *)
(* svc_tasks_cancel.                                                       *)

TaskEventLock(a) ==
    /\ pc[a] = "evlock" /\ mutex = NoTask
    /\ mutex' = a
    /\ Goto(a, "event")
    /\ UNCHANGED <<lists, status, event, complete, notified, clock, engine,
                   call, saved, asserted>>

Expired(e) == Signed(e.left) <= 0

TaskEventPop(a) ==
    /\ pc[a] = "event"
    /\ list # <<>> /\ Expired(Head(list))
    /\ list' = Tail(list)
    /\ list_count' = list_count - 1
    /\ task_to_ready(Head(list).task, Head(list).queue)
    /\ asserted' = (asserted \/ list_count = 0)
    /\ UNCHANGED <<mutex, status, event, clock, engine, flow>>

\* Mutant: no timer for the tasks that stay in the list.
RearmNever == timer

\* What the timer is after task_event: set for the head, if any.
Rearm == IF list = <<>> THEN timer ELSE Head(list).left % (2 * Half)

\* The head has time left: set the timer for it.  The mutex is recursive: a
\* cancel of a timed task goes on in the critical section it is in.
TaskEventEnd(a) ==
    /\ pc[a] = "event"
    /\ list # <<>> => ~ Expired(Head(list))
    /\ timer' = Rearm
    /\ IF a \in Clients /\ call[a].task # NoTask
       THEN /\ Goto(a, "unlink")
            /\ UNCHANGED <<mutex, call, saved>>
       ELSE /\ mutex' = NoTask
            /\ Return(a)
    /\ UNCHANGED <<lists, status, event, complete, notified, fired,
                   engine, asserted>>

\* The OS timer expires; its callback runs on the timer or the event thread.
\* A second expiry before that is one event bit (or waits for the callback).
TimerExpire ==
    /\ timer = 0
    /\ timer' = -1
    /\ fired' = TRUE
    /\ UNCHANGED <<mutex, lists, status, event, complete, notified, engine,
                   flow, asserted>>

svc_tasks_virtual_timer ==
    /\ pc[Timer] = "idle" /\ fired
    /\ mutex = NoTask
    /\ fired' = FALSE
    /\ mutex' = Timer
    /\ Goto(Timer, "event")
    /\ UNCHANGED <<lists, status, event, complete, notified, timer, engine,
                   call, saved, asserted>>

\* One tick.  While the timer is not running, and threads are to act on an
\* expired head, MaxLate bounds how late they get.
Tick ==
    /\ timer > 0 \/ (list # <<>> => Head(list).left > - MaxLate)
    /\ timer' = IF timer > 0 THEN timer - 1 ELSE timer
    /\ list' = [i \in 1 .. Len(list) |-> [list[i] EXCEPT !.left = @ - 1]]
    /\ UNCHANGED <<mutex, list_count, ready, ready_count, status, event,
                   complete, notified, fired, engine, flow, asserted>>

\* The two assertions on _svc_tasks_ready_count as a member of queue q leaves.
CountAsserts(q) == ready_count = 0 \/ (ready_count = 1 /\ Len(ready[q]) > 1)

-----------------------------------------------------------------------------
(* svc_tasks_cancel, by a client.  It does nothing to a task that is not   *)
(* queued: the caller gets E_BUSY while its ACTIVE bit is set, else EOK.   *)

CancelTimed(c, t) ==
    /\ pc[c] = "idle" /\ mutex = NoTask
    /\ \E i \in 1 .. Len(list) :
          /\ list[i].task = t
          /\ list' = RemoveAt(list, i)
          /\ IF i = 1
             THEN /\ mutex' = c
                  /\ Goto(c, "event")
                  /\ UNCHANGED status
             ELSE /\ Goto(c, "canceled")
                  /\ status' = [status EXCEPT ![t] = "COMPLETE"]
                  /\ UNCHANGED mutex
    /\ list_count' = list_count - 1
    /\ asserted' = (asserted \/ list_count = 0)
    /\ call' = [call EXCEPT ![c].task = t]
    /\ UNCHANGED <<ready, ready_count, event, complete, notified, clock, engine,
                   saved>>

\* Mutant: the callback of a cancelled head is left out.
CancelUnlinkSilent(c) ==
    /\ pc[c] = "unlink"
    /\ status' = [status EXCEPT ![call[c].task] = "COMPLETE"]
    /\ mutex' = NoTask
    /\ Goto(c, "idle")
    /\ call' = [call EXCEPT ![c] = NoCall]
    /\ UNCHANGED <<lists, event, complete, notified, clock, engine, saved, asserted>>

\* The head was cancelled: task_event has run, the mutex is still held.
CancelUnlink(c) ==
    /\ pc[c] = "unlink"
    /\ status' = [status EXCEPT ![call[c].task] = "COMPLETE"]
    /\ mutex' = NoTask
    /\ Goto(c, "canceled")
    /\ UNCHANGED <<lists, event, complete, notified, clock, engine, call, saved,
                   asserted>>

\* Mutant: a cancelled waitable task is not signalled.
CanceledTimedSilent(c) ==
    /\ pc[c] = "canceled"
    /\ Return(c)
    /\ UNCHANGED <<mutex, lists, status, event, complete, notified, clock, engine,
                   asserted>>

\* The callback with reason CANCELED, then the signal of a waitable.
CanceledTimed(c) ==
    LET t == call[c].task IN
    /\ pc[c] = "canceled"
    /\ event' = [event EXCEPT ![t] = @ \/ t \in Waitable]
    /\ Return(c)
    /\ UNCHANGED <<mutex, lists, status, complete, notified, clock, engine,
                   asserted>>

\* task_ready_cancel up to the callback.
CancelReady(c, t) ==
    /\ pc[c] = "idle" /\ mutex = NoTask
    /\ t \notin Listed
    /\ status[t] = "QUEUED"
    /\ \E q \in Queues : \E i \in 1 .. Len(ready[q]) :
          /\ ready[q][i] = t
          /\ ready' = [ready EXCEPT ![q] = RemoveAt(@, i)]
          /\ asserted' = (asserted \/ CountAsserts(q))
    /\ ready_count' = ready_count - 1
    /\ status' = [status EXCEPT ![t] = "COMPLETE"]
    /\ call' = [call EXCEPT ![c].task = t]
    /\ Goto(c, "canceledReady")
    /\ UNCHANGED <<mutex, list, list_count, event, complete, notified, clock,
                   engine, saved>>

\* The callback, and with the mutex taken again the signal and task_event.
CanceledReady(c) ==
    LET t == call[c].task IN
    /\ pc[c] = "canceledReady" /\ mutex = NoTask
    /\ mutex' = c
    /\ event' = [event EXCEPT ![t] = @ \/ t \in Waitable]
    /\ Goto(c, "event")
    /\ call' = [call EXCEPT ![c] = NoCall]
    /\ UNCHANGED <<lists, status, complete, notified, clock, engine, saved,
                   asserted>>

\* "task_ready_cancel 0x%x not in list": the assertion fails.
CancelMissing(c, t) ==
    /\ pc[c] = "idle" /\ mutex = NoTask
    /\ status[t] = "QUEUED"
    /\ t \notin Listed /\ \A q \in Queues : t \notin ReadyIn(q)
    /\ asserted' = TRUE
    /\ UNCHANGED <<mutex, lists, status, event, complete, notified, clock,
                   engine, flow>>

CancelQueued(c, t) ==
    IF \E q \in Queues : t \in ReadyIn(q) THEN CancelReady(c, t) ELSE CancelMissing(c, t)

\* svc_tasks_wait_queue, which also takes the bit (as svc_tasks_start does).
svc_tasks_wait_queue(c, q) ==
    /\ pc[c] = "idle" /\ c \in Waiters
    /\ complete[q]
    /\ complete' = [complete EXCEPT ![q] = FALSE]
    /\ UNCHANGED <<mutex, lists, status, event, notified, clock, engine, flow,
                   asserted>>

-----------------------------------------------------------------------------
(* The worker thread of queue q: svc_tasks_thread, the callback it runs    *)
(* and svc_tasks_complete, which the callback calls.                       *)

\* Mutant: the worker does not tell that its queue is done.
WorkerLoopSilent(q) ==
    /\ pc[q] = "loop"
    /\ Goto(q, IF run THEN "sleep" ELSE "exit")
    /\ UNCHANGED <<mutex, lists, status, event, complete, notified, clock, engine,
                   call, saved, asserted>>

WorkerLoop(q) ==
    /\ pc[q] = "loop"
    /\ complete' = [complete EXCEPT ![q] = @ \/ run]
    /\ Goto(q, IF run THEN "sleep" ELSE "exit")
    /\ UNCHANGED <<mutex, lists, status, event, notified, clock, engine, call, saved, asserted>>

\* os_thread_wait: from here on the worker is blocked.
WorkerSleep(q) ==
    /\ pc[q] = "sleep"
    /\ Goto(q, "wait")
    /\ UNCHANGED <<mutex, lists, status, event, complete, notified, clock, engine, call, saved, asserted>>

WorkerWake(q) ==
    /\ pc[q] = "wait" /\ notified[q]
    /\ notified' = [notified EXCEPT ![q] = FALSE]
    /\ Goto(q, IF run THEN "service" ELSE "exit")
    /\ UNCHANGED <<mutex, lists, status, event, complete, clock, engine, call, saved, asserted>>

\* A wake-up without a notification (pthread_cond_wait may), or with one of
\* several that were counted (FreeRTOS): os_thread_wait returns all the same.
SpuriousWake(q) ==
    /\ pc[q] = "wait"
    /\ Goto(q, IF run THEN "service" ELSE "exit")
    /\ UNCHANGED <<mutex, lists, status, event, complete, notified, clock, engine,
                   call, saved, asserted>>

ServiceEmpty(q) ==
    /\ pc[q] = "service" /\ mutex = NoTask
    /\ ready[q] = <<>>
    /\ Goto(q, "loop")
    /\ UNCHANGED <<mutex, lists, status, event, complete, notified, clock,
                   engine, call, saved, asserted>>

svc_tasks_service_task(q) ==
    LET t == Head(ready[q]) IN
    /\ pc[q] = "service" /\ mutex = NoTask
    /\ ready[q] # <<>>
    /\ ready' = [ready EXCEPT ![q] = Tail(@)]
    /\ ready_count' = ready_count - 1
    /\ asserted' = (asserted \/ CountAsserts(q))
    /\ status' = [status EXCEPT ![t] = "ACTIVE"]
    /\ call' = [call EXCEPT ![q].task = t]
    /\ Goto(q, "callback")
    /\ UNCHANGED <<mutex, list, list_count, event, complete, notified, clock,
                   engine, saved>>

\* A periodic task: its callback schedules it again before it completes.
CallbackReschedule(q, p, d) ==
    /\ pc[q] = "callback"
    /\ ScheduleCall(q, call[q].task, p, d)

\* Mutants: "=" and "^=" for "&= ~".
ClearActiveAll(s) == "COMPLETE"
ClearActiveXor(s) == CASE s = "ACTIVE"   -> "COMPLETE"
                       [] s = "COMPLETE" -> "ACTIVE"
                       [] s = "QUEUED"   -> "QUEUED ACTIVE"

\* status & ~SERVICE_STATUS_ACTIVE_BIT
ClearActive(s) == IF s = "ACTIVE" THEN "COMPLETE" ELSE s

AfterStore(q) == IF call[q].task \in Waitable THEN "signal" ELSE "done"

\* No mutex is held.
svc_tasks_complete(q) ==
    /\ pc[q] \in {"callback", "complete"}
    /\ saved' = [saved EXCEPT ![q] = IF Torn THEN status[call[q].task] ELSE @]
    /\ Goto(q, "store")
    /\ UNCHANGED <<mutex, lists, status, event, complete, notified, clock, engine, call, asserted>>

\* One instruction, or, when Torn, the store of what was loaded before.
CompleteStore(q) ==
    /\ pc[q] = "store"
    /\ status' = [status EXCEPT
                     ![call[q].task] = ClearActive(IF Torn THEN saved[q] ELSE @)]
    /\ saved' = [saved EXCEPT ![q] = "COMPLETE"]
    /\ Goto(q, AfterStore(q))
    /\ UNCHANGED <<mutex, lists, event, complete, notified, clock, engine, call, asserted>>

CompleteSignal(q) ==
    /\ pc[q] = "signal"
    /\ event' = [event EXCEPT ![call[q].task] = TRUE]
    /\ Goto(q, "done")
    /\ UNCHANGED <<mutex, lists, status, complete, notified, clock, engine, call, saved, asserted>>

\* The callback has returned.
CallbackDone(q) ==
    /\ pc[q] = "done"
    /\ complete' = [complete EXCEPT ![q] = TRUE]
    /\ call' = [call EXCEPT ![q] = NoCall]
    /\ Goto(q, "service")
    /\ UNCHANGED <<mutex, lists, status, event, notified, clock, engine, saved,
                   asserted>>

-----------------------------------------------------------------------------
(* svc_tasks_stop and svc_tasks_start.                                     *)

\* The timer callback is unregistered, the timer reset (POSIX does not while
\* its callback is under way) and every worker notified.
svc_tasks_stop ==
    /\ run /\ stops < MaxStops
    /\ run' = FALSE
    /\ stops' = stops + 1
    /\ \/ timer' = -1 /\ fired' = FALSE
       \/ (fired \/ pc[Timer] = "event") /\ UNCHANGED <<timer, fired>>
    /\ notified' = [q \in Queues |-> Notify(q)]
    /\ UNCHANGED <<mutex, lists, status, event, complete, flow, asserted>>

Joined == \A q \in Queues : pc[q] = "exit"

svc_tasks_start ==
    /\ ~ run /\ stops <= MaxStarts /\ Joined
    /\ run' = TRUE
    /\ pc' = [a \in Actors |-> IF a \in Queues THEN "loop" ELSE pc[a]]
    /\ complete' = [q \in Queues |-> FALSE]
    /\ notified' = [q \in Queues |-> FALSE]
    /\ UNCHANGED <<mutex, lists, status, event, clock, stops, call, saved,
                   asserted>>

-----------------------------------------------------------------------------
\* The steps of svc_tasks_schedule and svc_tasks_task_event of any thread.
CallStep(a) ==
    \/ ScheduleBusy(a) \/ svc_tasks_add(a) \/ InsertTimed(a)
    \/ ArmTimer(a) \/ CheckTimer(a)
    \/ TaskEventLock(a) \/ TaskEventPop(a) \/ TaskEventEnd(a)

CancelStep(c) == CancelUnlink(c) \/ CanceledTimed(c) \/ CanceledReady(c)

WorkerStep(q) ==
    \/ WorkerLoop(q) \/ WorkerSleep(q) \/ WorkerWake(q)
    \/ ServiceEmpty(q) \/ svc_tasks_service_task(q)
    \/ svc_tasks_complete(q) \/ CompleteStore(q)
    \/ CompleteSignal(q) \/ CallbackDone(q)

ClientCall(c) ==
    \/ \E t \in Tasks, q \in Queues, d \in 0 .. MaxDelay : ClientSchedule(c, t, q, d)
    \/ \E t \in Tasks : CancelTimed(c, t) \/ CancelQueued(c, t)
    \/ \E q \in Queues : svc_tasks_wait_queue(c, q)

Next ==
    \/ \E a \in Actors : CallStep(a)
    \/ \E c \in Clients : ClientCall(c) \/ CancelStep(c)
    \/ \E q \in Queues : WorkerStep(q) \/ SpuriousWake(q)
    \/ \E q, p \in Queues, d \in 0 .. MaxDelay : CallbackReschedule(q, p, d)
    \/ TimerExpire \/ svc_tasks_virtual_timer \/ Tick
    \/ svc_tasks_stop \/ svc_tasks_start

Spec == Init /\ [][Next]_vars

\* Every thread that can run runs; one that waits for the mutex gets it in the
\* end, however often others take it (the mutexes of the ports queue their
\* waiters); time passes.  Nobody has to call the API or to reschedule.
Fairness ==
    /\ \A a \in Actors : SF_vars(CallStep(a))
    /\ \A c \in Clients : SF_vars(CancelStep(c))
    /\ \A q \in Queues : SF_vars(WorkerStep(q))
    /\ SF_vars(svc_tasks_virtual_timer)
    /\ WF_vars(TimerExpire) /\ WF_vars(Tick)

FairSpec == Spec /\ Fairness

-----------------------------------------------------------------------------
(* Properties                                                              *)

InCallback == {"callback", "complete", "store", "signal", "done"}
InCall == {"schedule", "arm", "check", "evlock", "event"}

TypeOK ==
    /\ mutex \in Actors \cup {NoTask}
    /\ list \in Seq(Entry) /\ list_count \in Int
    /\ ready \in [Queues -> Seq(Tasks)] /\ ready_count \in Int
    /\ status \in [Tasks -> Statuses]
    /\ event \in [Tasks -> BOOLEAN]
    /\ complete \in [Queues -> BOOLEAN]
    /\ notified \in [Queues -> BOOLEAN]
    /\ timer \in Int /\ fired \in BOOLEAN
    /\ run \in BOOLEAN /\ stops \in Nat
    /\ pc \in [Actors -> Labels]
    /\ call \in [Actors -> Call]
    /\ saved \in [Queues -> Statuses]
    /\ asserted \in BOOLEAN

\* A client took the head t off the list but is still in the critical section.
Unlinking(c, t) ==
    /\ pc[c] \in {"event", "unlink"}
    /\ call[c].task = t

\* The accepted activations that no callback has been called for yet.
Pending == Listed \cup (UNION {ReadyIn(q) : q \in Queues})
                  \cup {t \in Tasks : \E c \in Clients : Unlinking(c, t)}

\* The status byte, which schedule and cancel trust, tells the truth about the
\* lists although svc_tasks_complete writes it without the mutex: a task is
\* QUEUED exactly when it waits in the timed list or in a ready queue (or is
\* being taken off by a cancel).
QueuedIsPending == \A t \in Tasks : status[t] = "QUEUED" <=> t \in Pending

\* A task is a member of one list, once: a second insertion of its one "next"
\* pointer would cut or knot a list.
ListedOnce ==
    /\ \A i, j \in 1 .. Len(list) : list[i].task = list[j].task => i = j
    /\ \A q \in Queues : \A i, j \in 1 .. Len(ready[q]) :
           ready[q][i] = ready[q][j] => i = j
    /\ \A q \in Queues : ReadyIn(q) \cap Listed = {}
    /\ \A p, q \in Queues : p # q => ReadyIn(p) \cap ReadyIn(q) = {}

\* None of the list assertions of svc_tasks.c fails: the counters agree with
\* the lists, schedule does not meet its own task, cancel finds a QUEUED task.
NoAssertFails == ~ asserted

\* _svc_tasks_list_count and _svc_tasks_ready_count, which the "queued_count"
\* functions report, equal the lengths of the lists at every step.
CountsAgree ==
    /\ list_count = Len(list)
    /\ ready_count = FoldFunction(LAMBDA s, n : n + Len(s), 0, ready)

\* The signed comparison of wrapping ticks sorts by true deadline, first come
\* first, also when the head is overdue: what task_event, which only looks at
\* the head, relies on.
SortedByDeadline ==
    \A i, j \in 1 .. Len(list) : i < j => list[i].left <= list[j].left

\* A thread that is about to set the timer or to look at the list.
WillLook == {"arm", "check", "evlock", "event"}
AtRest == ~ fired /\ \A a \in Actors : pc[a] \notin WillLook

\* A timed task is never left without a timer, although the timer is armed and
\* inspected outside the mutex by several threads (until svc_tasks_stop).
TimerRuns == stops = 0 /\ AtRest /\ list # <<>> => timer # -1

\* "If signaled, it takes pending tasks from its queue": a worker does not
\* block with work in its queue and no notification to wake it, whatever the
\* order of the notification and its going to sleep.
NoLostWakeup ==
    \A q \in Queues : pc[q] = "wait" /\ ready[q] # <<>> => notified[q]

\* The life of an activation seen from outside.
Serving == [a \in Actors |->
    IF \/ a \in Queues
       \/ a \in Clients /\ pc[a] \in {"canceled", "canceledReady"}
    THEN call[a].task ELSE NoTask]

Life == INSTANCE TaskLifecycle WITH pending <- Pending, serving <- Serving

\* The engine implements the abstract life of a task: accepted only when not
\* pending, then handed to exactly one callback, of a worker or of a cancel.
LifeSpec == Life!Spec

\* Every accepted activation gets its callback, unless the tasks are stopped:
\* no list, timer or notification forgets it.
EventuallyServed == \A t \in Tasks : t \in Pending ~> (t \notin Pending \/ ~ run)

\* svc_tasks_wait of a waitable task that is queued returns: its event is set
\* whether it runs or is cancelled, and whoever schedules it meanwhile.
WaiterReleased ==
    \A t \in Waitable : t \in Pending ~> (event[t] \/ ~ run)

\* svc_tasks_wait_queue returns: the bit that a new ready task clears is set
\* again once its queue has been served.
QueueWaiterReleased ==
    \A q \in Queues : (ready[q] # <<>> /\ ~ complete[q]) ~> (complete[q] \/ ~ run)

\* svc_tasks_stop ends every worker, so that its join returns, provided that
\* tasks stop being scheduled: a worker looks at _svc_tasks_run only when its
\* queue is empty.
StopJoins ==
    <>[](\A a \in Actors : pc[a] # "schedule") => (~ run ~> (Joined \/ run))
=============================================================================
