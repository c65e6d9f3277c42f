------------------------------ MODULE OsTimers -------------------------------
(***************************************************************************)
(* One-shot timers (os_timer).  posix keeps a list that is sorted by the   *)
(* time of expiry and served by a thread of its own (os_posix.c, timer     *)
(* manager); the other kernels have timers.  Several threads may set,      *)
(* reset and delete the same timer: svc_tasks_schedule and                 *)
(* svc_tasks_task_event set one, the former without a mutex.               *)
(* Assumed of them: no two calls about one timer at a time, and while its  *)
(* callback runs it is set once only.  os_timer_set does not ensure this.  *)
(***************************************************************************)
EXTENDS OsPort

CONSTANTS
    Timers, Nil,
    Setters,    \* the threads that use the timers
    TicksMax    \* the longest time a timer is set for

VARIABLES
    head, next, \* the list of the timer manager
    expire,     \* ticks until a timer expires
    is_set, in_processing,
    exists,     \* timers that are initialised and not deleted
    serving,    \* the timer whose callback the timer thread runs, or Nil
    use,        \* each setter: the call it is in, its timer and its ticks
    armed       \* history: a set was completed, and nothing has undone it

timerVars == <<port, head, next, expire, is_set, in_processing, exists, serving, use, armed>>
list == <<head, next>>

NoUse == [step |-> "idle", timer |-> Nil, ticks |-> 0]

TimerInit ==
    /\ port \in Ports
    /\ head = Nil /\ next = [t \in Timers |-> Nil]
    /\ expire = [t \in Timers |-> 0]
    /\ is_set = [t \in Timers |-> FALSE] /\ in_processing = [t \in Timers |-> FALSE]
    /\ exists = {} /\ serving = Nil
    /\ use = [s \in Setters |-> NoUse]
    /\ armed = [t \in Timers |-> FALSE]

\* What is met when the list is walked: chain[i] after i steps.
Walk == 0 .. Cardinality(Timers) + 1
chain[i \in Walk] == IF i = 0 THEN head
                     ELSE IF chain[i - 1] = Nil THEN Nil ELSE next[chain[i - 1]]
Met(t) == {i \in Walk : chain[i] = t}

\* The list without t: its first occurrence is skipped.
Unlink(t) ==
    IF Met(t) = {} THEN UNCHANGED list
    ELSE LET i == CHOOSE i \in Met(t) : \A j \in Met(t) : i <= j
         IN  IF i = 0 THEN head' = next[t] /\ UNCHANGED next
             ELSE next' = [next EXCEPT ![chain[i - 1]] = next[t]] /\ UNCHANGED head

\* Where t goes: after all that expire no later.
Later(t) == {i \in Walk : chain[i] = Nil \/ expire[chain[i]] > expire[t]}

\* Mutant: a timer goes after the first one only.
InsertSecond(t) ==
    IF head = Nil THEN head' = t /\ next' = [next EXCEPT ![t] = Nil]
    ELSE next' = [next EXCEPT ![t] = next[head], ![head] = t] /\ UNCHANGED head

Insert(t) ==
    LET i == CHOOSE i \in Later(t) : \A j \in Later(t) : i <= j
    IN  IF i = 0 THEN head' = t /\ next' = [next EXCEPT ![t] = head]
        ELSE next' = [next EXCEPT ![t] = chain[i], ![chain[i - 1]] = t] /\ UNCHANGED head

InCall(t) == \E s \in Setters : use[s].timer = t

Free(s, t) == use[s].step = "idle" /\ t \in exists /\ ~InCall(t)

Goes(s, step, t, ticks) == use' = [use EXCEPT ![s] = [step |-> step, timer |-> t, ticks |-> ticks]]
Ends(s) == use' = [use EXCEPT ![s] = NoUse]

----------------------------------------------------------------------------
posix_init(t) ==
    /\ port = "posix" /\ t \notin exists
    /\ exists' = exists \cup {t}
    /\ expire' = [expire EXCEPT ![t] = 0] /\ next' = [next EXCEPT ![t] = Nil]
    /\ is_set' = [is_set EXCEPT ![t] = FALSE]
    /\ in_processing' = [in_processing EXCEPT ![t] = FALSE]
    /\ UNCHANGED <<port, head, serving, use, armed>>

kernel_init(t) ==
    /\ port # "posix" /\ t \notin exists
    /\ exists' = exists \cup {t} /\ is_set' = [is_set EXCEPT ![t] = FALSE]
    /\ UNCHANGED <<port, list, expire, in_processing, serving, use, armed>>

\* Under the manager's mutex; a timer whose callback runs is left as it is.
posix_reset(t) ==
    /\ port = "posix"
    /\ IF in_processing[t] THEN UNCHANGED <<list, is_set>>
       ELSE Unlink(t) /\ is_set' = [is_set EXCEPT ![t] = FALSE]

kernel_stop(t) == port # "posix" /\ is_set' = [is_set EXCEPT ![t] = FALSE] /\ UNCHANGED list

os_timer_reset(s, t) ==
    /\ Free(s, t)
    /\ posix_reset(t) \/ kernel_stop(t)
    /\ armed' = [armed EXCEPT ![t] = FALSE]
    /\ UNCHANGED <<port, expire, in_processing, exists, serving, use>>

os_timer_delete(s, t) ==
    /\ Free(s, t) /\ ~in_processing[t]
    /\ posix_reset(t) \/ kernel_stop(t)
    /\ exists' = exists \ {t} /\ armed' = [armed EXCEPT ![t] = FALSE]
    /\ UNCHANGED <<port, expire, in_processing, serving, use>>

\* os_timer_set: three steps on posix (reset, stamp, insert) ...
posix_set(s, t, ticks) ==
    /\ Free(s, t) /\ (in_processing[t] => Met(t) = {})
    /\ posix_reset(t) /\ Goes(s, "stamp", t, ticks)
    /\ armed' = [armed EXCEPT ![t] = FALSE]
    /\ UNCHANGED <<port, expire, in_processing, exists, serving>>

posix_set_stamp(s) ==
    /\ use[s].step = "stamp"
    /\ LET t == use[s].timer
       IN  /\ expire' = [expire EXCEPT ![t] = use[s].ticks]
           /\ is_set' = [is_set EXCEPT ![t] = TRUE]
           /\ Goes(s, "insert", t, 0)
    /\ UNCHANGED <<port, list, in_processing, exists, serving, armed>>

posix_set_insert(s) ==
    /\ use[s].step = "insert"
    /\ Insert(use[s].timer) /\ Ends(s)
    /\ armed' = [armed EXCEPT ![use[s].timer] = TRUE]
    /\ UNCHANGED <<port, expire, is_set, in_processing, exists, serving>>

\* ... stop and change on FreeRTOS, deactivate, change and activate on
\* ThreadX (what was changed is seen when it is activated), one on Zephyr.
rtos_set(s, t, ticks) ==
    /\ port \in Rtos /\ ticks > 0
    /\ Free(s, t) /\ kernel_stop(t) /\ Goes(s, "start", t, ticks)
    /\ armed' = [armed EXCEPT ![t] = FALSE]
    /\ UNCHANGED <<port, expire, in_processing, exists, serving>>

Started(t, ticks) ==
    /\ is_set' = [is_set EXCEPT ![t] = TRUE] /\ armed' = [armed EXCEPT ![t] = TRUE]
    /\ expire' = [expire EXCEPT ![t] = ticks]
    /\ UNCHANGED <<port, list, in_processing, exists, serving>>

rtos_set_start(s) ==
    /\ port \in Rtos /\ use[s].step = "start"
    /\ Started(use[s].timer, use[s].ticks) /\ Ends(s)

zephyr_set(s, t, ticks) ==
    /\ port = "zephyr" /\ Free(s, t) /\ UNCHANGED use
    /\ Started(t, IF ticks = 0 THEN 1 ELSE ticks)

----------------------------------------------------------------------------
\* Time passes; what has expired stays so.
Tick ==
    /\ \E t \in Timers : expire[t] > 0
    /\ expire' = [t \in Timers |-> IF expire[t] > 0 THEN expire[t] - 1 ELSE 0]
    /\ UNCHANGED <<port, list, is_set, in_processing, exists, serving, use, armed>>

\* The timer thread takes the head off the list and leaves the mutex.
timer_thread_expires ==
    /\ port = "posix" /\ serving = Nil /\ head # Nil /\ expire[head] = 0
    /\ serving' = head /\ head' = next[head]
    /\ in_processing' = [in_processing EXCEPT ![head] = TRUE]
    /\ armed' = [armed EXCEPT ![head] = FALSE]
    /\ UNCHANGED <<port, next, expire, is_set, exists, use>>

timer_thread_done ==
    /\ port = "posix" /\ serving # Nil
    /\ is_set' = [is_set EXCEPT ![serving] = FALSE]
    /\ in_processing' = [in_processing EXCEPT ![serving] = FALSE]
    /\ serving' = Nil
    /\ UNCHANGED <<port, list, expire, exists, use, armed>>

\* The kernel calls the callback.
kernel_expires(t) ==
    /\ port # "posix" /\ is_set[t] /\ expire[t] = 0
    /\ is_set' = [is_set EXCEPT ![t] = FALSE] /\ armed' = [armed EXCEPT ![t] = FALSE]
    /\ UNCHANGED <<port, list, expire, in_processing, exists, serving, use>>

TimerNext ==
    \/ \E t \in Timers : posix_init(t) \/ kernel_init(t) \/ kernel_expires(t)
    \/ \E s \in Setters, t \in Timers : os_timer_reset(s, t) \/ os_timer_delete(s, t)
    \/ \E s \in Setters, t \in Timers, ticks \in 0 .. TicksMax :
          posix_set(s, t, ticks) \/ rtos_set(s, t, ticks) \/ zephyr_set(s, t, ticks)
    \/ \E s \in Setters : posix_set_stamp(s) \/ posix_set_insert(s) \/ rtos_set_start(s)
    \/ Tick \/ timer_thread_expires \/ timer_thread_done

TimerSpec == TimerInit /\ [][TimerNext]_timerVars

\* A timer that was set and not reset, deleted or served since is pending, and
\* on posix exactly once, in a list that ends and is sorted: otherwise a walk
\* of the list, under the manager's mutex, does not end, or a timer is served
\* late or twice.
ArmedOnce ==
    /\ \A t \in Timers : armed[t] /\ ~InCall(t) =>
          IF port = "posix" THEN Cardinality(Met(t)) = 1 ELSE is_set[t]
    /\ chain[Cardinality(Timers)] = Nil
    /\ \A i, j \in Walk : i < j /\ chain[j] # Nil => expire[chain[i]] <= expire[chain[j]]
=============================================================================
