--------------------------- MODULE TaskLifecycle ---------------------------
(***************************************************************************)
(* What the task engine promises about one activation of a task, without   *)
(* its lists, timer and threads: svc_tasks_schedule accepts a task that is *)
(* not pending; each accepted activation is delivered once, to a callback  *)
(* with reason RUN (on a worker) or CANCELED (on the thread that cancels). *)
(***************************************************************************)
CONSTANTS Tasks, Actors, NoTask

VARIABLES
    pending,  \* accepted and not delivered yet
    serving   \* the task whose callback each thread has been committed to

vars == <<pending, serving>>

Init ==
    /\ pending = {}
    /\ serving = [a \in Actors |-> NoTask]

\* svc_tasks_schedule returns EOK.  A callback may schedule its own task.
Accept(t) ==
    /\ t \notin pending
    /\ pending' = pending \cup {t}
    /\ UNCHANGED serving

Deliver(a, t) ==
    /\ t \in pending
    /\ serving[a] = NoTask
    /\ pending' = pending \ {t}
    /\ serving' = [serving EXCEPT ![a] = t]

Finish(a) ==
    /\ serving[a] # NoTask
    /\ serving' = [serving EXCEPT ![a] = NoTask]
    /\ UNCHANGED pending

Next ==
    \/ \E t \in Tasks : Accept(t)
    \/ \E a \in Actors : \/ \E t \in Tasks : Deliver(a, t)
                         \/ Finish(a)

Spec == Init /\ [][Next]_vars
=============================================================================
