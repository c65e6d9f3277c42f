--------------------------- MODULE SvcTasksLifeProof ---------------------------
(***************************************************************************)
(* Proof that the task engine implements TaskLifecycle: every step accepts *)
(* an activation, delivers one, finishes one, or is invisible.             *)
(***************************************************************************)
EXTENDS SvcTasksListsProof

\* The task whose callback thread a is committed to.
Serve(a) ==
    IF \/ a \in Queues
       \/ a \in Clients /\ pc[a] \in {"canceled", "canceledReady"}
    THEN call[a].task ELSE NoTask

\* A worker outside svc_tasks_service_task serves no task.
ServeInv ==
    \A q \in Queues : pc[q] \in {"loop", "sleep", "wait", "service", "exit"}
                          => call[q].task = NoTask

LifeInv == TypeInv /\ LockInv /\ ListInv /\ ServeInv

Queued == {t \in Tasks : status[t] = "QUEUED"}

LEMMA PendingIsQueued ==
    ASSUME TypeInv, ListInv
    PROVE  Pending = Queued
<1>1. QueuedIsPending
  BY ListInvImplies
<1>2. Pending \subseteq Tasks
  <2> DEFINE A == UNION {ReadyIn(q) : q \in Queues}
             B == {u \in Tasks : \E c \in Clients : Unlinking(c, u)}
  <2>1. Listed \subseteq Tasks /\ A \subseteq Tasks /\ B \subseteq Tasks
    BY MembersAreTasks DEF TypeInv
  <2>2. Pending = Listed \cup A \cup B
    BY DEF Pending
  <2> HIDE DEF A, B
  <2>3. QED
    BY <2>1, <2>2
<1>3. QED
  BY <1>1, <1>2 DEF QueuedIsPending, Queued

LEMMA PendingIsQueuedNext == (LifeInv => Pending = Queued)'
<1>1. LifeInv => Pending = Queued
  BY PendingIsQueued DEF LifeInv
<1>2. QED
  BY <1>1, PTL

LEMMA ServingIs ==
    /\ Serving = [a \in Actors |-> Serve(a)]
    /\ Serving' = [a \in Actors |-> Serve(a)']
BY DEF Serving, Serve

\* The four kinds of steps, by what they do to the status and the calls.
LifeStep == [Life!Next]_(Life!vars)

LEMMA Stutter ==
    ASSUME Pending' = Pending, \A a \in Actors : Serve(a)' = Serve(a)
    PROVE  LifeStep
<1>1. Serving' = Serving
  BY ServingIs
<1>2. QED
  BY <1>1 DEF LifeStep, Life!vars

LEMMA Accepted ==
    ASSUME NEW t \in Tasks, t \notin Pending, Pending' = Pending \cup {t},
           \A a \in Actors : Serve(a)' = Serve(a)
    PROVE  LifeStep
<1>1. Serving' = Serving
  BY ServingIs
<1>2. Life!Accept(t)
  BY <1>1 DEF Life!Accept
<1>3. QED
  BY <1>2 DEF LifeStep, Life!Next

LEMMA Delivered ==
    ASSUME NEW a \in Actors, NEW t \in Tasks, t \in Pending,
           Pending' = Pending \ {t}, Serve(a) = NoTask, Serve(a)' = t,
           \A b \in Actors \ {a} : Serve(b)' = Serve(b)
    PROVE  LifeStep
<1>1. Serving' = [Serving EXCEPT ![a] = t] /\ Serving[a] = NoTask
  BY ServingIs
<1>2. Life!Deliver(a, t)
  BY <1>1 DEF Life!Deliver
<1>3. QED
  BY <1>2 DEF LifeStep, Life!Next

LEMMA Finished ==
    ASSUME NEW a \in Actors, Pending' = Pending, Serve(a) # NoTask,
           Serve(a)' = NoTask, \A b \in Actors \ {a} : Serve(b)' = Serve(b)
    PROVE  LifeStep
<1>1. Serving' = [Serving EXCEPT ![a] = NoTask] /\ Serving[a] # NoTask
  BY ServingIs
<1>2. Life!Finish(a)
  BY <1>1 DEF Life!Finish
<1>3. QED
  BY <1>2 DEF LifeStep, Life!Next

\* A thread at label l0 goes to l and keeps the task it serves.
LEMMA ServeFrame ==
    ASSUME TypeInv, NEW a \in Actors, NEW l \in Labels, Goto(a, l),
           pc[a] \notin {"canceled", "canceledReady"},
           l \notin {"canceled", "canceledReady"},
           a \in Queues => call'[a].task = call[a].task,
           \A b \in Actors \ {a} : call'[b] = call[b]
    PROVE  \A b \in Actors : Serve(b)' = Serve(b)
BY ActorsFacts DEF Serve, Goto, TypeInv, TypeOK

LEMMA ServeSame ==
    ASSUME UNCHANGED <<pc, call>>
    PROVE  \A b \in Actors : Serve(b)' = Serve(b)
BY DEF Serve

\* The other threads serve what they served.
LEMMA ServeOthers ==
    ASSUME TypeInv, NEW a \in Actors, NEW l \in Labels, Goto(a, l),
           \A b \in Actors \ {a} : call'[b] = call[b]
    PROVE  \A b \in Actors \ {a} : Serve(b)' = Serve(b)
BY DEF Serve, Goto, TypeInv, TypeOK

LEMMA ReturnServe ==
    ASSUME TypeInv, NEW a \in Actors, Return(a),
           pc[a] \notin {"canceled", "canceledReady"}
    PROVE  \A b \in Actors : Serve(b)' = Serve(b)
<1>1. a \in Queues => call'[a].task = call[a].task
  BY DEF Return, Rest, TypeInv, TypeOK
<1>2. QED
  BY <1>1, ReturnGoto, ServeFrame DEF Labels

-----------------------------------------------------------------------------
(* The invariant.                                                          *)

LEMMA ServeInvStep == TypeInv /\ ServeInv /\ [Next]_vars => ServeInv'
<1> SUFFICES ASSUME TypeInv, ServeInv, [Next]_vars
             PROVE  ServeInv'
  OBVIOUS
<1> USE ActorsFacts
<1> DEFINE Free == {"loop", "sleep", "wait", "service", "exit"}
<1>1. ASSUME NEW a \in Actors, CallStep(a)
      PROVE  ServeInv'
  <2>1. /\ \A q \in Queues : pc'[q] \in Free => pc'[q] = pc[q]
        /\ \A q \in Queues : pc'[q] = pc[q] => call'[q] = call[q]
    <3>1. CASE TaskEventPop(a)
      BY <3>1 DEF TaskEventPop, flow
    <3>2. CASE ~ TaskEventPop(a)
      <4>1. \E l \in {"idle", "complete", "arm", "check", "evlock", "event",
                      "unlink"} : Goto(a, l) /\ pc[a] # l
        BY <1>1, <3>2 DEF CallStep, ScheduleBusy, svc_tasks_add, InsertTimed, ArmTimer,
            CheckTimer, TaskEventLock, TaskEventEnd, Return
      <4>2. \A b \in Actors \ {a} : call'[b] = call[b]
        BY <1>1, <3>2 DEF CallStep, ScheduleBusy, svc_tasks_add, InsertTimed, ArmTimer,
            CheckTimer, TaskEventLock, TaskEventEnd, Return, TypeInv, TypeOK
      <4>3. QED
        BY <4>1, <4>2 DEF Goto, TypeInv, TypeOK
    <3>3. QED
      BY <3>1, <3>2
  <2>2. QED
    BY <2>1 DEF ServeInv
<1>2. ASSUME NEW c \in Clients, ClientCall(c) \/ CancelStep(c)
      PROVE  ServeInv'
  <2>1. \A q \in Queues : pc'[q] = pc[q] /\ call'[q] = call[q]
    BY <1>2 DEF ClientCall, CancelQueued, CancelStep, ClientSchedule, ScheduleCall, CancelTimed,
        CancelReady, CancelMissing, svc_tasks_wait_queue, CancelUnlink,
        CanceledTimed, CanceledReady, Return, Goto, flow, TypeInv, TypeOK
  <2>2. QED
    BY <2>1 DEF ServeInv
<1>3. ASSUME NEW q \in Queues, WorkerStep(q)
      PROVE  ServeInv'
  <2>1. \A p \in Queues \ {q} : pc'[p] = pc[p] /\ call'[p] = call[p]
    BY <1>3 DEF WorkerStep, WorkerLoop, WorkerSleep, WorkerWake, ServiceEmpty,
        svc_tasks_service_task, svc_tasks_complete, CompleteStore, CompleteSignal,
        CallbackDone, Goto, TypeInv, TypeOK
  <2>2. pc'[q] \in Free => call'[q].task = NoTask
    <3>1. CASE WorkerLoop(q) \/ WorkerSleep(q) \/ WorkerWake(q) \/ ServiceEmpty(q)
      BY <3>1 DEF WorkerLoop, WorkerSleep, WorkerWake, ServiceEmpty, ServeInv
    <3>2. CASE \/ svc_tasks_service_task(q) \/ svc_tasks_complete(q)
               \/ CompleteStore(q) \/ CompleteSignal(q)
      <4>1. \E l \in {"callback", "store", "signal", "done"} : Goto(q, l)
        BY <3>2 DEF svc_tasks_service_task, svc_tasks_complete, CompleteStore,
            CompleteSignal, AfterStore
      <4>2. QED
        BY <4>1 DEF Goto, TypeInv, TypeOK
    <3>3. CASE CallbackDone(q)
      BY <3>3 DEF CallbackDone, NoCall, TypeInv, TypeOK
    <3>4. QED
      BY <1>3, <3>1, <3>2, <3>3 DEF WorkerStep
  <2>3. QED
    BY <2>1, <2>2 DEF ServeInv
<1>4. ASSUME NEW q \in Queues, NEW p \in Queues, NEW d \in 0 .. MaxDelay,
             CallbackReschedule(q, p, d)
      PROVE  ServeInv'
  BY <1>4 DEF CallbackReschedule, ScheduleCall, Goto, ServeInv, TypeInv, TypeOK
<1>4a. ASSUME NEW q \in Queues, SpuriousWake(q)
       PROVE  ServeInv'
  BY <1>4a DEF SpuriousWake, Goto, ServeInv, TypeInv, TypeOK
<1>5. CASE TimerExpire \/ svc_tasks_virtual_timer \/ Tick \/ svc_tasks_stop
  <2>1. \A q \in Queues : pc'[q] = pc[q] /\ call'[q] = call[q]
    BY <1>5 DEF TimerExpire, svc_tasks_virtual_timer, Tick, svc_tasks_stop, Goto,
        flow, TypeInv, TypeOK
  <2>2. QED
    BY <2>1 DEF ServeInv
<1>6. CASE svc_tasks_start
  BY <1>6 DEF svc_tasks_start, Joined, ServeInv
<1>7. CASE UNCHANGED vars
  BY <1>7 DEF vars, flow, ServeInv
<1>8. QED
  BY <1>1, <1>2, <1>3, <1>4, <1>4a, <1>5, <1>6, <1>7 DEF Next

-----------------------------------------------------------------------------
(* Step simulation: each step is one of the four kinds.                    *)

LEMMA PendingSame ==
    ASSUME LifeInv, LifeInv', status' = status
    PROVE  Pending' = Pending
<1>1. Pending = Queued /\ Pending' = Queued'
  BY PendingIsQueued, PendingIsQueuedNext DEF LifeInv
<1>2. QED
  BY <1>1 DEF Queued

\* A status that becomes QUEUED, and one that stops to be.
LEMMA PendingGrows ==
    ASSUME LifeInv, LifeInv', NEW t \in Tasks, status[t] # "QUEUED",
           status' = [status EXCEPT ![t] = "QUEUED"]
    PROVE  t \notin Pending /\ Pending' = Pending \cup {t}
<1>1. Pending = Queued /\ Pending' = Queued'
  BY PendingIsQueued, PendingIsQueuedNext DEF LifeInv
<1>2. Queued' = Queued \cup {t}
  BY DEF Queued, LifeInv, TypeInv, TypeOK
<1>3. QED
  BY <1>1, <1>2 DEF Queued

LEMMA PendingShrinks ==
    ASSUME LifeInv, LifeInv', NEW t \in Tasks, status[t] = "QUEUED",
           NEW s \in Statuses \ {"QUEUED"}, status' = [status EXCEPT ![t] = s]
    PROVE  t \in Pending /\ Pending' = Pending \ {t}
<1>1. Pending = Queued /\ Pending' = Queued'
  BY PendingIsQueued, PendingIsQueuedNext DEF LifeInv
<1>2. Queued' = Queued \ {t}
  BY DEF Queued, LifeInv, TypeInv, TypeOK
<1>3. QED
  BY <1>1, <1>2 DEF Queued

LEMMA CallLife ==
    ASSUME LifeInv, LifeInv', NEW a \in Actors, CallStep(a)
    PROVE  LifeStep
<1> USE ActorsFacts DEF LifeInv
<1> DEFINE Same == \A b \in Actors : Serve(b)' = Serve(b)
<1>1. CASE svc_tasks_add(a)
  <2>1. /\ pc[a] = "schedule" /\ Return(a) /\ status[call[a].task] # "QUEUED"
        /\ status' = [status EXCEPT ![call[a].task] = "QUEUED"]
    BY <1>1 DEF svc_tasks_add
  <2>2. PICK t \in Tasks : t = call[a].task
    BY <2>1 DEF TypeInv, CallOK
  <2>3. Same
    BY <2>1, ReturnServe
  <2>4. QED
    BY <2>1, <2>2, <2>3, PendingGrows, Accepted
<1>2. CASE InsertTimed(a)
  <2>1. /\ pc[a] = "schedule" /\ status[call[a].task] # "QUEUED"
        /\ status' = [status EXCEPT ![call[a].task] = "QUEUED"]
    BY <1>2 DEF InsertTimed
  <2>2. PICK t \in Tasks : t = call[a].task
    BY <2>1 DEF TypeInv, CallOK
  <2>3. PICK l \in {"arm", "check"}, d \in {call[a].delay, 0} :
            Goto(a, l) /\ call' = [call EXCEPT ![a] = Rest(a, d)]
    BY <1>2 DEF InsertTimed, TypeInv, TypeOK
  <2>4. Same
    <3>1. /\ a \in Queues => call'[a].task = call[a].task
          /\ \A b \in Actors \ {a} : call'[b] = call[b]
      BY <2>3 DEF Rest, TypeInv, TypeOK
    <3>2. QED
      BY <2>1, <2>3, <3>1, ServeFrame DEF Labels
  <2>5. QED
    BY <2>1, <2>2, <2>4, PendingGrows, Accepted
<1>3. ASSUME status' = status, Same
      PROVE  LifeStep
  BY <1>3, PendingSame, Stutter
<1>4. CASE ScheduleBusy(a)
  BY <1>3, <1>4, ReturnServe DEF ScheduleBusy
<1>5. CASE ArmTimer(a)
  BY <1>3, <1>5, ReturnServe DEF ArmTimer
<1>6. CASE CheckTimer(a)
  <2>1. status' = status /\ pc[a] = "check"
    BY <1>6 DEF CheckTimer
  <2>2. Return(a) \/ (Goto(a, "evlock") /\ call' = call)
    BY <1>6 DEF CheckTimer
  <2>3. QED
    BY <1>3, <2>1, <2>2, ReturnServe, ServeFrame DEF Labels
<1>7. CASE TaskEventLock(a)
  BY <1>3, <1>7, ServeFrame DEF TaskEventLock, Labels
<1>8. CASE TaskEventPop(a)
  BY <1>3, <1>8, ServeSame DEF TaskEventPop, flow
<1>9. CASE TaskEventEnd(a)
  <2>1. status' = status /\ pc[a] = "event"
    BY <1>9 DEF TaskEventEnd
  <2>2. Return(a) \/ (Goto(a, "unlink") /\ call' = call)
    BY <1>9 DEF TaskEventEnd
  <2>3. QED
    BY <1>3, <2>1, <2>2, ReturnServe, ServeFrame DEF Labels
<1>10. QED
  BY <1>1, <1>2, <1>4, <1>5, <1>6, <1>7, <1>8, <1>9 DEF CallStep

LEMMA ClientLife ==
    ASSUME LifeInv, LifeInv', NEW c \in Clients, ClientCall(c) \/ CancelStep(c)
    PROVE  LifeStep
<1> USE ActorsFacts DEF LifeInv
<1> c \in Actors /\ c \notin Queues
  OBVIOUS
<1> DEFINE Same == \A b \in Actors : Serve(b)' = Serve(b)
<1>1. ASSUME status' = status, Same
      PROVE  LifeStep
  BY <1>1, PendingSame, Stutter
<1>2. ASSUME NEW t \in Tasks, NEW q \in Queues, NEW d \in 0 .. MaxDelay,
             ClientSchedule(c, t, q, d)
      PROVE  LifeStep
  <2>1. /\ pc[c] = "idle" /\ Goto(c, "schedule") /\ status' = status
        /\ \A b \in Actors \ {c} : call'[b] = call[b]
    BY <1>2 DEF ClientSchedule, ScheduleCall, TypeInv, TypeOK
  <2>2. QED
    BY <1>1, <2>1, ServeFrame DEF Labels
<1>3. ASSUME NEW t \in Tasks, CancelTimed(c, t)
      PROVE  LifeStep
  <2>1. /\ pc[c] = "idle" /\ call' = [call EXCEPT ![c].task = t]
        /\ \A b \in Actors \ {c} : call'[b] = call[b]
    BY <1>3 DEF CancelTimed, TypeInv, TypeOK
  <2>2. \/ Goto(c, "event") /\ status' = status
        \/ /\ Goto(c, "canceled")
           /\ status' = [status EXCEPT ![t] = "COMPLETE"]
    BY <1>3 DEF CancelTimed
  <2>3. CASE Goto(c, "event") /\ status' = status
    BY <1>1, <2>1, <2>3, ServeFrame DEF Labels
  <2>4. CASE /\ Goto(c, "canceled")
             /\ status' = [status EXCEPT ![t] = "COMPLETE"]
    <3>1. t \in Listed
      BY <1>3 DEF CancelTimed, Listed
    <3>2. status[t] = "QUEUED" /\ "COMPLETE" \in Statuses \ {"QUEUED"}
      BY <3>1 DEF ListInv, Placed, Statuses
    <3>3. t \in Pending /\ Pending' = Pending \ {t}
      BY <2>4, <3>2, PendingShrinks
    <3>4. Serve(c) = NoTask /\ Serve(c)' = t
      BY <2>1, <2>4 DEF Serve, Goto, TypeInv, TypeOK, Call
    <3>5. \A b \in Actors \ {c} : Serve(b)' = Serve(b)
      BY <2>1, <2>4, ServeOthers DEF Labels
    <3>6. QED
      BY <3>3, <3>4, <3>5, Delivered
  <2>5. QED
    BY <2>2, <2>3, <2>4
<1>4. ASSUME NEW t \in Tasks, CancelReady(c, t)
      PROVE  LifeStep
  <2>1. /\ pc[c] = "idle" /\ call' = [call EXCEPT ![c].task = t]
        /\ \A b \in Actors \ {c} : call'[b] = call[b]
        /\ Goto(c, "canceledReady") /\ status[t] = "QUEUED"
        /\ status' = [status EXCEPT ![t] = "COMPLETE"]
    BY <1>4 DEF CancelReady, TypeInv, TypeOK
  <2>2. t \in Pending /\ Pending' = Pending \ {t}
    BY <2>1, PendingShrinks DEF Statuses
  <2>3. Serve(c) = NoTask /\ Serve(c)' = t
    BY <2>1 DEF Serve, Goto, TypeInv, TypeOK, Call
  <2>4. \A b \in Actors \ {c} : Serve(b)' = Serve(b)
    BY <2>1, ServeOthers DEF Labels
  <2>5. QED
    BY <2>2, <2>3, <2>4, Delivered
<1>5. ASSUME NEW t \in Tasks, CancelMissing(c, t)
      PROVE  LifeStep
  BY <1>1, <1>5, ServeSame DEF CancelMissing, flow
<1>6. ASSUME NEW q \in Queues, svc_tasks_wait_queue(c, q)
      PROVE  LifeStep
  BY <1>1, <1>6, ServeSame DEF svc_tasks_wait_queue, flow
<1>7. CASE CancelUnlink(c)
  <2>1. /\ pc[c] = "unlink" /\ call' = call /\ Goto(c, "canceled")
        /\ status' = [status EXCEPT ![call[c].task] = "COMPLETE"]
    BY <1>7 DEF CancelUnlink
  <2>2. PICK t \in Tasks : t = call[c].task
    BY <2>1 DEF TypeInv, CallOK
  <2>3. status[t] = "QUEUED" /\ "COMPLETE" \in Statuses \ {"QUEUED"}
    BY <2>1, <2>2 DEF ListInv, Placed, Unlinked, Unlinking, Statuses
  <2>4. t \in Pending /\ Pending' = Pending \ {t}
    BY <2>1, <2>2, <2>3, PendingShrinks
  <2>5. Serve(c) = NoTask /\ Serve(c)' = t
    BY <2>1, <2>2 DEF Serve, Goto, TypeInv, TypeOK
  <2>6. \A b \in Actors \ {c} : Serve(b)' = Serve(b)
    BY <2>1, ServeOthers DEF Labels
  <2>7. QED
    BY <2>4, <2>5, <2>6, Delivered
<1>8. ASSUME pc[c] \in {"canceled", "canceledReady"}, status' = status,
             NEW l \in {"idle", "event"}, Goto(c, l),
             \A b \in Actors \ {c} : call'[b] = call[b]
      PROVE  LifeStep
  <2>1. Serve(c) # NoTask
    BY <1>8 DEF Serve, TypeInv, CallOK
  <2>2. Serve(c)' = NoTask
    BY <1>8 DEF Serve, Goto, TypeInv, TypeOK
  <2>3. \A b \in Actors \ {c} : Serve(b)' = Serve(b)
    BY <1>8, ServeOthers DEF Labels
  <2>4. QED
    BY <1>8, <2>1, <2>2, <2>3, PendingSame, Finished
<1>9. CASE CanceledTimed(c)
  <2>1. pc[c] = "canceled" /\ status' = status /\ Return(c)
    BY <1>9 DEF CanceledTimed
  <2>2. Goto(c, "idle") /\ \A b \in Actors \ {c} : call'[b] = call[b]
    BY <2>1 DEF Return, TypeInv, TypeOK
  <2>3. QED
    BY <1>8, <2>1, <2>2
<1>10. CASE CanceledReady(c)
  <2>1. /\ pc[c] = "canceledReady" /\ status' = status /\ Goto(c, "event")
        /\ \A b \in Actors \ {c} : call'[b] = call[b]
    BY <1>10 DEF CanceledReady, TypeInv, TypeOK
  <2>2. QED
    BY <1>8, <2>1
<1>11. QED
  BY <1>2, <1>3, <1>4, <1>5, <1>6, <1>7, <1>9, <1>10 DEF ClientCall, CancelQueued, CancelStep

LEMMA WorkerLife ==
    ASSUME ~ Torn, LifeInv, LifeInv', NEW q \in Queues, WorkerStep(q)
    PROVE  LifeStep
<1> USE ActorsFacts DEF LifeInv
<1> q \in Actors /\ q \notin Clients
  OBVIOUS
<1>1. ASSUME status' = status, call' = call,
             NEW l \in {"sleep", "wait", "exit", "service", "loop", "store", "done"},
             Goto(q, l)
      PROVE  LifeStep
  <2>1. \A b \in Actors : Serve(b)' = Serve(b)
    BY <1>1 DEF Serve, Goto, TypeInv, TypeOK
  <2>2. QED
    BY <1>1, <2>1, PendingSame, Stutter
<1>2. CASE WorkerLoop(q) \/ WorkerSleep(q)
  BY <1>1, <1>2 DEF WorkerLoop, WorkerSleep
<1>3. CASE WorkerWake(q)
  BY <1>1, <1>3 DEF WorkerWake
<1>4. CASE ServiceEmpty(q)
  BY <1>1, <1>4 DEF ServiceEmpty
<1>5. CASE svc_tasks_service_task(q)
  <2>1. /\ pc[q] = "service" /\ Goto(q, "callback") /\ ready[q] # <<>>
        /\ status' = [status EXCEPT ![Head(ready[q])] = "ACTIVE"]
        /\ call' = [call EXCEPT ![q].task = Head(ready[q])]
        /\ \A b \in Actors \ {q} : call'[b] = call[b]
    BY <1>5 DEF svc_tasks_service_task, TypeInv, TypeOK
  <2>2. Head(ready[q]) \in Tasks /\ Head(ready[q]) \in ReadyIn(q)
    <3>1. ready[q] \in Seq(Tasks)
      BY DEF TypeInv, TypeOK
    <3>2. Len(ready[q]) \in Nat \ {0} /\ Head(ready[q]) = ready[q][1]
      BY <2>1, <3>1, EmptySeq
    <3>3. QED
      BY <2>1, <3>1, <3>2, HeadTailProperties DEF ReadyIn
  <2>3. PICK t \in Tasks : t = Head(ready[q])
    BY <2>2
  <2>4. status[t] = "QUEUED" /\ "ACTIVE" \in Statuses \ {"QUEUED"}
    BY <2>2, <2>3 DEF ListInv, Placed, Statuses
  <2>5. t \in Pending /\ Pending' = Pending \ {t}
    BY <2>1, <2>3, <2>4, PendingShrinks
  <2>6. Serve(q) = NoTask /\ Serve(q)' = t
    BY <2>1, <2>3 DEF Serve, ServeInv, TypeInv, TypeOK, Call
  <2>7. \A b \in Actors \ {q} : Serve(b)' = Serve(b)
    BY <2>1, ServeOthers DEF Labels
  <2>8. QED
    BY <2>5, <2>6, <2>7, Delivered
<1>6. CASE CompleteStore(q)
  <2>1. /\ pc[q] = "store" /\ Goto(q, AfterStore(q))
        /\ call' = call
        /\ status' = [status EXCEPT ![call[q].task] =
                          ClearActive(status[call[q].task])]
    BY <1>6 DEF CompleteStore
  <2>2. call[q].task \in Tasks
    BY <2>1 DEF TypeInv, CallOK, InCallback
  <2>3. Pending = Queued /\ Pending' = Queued'
    BY PendingIsQueued, PendingIsQueuedNext
  <2>4. Queued' = Queued
    BY <2>1, <2>2 DEF Queued, ClearActive, TypeInv, TypeOK
  <2>5. AfterStore(q) \in Labels \ {"canceled", "canceledReady"}
    BY DEF AfterStore, Labels
  <2>6. \A b \in Actors : Serve(b)' = Serve(b)
    BY <2>1, <2>5, ServeFrame
  <2>7. QED
    BY <2>3, <2>4, <2>6, Stutter
<1>7. CASE svc_tasks_complete(q)
  BY <1>1, <1>7 DEF svc_tasks_complete
<1>8. CASE CompleteSignal(q)
  BY <1>1, <1>8 DEF CompleteSignal
<1>9. CASE CallbackDone(q)
  <2>1. /\ pc[q] = "done" /\ Goto(q, "service") /\ status' = status
        /\ call' = [call EXCEPT ![q] = NoCall]
        /\ \A b \in Actors \ {q} : call'[b] = call[b]
    BY <1>9 DEF CallbackDone, TypeInv, TypeOK
  <2>2. Serve(q) # NoTask
    BY <2>1 DEF Serve, TypeInv, CallOK, InCallback
  <2>3. Serve(q)' = NoTask
    BY <2>1 DEF Serve, NoCall, TypeInv, TypeOK
  <2>4. \A b \in Actors \ {q} : Serve(b)' = Serve(b)
    BY <2>1, ServeOthers DEF Labels
  <2>5. QED
    BY <2>1, <2>2, <2>3, <2>4, PendingSame, Finished
<1>10. QED
  BY <1>2, <1>3, <1>4, <1>5, <1>6, <1>7, <1>8, <1>9 DEF WorkerStep

LEMMA LifeNext ==
    ASSUME ~ Torn
    PROVE  LifeInv /\ LifeInv' /\ [Next]_vars => LifeStep
<1> SUFFICES ASSUME LifeInv, LifeInv', [Next]_vars
             PROVE  LifeStep
  OBVIOUS
<1> USE ActorsFacts DEF LifeInv
<1>1. ASSUME status' = status, \A b \in Actors : Serve(b)' = Serve(b)
      PROVE  LifeStep
  BY <1>1, PendingSame, Stutter
<1>2. ASSUME NEW q \in Queues, NEW p \in Queues, NEW d \in 0 .. MaxDelay,
             CallbackReschedule(q, p, d)
      PROVE  LifeStep
  <2>1. /\ pc[q] = "callback" /\ Goto(q, "schedule") /\ status' = status
        /\ call'[q].task = call[q].task
        /\ \A b \in Actors \ {q} : call'[b] = call[b]
    BY <1>2 DEF CallbackReschedule, ScheduleCall, TypeInv, TypeOK
  <2>2. QED
    BY <1>1, <2>1, ServeFrame DEF Labels
<1>2a. ASSUME NEW q \in Queues, SpuriousWake(q)
       PROVE  LifeStep
  <2>1. /\ status' = status /\ pc[q] = "wait" /\ call' = call
        /\ \E l \in {"service", "exit"} : Goto(q, l)
    BY <1>2a DEF SpuriousWake
  <2>2. QED
    BY <1>1, <2>1, ServeFrame DEF Labels
<1>3. CASE TimerExpire \/ Tick \/ svc_tasks_stop
  BY <1>1, <1>3, ServeSame DEF TimerExpire, Tick, svc_tasks_stop, flow
<1>4. CASE svc_tasks_virtual_timer
  BY <1>1, <1>4, ServeFrame DEF svc_tasks_virtual_timer, Labels
<1>5. CASE svc_tasks_start
  BY <1>1, <1>5 DEF svc_tasks_start, Serve, TypeInv, TypeOK
<1>6. CASE UNCHANGED vars
  BY <1>1, <1>6, ServeSame DEF vars, flow
<1>7. QED
  BY <1>2, <1>2a, <1>3, <1>4, <1>5, <1>6, CallLife, WorkerLife, ClientLife DEF Next

LEMMA LifeInit == Init => Life!Init /\ ServeInv
<1> SUFFICES ASSUME Init PROVE Life!Init /\ ServeInv
  OBVIOUS
<1>1. ServeInv
  BY ActorsFacts DEF Init, ServeInv, NoCall
<1>2. Pending = {}
  <2>1. TypeInv /\ ListInv
    BY TypeInit, ListInit
  <2>2. QED
    BY <2>1, PendingIsQueued DEF Init, Queued
<1>3. Serving = [a \in Actors |-> NoTask]
  BY ActorsFacts DEF Init, Serving, NoCall
<1>4. QED
  BY <1>1, <1>2, <1>3 DEF Life!Init

\* The task engine implements TaskLifecycle: a task is accepted only when it is
\* not pending, and each accepted activation goes to exactly one callback.
THEOREM ImplementsLifecycle ==
    ASSUME ~ Torn
    PROVE  Spec => LifeSpec
<1>1. Spec => [](TypeInv /\ LockInv /\ ListInv)
  BY ListInvariant
<1>2. Init => Life!Init /\ ServeInv
  BY LifeInit
<1>3. TypeInv /\ ServeInv /\ [Next]_vars => ServeInv'
  BY ServeInvStep
<1>4. LifeInv /\ LifeInv' /\ [Next]_vars => [Life!Next]_(Life!vars)
  BY LifeNext DEF LifeStep
<1>5. Spec => []LifeInv
  BY <1>1, <1>2, <1>3, PTL DEF Spec, LifeInv
<1>6. QED
  BY <1>2, <1>4, <1>5, PTL DEF Spec, LifeSpec, Life!Spec
=============================================================================
