-------------------------- MODULE SvcTasksListsProof --------------------------
(***************************************************************************)
(* Proof that the status of a task tells the truth about the lists, and    *)
(* that a task is in one list, once, when svc_tasks_complete clears the    *)
(* ACTIVE bit in one step.                                                 *)
(***************************************************************************)
EXTENDS SvcTasksProof

\* The first n members of f: as a set, and that they are distinct.
Elems(f, n) == {f[j] : j \in 1 .. n}
Distinct(f, n) == \A i, j \in 1 .. n : f[i] = f[j] => i = j

\* g is f without its k-th member; g is f with e inserted as k-th member.
IsDrop(f, g, n, k) ==
    \A j \in 1 .. n - 1 : g[j] = IF j < k THEN f[j] ELSE f[j + 1]
IsGrow(f, g, n, k, e) ==
    \A j \in 1 .. n + 1 :
        g[j] = IF j < k THEN f[j] ELSE IF j = k THEN e ELSE f[j - 1]

\* Of distinct members, one is dropped: the others stay, and stay distinct.
LEMMA DropFacts ==
    ASSUME NEW n \in Nat, NEW k \in 1 .. n, NEW f, NEW g,
           Distinct(f, n), IsDrop(f, g, n, k)
    PROVE  Elems(g, n - 1) = Elems(f, n) \ {f[k]} /\ Distinct(g, n - 1)
<1> USE DEF Elems, Distinct, IsDrop
<1> DEFINE old(j) == IF j < k THEN j ELSE j + 1
           new(j) == IF j < k THEN j ELSE j - 1
<1>1. \A j \in 1 .. n - 1 : /\ old(j) \in 1 .. n /\ old(j) # k
                            /\ g[j] = f[old(j)]
  OBVIOUS
<1>2. \A i, j \in 1 .. n - 1 : old(i) = old(j) => i = j
  OBVIOUS
<1>3. \A j \in 1 .. n : j # k => new(j) \in 1 .. n - 1 /\ old(new(j)) = j
  OBVIOUS
<1> HIDE DEF old, new
<1>4. ASSUME NEW x \in {g[j] : j \in 1 .. n - 1}
      PROVE  x \in {f[j] : j \in 1 .. n} \ {f[k]}
  BY <1>1
<1>5. ASSUME NEW x \in {f[j] : j \in 1 .. n} \ {f[k]}
      PROVE  x \in {g[j] : j \in 1 .. n - 1}
  <2>1. PICK j \in 1 .. n : x = f[j] /\ j # k
    OBVIOUS
  <2>2. g[new(j)] = x /\ new(j) \in 1 .. n - 1
    BY <1>1, <1>3, <2>1
  <2>3. QED
    BY <2>2
<1>6. \A i, j \in 1 .. n - 1 : g[i] = g[j] => i = j
  BY <1>1, <1>2
<1>7. {g[j] : j \in 1 .. n - 1} = {f[j] : j \in 1 .. n} \ {f[k]}
  BY <1>4, <1>5
<1>8. QED
  BY <1>6, <1>7

\* Distinct members and a new one, wherever it goes, are distinct.
LEMMA GrowFacts ==
    ASSUME NEW n \in Nat, NEW k \in 1 .. n + 1, NEW f, NEW g, NEW e,
           Distinct(f, n), e \notin Elems(f, n), IsGrow(f, g, n, k, e)
    PROVE  Elems(g, n + 1) = Elems(f, n) \cup {e} /\ Distinct(g, n + 1)
<1> USE DEF Elems, Distinct, IsGrow
<1> DEFINE old(j) == IF j < k THEN j ELSE j - 1
           new(j) == IF j < k THEN j ELSE j + 1
<1>1. \A j \in 1 .. n + 1 : j # k => old(j) \in 1 .. n /\ g[j] = f[old(j)]
  OBVIOUS
<1>2. g[k] = e
  OBVIOUS
<1>3. \A i, j \in 1 .. n + 1 : i # k /\ j # k /\ old(i) = old(j) => i = j
  OBVIOUS
<1>4. \A j \in 1 .. n : /\ new(j) \in 1 .. n + 1 /\ new(j) # k
                        /\ old(new(j)) = j
  OBVIOUS
<1> HIDE DEF old, new
<1>5. ASSUME NEW x \in {g[j] : j \in 1 .. n + 1}
      PROVE  x \in {f[j] : j \in 1 .. n} \cup {e}
  BY <1>1, <1>2
<1>6. ASSUME NEW x \in {f[j] : j \in 1 .. n} \cup {e}
      PROVE  x \in {g[j] : j \in 1 .. n + 1}
  <2>1. CASE x = e
    BY <1>2, <2>1
  <2>2. CASE x # e
    <3>1. PICK j \in 1 .. n : x = f[j]
      BY <2>2
    <3>2. g[new(j)] = x /\ new(j) \in 1 .. n + 1
      BY <1>1, <1>4, <3>1
    <3>3. QED
      BY <3>2
  <2>3. QED
    BY <2>1, <2>2
<1>7. ASSUME NEW i \in 1 .. n + 1, NEW j \in 1 .. n + 1, g[i] = g[j]
      PROVE  i = j
  <2>1. CASE i # k /\ j # k
    BY <1>1, <1>3, <1>7, <2>1
  <2>2. CASE i = k /\ j # k
    BY <1>1, <1>2, <1>7, <2>2
  <2>3. CASE j = k /\ i # k
    BY <1>1, <1>2, <1>7, <2>3
  <2>4. QED
    BY <2>1, <2>2, <2>3
<1>8. {g[j] : j \in 1 .. n + 1} = {f[j] : j \in 1 .. n} \cup {e}
  BY <1>5, <1>6
<1>9. QED
  BY <1>7, <1>8

-----------------------------------------------------------------------------
(* What a step does to the members of a list.                              *)

\* The tasks of the timed list, in its order.
Names == [i \in 1 .. Len(list) |-> list[i].task]

ListDistinct == Distinct(Names, Len(list))
ReadyDistinct(q) == Distinct(ready[q], Len(ready[q]))

\* A member of the timed list is taken off it.
LEMMA ListShrinks ==
    ASSUME TypeOK, ListDistinct, NEW k \in 1 .. Len(list),
           Len(list') = Len(list) - 1,
           \A j \in 1 .. Len(list) - 1 :
               list'[j] = IF j < k THEN list[j] ELSE list[j + 1]
    PROVE  Listed' = Listed \ {list[k].task} /\ ListDistinct'
<1>1. Len(list) \in Nat
  BY LenProperties DEF TypeOK
<1>2. IsDrop(Names, Names', Len(list), k)
  BY <1>1 DEF IsDrop, Names
<1>3. Names[k] = list[k].task
  BY DEF Names
<1>4. Listed = Elems(Names, Len(list)) /\ Listed' = Elems(Names', Len(list'))
  BY DEF Names, Listed, Elems
<1>5. Elems(Names', Len(list) - 1) = Elems(Names, Len(list)) \ {Names[k]}
      /\ Distinct(Names', Len(list) - 1)
  BY <1>1, <1>2, DropFacts DEF ListDistinct
<1>6. QED
  BY <1>3, <1>4, <1>5 DEF ListDistinct

\* A task that is not in the timed list is inserted.
LEMMA ListGrows ==
    ASSUME TypeOK, ListDistinct, NEW k \in 1 .. Len(list) + 1, NEW e \in Entry,
           e.task \notin Listed, list' = InsertAt(list, k, e)
    PROVE  Listed' = Listed \cup {e.task} /\ ListDistinct'
<1>1. /\ Len(list) \in Nat /\ Len(list') = Len(list) + 1
      /\ \A j \in 1 .. Len(list) + 1 :
            list'[j] = IF j < k THEN list[j]
                       ELSE IF j = k THEN e ELSE list[j - 1]
  BY LenProperties, InsertAtFacts DEF TypeOK
<1>2. IsGrow(Names, Names', Len(list), k, e.task)
  BY <1>1 DEF IsGrow, Names
<1>3. Listed = Elems(Names, Len(list)) /\ Listed' = Elems(Names', Len(list'))
  BY DEF Names, Listed, Elems
<1>4. Elems(Names', Len(list) + 1) = Elems(Names, Len(list)) \cup {e.task}
      /\ Distinct(Names', Len(list) + 1)
  BY <1>1, <1>2, <1>3, GrowFacts DEF ListDistinct
<1>5. QED
  BY <1>1, <1>3, <1>4 DEF ListDistinct

\* A ready task leaves its queue.
LEMMA ReadyShrinks ==
    ASSUME TypeOK, NEW q \in Queues, ReadyDistinct(q), NEW r \in Seq(Tasks),
           NEW k \in 1 .. Len(ready[q]), Len(r) = Len(ready[q]) - 1,
           \A j \in 1 .. Len(ready[q]) - 1 :
               r[j] = IF j < k THEN ready[q][j] ELSE ready[q][j + 1],
           ready' = [ready EXCEPT ![q] = r]
    PROVE  /\ ReadyIn(q)' = ReadyIn(q) \ {ready[q][k]} /\ ReadyDistinct(q)'
           /\ \A p \in Queues \ {q} : /\ ReadyIn(p)' = ReadyIn(p)
                                      /\ ReadyDistinct(p) => ReadyDistinct(p)'
<1>1. Len(ready[q]) \in Nat
  BY LenProperties DEF TypeOK
<1>2. IsDrop(ready[q], r, Len(ready[q]), k)
  BY DEF IsDrop
<1>3. Elems(r, Len(ready[q]) - 1) = Elems(ready[q], Len(ready[q])) \ {ready[q][k]}
      /\ Distinct(r, Len(ready[q]) - 1)
  BY <1>1, <1>2, DropFacts DEF ReadyDistinct
<1>4. ready'[q] = r /\ \A p \in Queues \ {q} : ready'[p] = ready[p]
  BY DEF TypeOK
<1>5. /\ ReadyIn(q) = Elems(ready[q], Len(ready[q]))
      /\ ReadyIn(q)' = Elems(ready'[q], Len(ready'[q]))
  BY DEF ReadyIn, Elems
<1>6. ReadyIn(q)' = ReadyIn(q) \ {ready[q][k]} /\ ReadyDistinct(q)'
  BY <1>3, <1>4, <1>5 DEF ReadyDistinct
<1>7. \A p \in Queues \ {q} : /\ ReadyIn(p)' = ReadyIn(p)
                              /\ ReadyDistinct(p) => ReadyDistinct(p)'
  BY <1>4 DEF ReadyIn, ReadyDistinct
<1>8. QED
  BY <1>6, <1>7

\* A task that is not in the queue becomes its last.
LEMMA ReadyGrows ==
    ASSUME TypeOK, NEW q \in Queues, ReadyDistinct(q), NEW t \in Tasks,
           t \notin ReadyIn(q), task_to_ready(t, q)
    PROVE  /\ ReadyIn(q)' = ReadyIn(q) \cup {t} /\ ReadyDistinct(q)'
           /\ \A p \in Queues \ {q} : /\ ReadyIn(p)' = ReadyIn(p)
                                      /\ ReadyDistinct(p) => ReadyDistinct(p)'
<1> DEFINE n == Len(ready[q])
           r == Append(ready[q], t)
<1>1. n \in Nat /\ Len(r) = n + 1
  BY LenProperties, AppendProperties DEF TypeOK
<1>2. IsGrow(ready[q], r, n, n + 1, t)
  BY <1>1, AppendProperties DEF TypeOK, IsGrow
<1>3. ready'[q] = r /\ \A p \in Queues \ {q} : ready'[p] = ready[p]
  BY DEF TypeOK, task_to_ready
<1>4. /\ ReadyIn(q) = Elems(ready[q], n)
      /\ ReadyIn(q)' = Elems(ready'[q], Len(ready'[q]))
      /\ Distinct(ready[q], n)
  BY DEF ReadyIn, ReadyDistinct, Elems
<1>5. n + 1 \in 1 .. n + 1
  BY <1>1
<1> HIDE DEF r, n
<1>6. Elems(r, n + 1) = Elems(ready[q], n) \cup {t} /\ Distinct(r, n + 1)
  BY <1>1, <1>2, <1>4, <1>5, GrowFacts
<1>7. ReadyIn(q)' = ReadyIn(q) \cup {t} /\ ReadyDistinct(q)'
  BY <1>1, <1>3, <1>4, <1>6 DEF ReadyDistinct
<1>8. \A p \in Queues \ {q} : /\ ReadyIn(p)' = ReadyIn(p)
                              /\ ReadyDistinct(p) => ReadyDistinct(p)'
  BY <1>3 DEF ReadyIn, ReadyDistinct
<1>9. QED
  BY <1>7, <1>8

-----------------------------------------------------------------------------
(* The mutex.                                                              *)

InMutex == {"event", "unlink"}

\* The thread in a critical section of several steps owns the mutex; a client
\* on its way out of svc_tasks_schedule has no task to unlink.
LockInv ==
    /\ \A a \in Actors : pc[a] \in InMutex <=> mutex = a
    /\ \A c \in Clients :
          pc[c] \in {"arm", "check", "evlock"} => call[c].task = NoTask

\* A step of thread a outside such a critical section.
LEMMA LockFrame ==
    ASSUME TypeInv, LockInv, NEW a \in Actors, NEW l \in Labels,
           pc[a] \notin InMutex, l \notin InMutex,
           Goto(a, l), mutex' = mutex,
           \A c \in Clients \ {a} : call'[c] = call[c],
           a \in Clients /\ l \in {"arm", "check", "evlock"}
               => call'[a].task = NoTask
    PROVE  LockInv'
BY ActorsFacts DEF LockInv, Goto, TypeInv, TypeOK

\* Thread a takes the mutex, or gives it back.
LEMMA LockTaken ==
    ASSUME TypeInv, LockInv, NEW a \in Actors, mutex = NoTask, mutex' = a,
           Goto(a, "event"), \A c \in Clients \ {a} : call'[c] = call[c]
    PROVE  LockInv'
BY ActorsFacts DEF LockInv, Goto, InMutex, TypeInv, TypeOK

LEMMA LockGiven ==
    ASSUME TypeInv, LockInv, NEW a \in Actors, NEW l \in Labels,
           pc[a] \in InMutex, mutex' = NoTask, Goto(a, l),
           l \notin InMutex \cup {"arm", "check", "evlock"},
           \A c \in Clients \ {a} : call'[c] = call[c]
    PROVE  LockInv'
<1>1. mutex = a /\ \A b \in Actors \ {a} : pc[b] \notin InMutex
  BY DEF LockInv
<1>2. pc'[a] = l /\ \A b \in Actors \ {a} : pc'[b] = pc[b]
  BY DEF Goto, TypeInv, TypeOK
<1>3. QED
  BY <1>1, <1>2, ActorsFacts DEF LockInv

LEMMA ReturnGoto ==
    ASSUME TypeInv, NEW a \in Actors, Return(a)
    PROVE  /\ \E l \in {"idle", "complete"} : Goto(a, l)
           /\ \A c \in Actors \ {a} : call'[c] = call[c]
           /\ a \in Clients => call'[a].task = NoTask
BY ActorsFacts DEF Return, Rest, Goto, TypeInv, TypeOK

LEMMA LockCall ==
    ASSUME TypeInv, LockInv, NEW a \in Actors, CallStep(a)
    PROVE  LockInv'
<1> USE ActorsFacts DEF InMutex, Labels
<1>1. ASSUME Return(a), pc[a] \notin InMutex, mutex' = mutex
      PROVE  LockInv'
  BY <1>1, ReturnGoto, LockFrame
<1>2. CASE ScheduleBusy(a)
  BY <1>1, <1>2 DEF ScheduleBusy
<1>3. CASE svc_tasks_add(a)
  BY <1>1, <1>3 DEF svc_tasks_add
<1>4. CASE InsertTimed(a)
  <2>1. PICK l \in {"arm", "check"}, d \in {call[a].delay, 0} :
            Goto(a, l) /\ call' = [call EXCEPT ![a] = Rest(a, d)]
    BY <1>4 DEF InsertTimed, TypeInv, TypeOK
  <2>2. /\ \A c \in Clients \ {a} : call'[c] = call[c]
        /\ a \in Clients => call'[a].task = NoTask
    BY <2>1 DEF Rest, TypeInv, TypeOK
  <2>3. pc[a] = "schedule" /\ mutex' = mutex
    BY <1>4 DEF InsertTimed
  <2>4. QED
    BY <2>1, <2>2, <2>3, LockFrame
<1>5. CASE ArmTimer(a)
  BY <1>1, <1>5 DEF ArmTimer
<1>6. CASE CheckTimer(a)
  <2>1. CASE Return(a)
    BY <1>1, <1>6, <2>1 DEF CheckTimer
  <2>2. CASE Goto(a, "evlock") /\ UNCHANGED <<call, saved>>
    <3>1. pc[a] = "check" /\ mutex' = mutex
      BY <1>6 DEF CheckTimer
    <3>2. a \in Clients => call'[a].task = NoTask
      BY <2>2, <3>1 DEF LockInv
    <3>3. QED
      BY <2>2, <3>1, <3>2, LockFrame
  <2>3. QED
    BY <1>6, <2>1, <2>2 DEF CheckTimer
<1>7. CASE TaskEventLock(a)
  BY <1>7, LockTaken DEF TaskEventLock
<1>8. CASE TaskEventPop(a)
  BY <1>8 DEF TaskEventPop, LockInv, flow
<1>9. CASE TaskEventEnd(a)
  <2>1. CASE Return(a) /\ mutex' = NoTask
    <3>1. pc[a] \in InMutex
      BY <1>9 DEF TaskEventEnd
    <3>2. QED
      BY <2>1, <3>1, ReturnGoto, LockGiven
  <2>2. CASE Goto(a, "unlink") /\ UNCHANGED <<mutex, call, saved>>
    <3>1. pc[a] = "event" /\ mutex = a
      BY <1>9 DEF TaskEventEnd, LockInv
    <3>2. pc'[a] = "unlink" /\ \A b \in Actors \ {a} : pc'[b] = pc[b]
      BY <2>2 DEF Goto, TypeInv, TypeOK
    <3>3. QED
      BY <2>2, <3>1, <3>2 DEF LockInv
  <2>3. QED
    BY <1>9, <2>1, <2>2 DEF TaskEventEnd
<1>10. QED
  BY <1>2, <1>3, <1>4, <1>5, <1>6, <1>7, <1>8, <1>9 DEF CallStep

LEMMA LockClient ==
    ASSUME TypeInv, LockInv, NEW c \in Clients, ClientCall(c) \/ CancelStep(c)
    PROVE  LockInv'
<1> USE ActorsFacts DEF InMutex, Labels
<1> c \in Actors
  OBVIOUS
<1>1. ASSUME NEW t \in Tasks, NEW q \in Queues, NEW d \in 0 .. MaxDelay,
             ClientSchedule(c, t, q, d)
      PROVE  LockInv'
  <2>1. /\ pc[c] = "idle" /\ Goto(c, "schedule") /\ mutex' = mutex
        /\ \A b \in Clients \ {c} : call'[b] = call[b]
    BY <1>1 DEF ClientSchedule, ScheduleCall, TypeInv, TypeOK
  <2>2. QED
    BY <2>1, LockFrame
<1>2. ASSUME NEW t \in Tasks, CancelTimed(c, t)
      PROVE  LockInv'
  <2>1. /\ pc[c] = "idle" /\ mutex = NoTask
        /\ \A b \in Clients \ {c} : call'[b] = call[b]
        /\ \/ mutex' = c /\ Goto(c, "event")
           \/ mutex' = mutex /\ Goto(c, "canceled")
    BY <1>2 DEF CancelTimed, TypeInv, TypeOK
  <2>2. QED
    BY <2>1, LockFrame, LockTaken
<1>3. ASSUME NEW t \in Tasks, CancelReady(c, t)
      PROVE  LockInv'
  <2>1. /\ pc[c] = "idle" /\ Goto(c, "canceledReady") /\ mutex' = mutex
        /\ \A b \in Clients \ {c} : call'[b] = call[b]
    BY <1>3 DEF CancelReady, TypeInv, TypeOK
  <2>2. QED
    BY <2>1, LockFrame
<1>4. ASSUME NEW t \in Tasks, CancelMissing(c, t)
      PROVE  LockInv'
  BY <1>4 DEF CancelMissing, LockInv, flow
<1>5. ASSUME NEW q \in Queues, svc_tasks_wait_queue(c, q)
      PROVE  LockInv'
  BY <1>5 DEF svc_tasks_wait_queue, LockInv, flow
<1>6. CASE CancelUnlink(c)
  BY <1>6, LockGiven DEF CancelUnlink
<1>7. CASE CanceledTimed(c)
  <2>1. Return(c) /\ pc[c] = "canceled" /\ mutex' = mutex
    BY <1>7 DEF CanceledTimed
  <2>2. QED
    BY <2>1, ReturnGoto, LockFrame
<1>8. CASE CanceledReady(c)
  <2>1. /\ mutex = NoTask /\ mutex' = c /\ Goto(c, "event")
        /\ \A b \in Clients \ {c} : call'[b] = call[b]
    BY <1>8 DEF CanceledReady, TypeInv, TypeOK
  <2>2. QED
    BY <2>1, LockTaken
<1>9. QED
  BY <1>1, <1>2, <1>3, <1>4, <1>5, <1>6, <1>7, <1>8 DEF ClientCall, CancelQueued, CancelStep

LEMMA LockWorker ==
    ASSUME TypeInv, LockInv, NEW q \in Queues, WorkerStep(q)
    PROVE  LockInv'
<1> USE ActorsFacts
<1>1. q \in Actors /\ q \notin Clients
  OBVIOUS
<1>2. \A c \in Clients : call'[c] = call[c]
  BY DEF WorkerStep, WorkerLoop, WorkerSleep, WorkerWake, ServiceEmpty, svc_tasks_service_task,
      svc_tasks_complete, CompleteStore, CompleteSignal, CallbackDone, TypeInv, TypeOK
<1>3. mutex' = mutex
  BY DEF WorkerStep, WorkerLoop, WorkerSleep, WorkerWake, ServiceEmpty, svc_tasks_service_task,
      svc_tasks_complete, CompleteStore, CompleteSignal, CallbackDone
<1>4. pc[q] \notin InMutex
  BY DEF InMutex, WorkerStep, WorkerLoop, WorkerSleep, WorkerWake, ServiceEmpty,
      svc_tasks_service_task, svc_tasks_complete, CompleteStore, CompleteSignal,
      CallbackDone
<1>5. \E l \in {"sleep", "wait", "exit", "service", "loop", "callback", "store",
               "signal", "done"} : Goto(q, l)
  BY DEF WorkerStep, WorkerLoop, WorkerSleep, WorkerWake, ServiceEmpty, svc_tasks_service_task,
      svc_tasks_complete, CompleteStore, CompleteSignal, CallbackDone, AfterStore
<1>6. QED
  BY <1>1, <1>2, <1>3, <1>4, <1>5, LockFrame DEF InMutex, Labels

LEMMA LockStep ==
    TypeInv /\ LockInv /\ [Next]_vars => LockInv'
<1> SUFFICES ASSUME TypeInv, LockInv, [Next]_vars
             PROVE  LockInv'
  OBVIOUS
<1>1. ASSUME NEW q \in Queues, NEW p \in Queues, NEW d \in 0 .. MaxDelay,
             CallbackReschedule(q, p, d)
      PROVE  LockInv'
  <2>1. /\ pc[q] = "callback" /\ Goto(q, "schedule") /\ mutex' = mutex
        /\ \A b \in Clients \ {q} : call'[b] = call[b]
    BY <1>1, ActorsFacts DEF CallbackReschedule, ScheduleCall, TypeInv, TypeOK
  <2>2. QED
    BY <2>1, LockFrame, ActorsFacts DEF InMutex, Labels
<1>1a. ASSUME NEW q \in Queues, SpuriousWake(q)
       PROVE  LockInv'
  <2>1. /\ pc[q] = "wait" /\ mutex' = mutex /\ call' = call
        /\ \E l \in {"service", "exit"} : Goto(q, l)
    BY <1>1a DEF SpuriousWake
  <2>2. QED
    BY <2>1, LockFrame, ActorsFacts DEF InMutex, Labels
<1>2. CASE TimerExpire
  BY <1>2 DEF TimerExpire, LockInv, flow
<1>3. CASE svc_tasks_virtual_timer
  BY <1>3, LockTaken, ActorsFacts DEF svc_tasks_virtual_timer
<1>4. CASE Tick
  BY <1>4 DEF Tick, LockInv, flow
<1>5. CASE svc_tasks_stop
  BY <1>5 DEF svc_tasks_stop, LockInv, flow
<1>6. CASE svc_tasks_start
  BY <1>6, ActorsFacts DEF svc_tasks_start, Joined, LockInv, InMutex, TypeInv, TypeOK
<1>7. CASE UNCHANGED vars
  BY <1>7 DEF vars, LockInv, flow
<1>8. QED
  BY <1>1, <1>1a, <1>2, <1>3, <1>4, <1>5, <1>6, <1>7, LockCall, LockWorker, LockClient
    DEF Next

-----------------------------------------------------------------------------
(* The lists and the status of the tasks.                                  *)

Unlinked(t) == \E c \in Clients : Unlinking(c, t)

\* A task is in at most one of: the timed list, one ready queue, the hands of a
\* client that took it off the head of the list; and QUEUED iff in one of them.
Disjoint ==
    /\ \A q \in Queues : ReadyIn(q) \cap Listed = {}
    /\ \A p, q \in Queues : p # q => ReadyIn(p) \cap ReadyIn(q) = {}
    /\ \A t \in Tasks : Unlinked(t) =>
           t \notin Listed /\ \A q \in Queues : t \notin ReadyIn(q)

Placed(t) == t \in Listed \/ (\E q \in Queues : t \in ReadyIn(q)) \/ Unlinked(t)

ListInv ==
    /\ ListDistinct
    /\ \A q \in Queues : ReadyDistinct(q)
    /\ Disjoint
    /\ \A t \in Tasks : status[t] = "QUEUED" <=> Placed(t)

LEMMA ListInvImplies ==
    ASSUME ListInv
    PROVE  ListedOnce /\ QueuedIsPending
<1>1. \A i, j \in 1 .. Len(list) : list[i].task = list[j].task => i = j
  BY DEF ListInv, ListDistinct, Distinct, Names
<1>2. \A q \in Queues : \A i, j \in 1 .. Len(ready[q]) :
          ready[q][i] = ready[q][j] => i = j
  BY DEF ListInv, ReadyDistinct, Distinct
<1>3. ListedOnce
  BY <1>1, <1>2 DEF ListInv, Disjoint, ListedOnce
<1>4. ASSUME NEW t \in Tasks
      PROVE  t \in Pending <=> Placed(t)
  <2> DEFINE A == UNION {ReadyIn(q) : q \in Queues}
             B == {u \in Tasks : \E c \in Clients : Unlinking(c, u)}
  <2>1. (\E q \in Queues : t \in ReadyIn(q)) <=> t \in A
    OBVIOUS
  <2>2. Unlinked(t) <=> t \in B
    BY DEF Unlinked
  <2>3. Pending = Listed \cup A \cup B
    BY DEF Pending
  <2> HIDE DEF A, B
  <2>4. QED
    BY <2>1, <2>2, <2>3 DEF Placed
<1>5. QED
  BY <1>3, <1>4 DEF ListInv, QueuedIsPending

\* The members of the lists are tasks.
LEMMA MembersAreTasks ==
    ASSUME TypeOK
    PROVE  Listed \subseteq Tasks /\ \A q \in Queues : ReadyIn(q) \subseteq Tasks
<1>1. \A i \in 1 .. Len(list) : list[i] \in Entry
  BY ElementOfSeq DEF TypeOK
<1>2. \A i \in 1 .. Len(list) : list[i].task \in Tasks
  BY <1>1 DEF Entry
<1>3. \A q \in Queues : \A i \in 1 .. Len(ready[q]) : ready[q][i] \in Tasks
  BY ElementOfSeq DEF TypeOK
<1>4. QED
  BY <1>2, <1>3 DEF Listed, ReadyIn

\* A step that leaves the members of the lists as they are.
LEMMA ListFrame ==
    ASSUME ListInv, list' = list, ready' = ready,
           \A t \in Tasks : Unlinked(t)' <=> Unlinked(t),
           \A t \in Tasks : status'[t] = "QUEUED" <=> status[t] = "QUEUED"
    PROVE  ListInv'
<1>1. Listed' = Listed /\ \A q \in Queues : ReadyIn(q)' = ReadyIn(q)
  BY DEF Listed, ReadyIn
<1>2. ListDistinct' /\ \A q \in Queues : ReadyDistinct(q)'
  BY DEF ListInv, ListDistinct, ReadyDistinct, Names
<1>3. \A t \in Tasks : Placed(t)' <=> Placed(t)
  BY <1>1 DEF Placed
<1>4. Disjoint'
  BY <1>1 DEF Disjoint, ListInv
<1>5. QED
  BY <1>2, <1>3, <1>4 DEF ListInv

\* A step outside the critical section does not change who unlinks what.
LEMMA UnlinkedFrame ==
    ASSUME TypeInv, NEW a \in Actors, NEW l \in Labels, Goto(a, l),
           pc[a] \notin InMutex, l \notin InMutex,
           \A c \in Clients \ {a} : call'[c] = call[c]
    PROVE  \A t \in Tasks : Unlinked(t)' <=> Unlinked(t)
<1>1. \A c \in Clients, t \in Tasks : Unlinking(c, t)' <=> Unlinking(c, t)
  BY ActorsFacts DEF Unlinking, Goto, InMutex, TypeInv, TypeOK
<1>2. QED
  BY <1>1 DEF Unlinked

LEMMA UnlinkedSame ==
    ASSUME UNCHANGED <<pc, call>>
    PROVE  \A t \in Tasks : Unlinked(t)' <=> Unlinked(t)
BY DEF Unlinked, Unlinking

LEMMA ReturnUnlinked ==
    ASSUME TypeInv, NEW a \in Actors, Return(a), pc[a] \notin InMutex
    PROVE  \A t \in Tasks : Unlinked(t)' <=> Unlinked(t)
BY ReturnGoto, UnlinkedFrame, ActorsFacts DEF InMutex, Labels

\* svc_tasks_add.
LEMMA AddLists ==
    ASSUME TypeInv, ListInv, NEW a \in Actors, svc_tasks_add(a)
    PROVE  ListInv'
<1>0. call[a].task \in Tasks /\ call[a].queue \in Queues
  BY DEF svc_tasks_add, TypeInv, CallOK
<1>1. PICK t \in Tasks, q \in Queues : t = call[a].task /\ q = call[a].queue
  BY <1>0
<1>2. /\ task_to_ready(t, q) /\ list' = list /\ Return(a)
      /\ status[t] # "QUEUED" /\ status' = [status EXCEPT ![t] = "QUEUED"]
      /\ pc[a] = "schedule"
  BY <1>1 DEF svc_tasks_add
<1>3. ~ Placed(t)
  BY <1>1, <1>2 DEF ListInv
<1>4. Listed' = Listed /\ ListDistinct'
  BY <1>2 DEF Listed, ListInv, ListDistinct, Names
<1>5. /\ ReadyIn(q)' = ReadyIn(q) \cup {t} /\ ReadyDistinct(q)'
      /\ \A p \in Queues \ {q} : ReadyIn(p)' = ReadyIn(p) /\ ReadyDistinct(p)'
  BY <1>1, <1>2, <1>3, ReadyGrows DEF ListInv, Placed, TypeInv
<1>6. \A u \in Tasks : Unlinked(u)' <=> Unlinked(u)
  BY <1>2, ReturnUnlinked DEF InMutex
<1>7. Disjoint'
  BY <1>1, <1>3, <1>4, <1>5, <1>6 DEF ListInv, Disjoint, Placed
<1>8. \A u \in Tasks : status'[u] = "QUEUED" <=> Placed(u)'
  <2>1. \A u \in Tasks : Placed(u)' <=> Placed(u) \/ u = t
    BY <1>1, <1>4, <1>5, <1>6 DEF Placed
  <2>2. QED
    BY <1>1, <1>2, <2>1 DEF ListInv, TypeInv, TypeOK
<1>9. QED
  BY <1>4, <1>5, <1>7, <1>8 DEF ListInv

\* svc_tasks_schedule with a delay.
LEMMA InsertLists ==
    ASSUME TypeInv, ListInv, NEW a \in Actors, InsertTimed(a)
    PROVE  ListInv'
<1>0. /\ pc[a] = "schedule" /\ ready' = ready /\ status[call[a].task] # "QUEUED"
      /\ status' = [status EXCEPT ![call[a].task] = "QUEUED"]
  BY DEF InsertTimed
<1>1. PICK t \in Tasks : t = call[a].task
  BY <1>0 DEF TypeInv, CallOK
<1>2. PICK e \in Entry : e = [task |-> call[a].task, queue |-> call[a].queue,
                              left |-> call[a].delay]
  <2>1. call[a].task \in Tasks /\ call[a].queue \in Queues
    BY <1>0 DEF TypeInv, CallOK
  <2>2. call[a].delay \in Int
    BY DEF TypeInv, TypeOK, Call
  <2>3. QED
    BY <2>1, <2>2 DEF Entry
<1>3. e.task = t
  BY <1>1, <1>2
<1>3a. PICK k \in 1 .. Len(list) + 1 : list' = InsertAt(list, k, e)
  BY <1>2 DEF InsertTimed
<1>4. PICK l \in {"arm", "check"} :
          Goto(a, l) /\ \A c \in Clients \ {a} : call'[c] = call[c]
  <2>1. PICK l \in {"arm", "check"}, d \in {call[a].delay, 0} :
            Goto(a, l) /\ call' = [call EXCEPT ![a] = Rest(a, d)]
    BY DEF InsertTimed, TypeInv, TypeOK
  <2>2. QED
    BY <2>1, ActorsFacts DEF TypeInv, TypeOK
<1>5. ~ Placed(t)
  BY <1>0, <1>1 DEF ListInv
<1>6. Listed' = Listed \cup {t} /\ ListDistinct'
  BY <1>3, <1>3a, <1>5, ListGrows DEF ListInv, Placed, TypeInv
<1>7. \A q \in Queues : ReadyIn(q)' = ReadyIn(q) /\ ReadyDistinct(q)'
  BY <1>0 DEF ReadyIn, ReadyDistinct, ListInv
<1>8. \A u \in Tasks : Unlinked(u)' <=> Unlinked(u)
  BY <1>0, <1>4, UnlinkedFrame DEF InMutex, Labels
<1>9. Disjoint'
  BY <1>5, <1>6, <1>7, <1>8 DEF ListInv, Disjoint, Placed
<1>10. \A u \in Tasks : status'[u] = "QUEUED" <=> Placed(u)'
  <2>1. \A u \in Tasks : Placed(u)' <=> Placed(u) \/ u = t
    BY <1>6, <1>7, <1>8 DEF Placed
  <2>2. QED
    BY <1>0, <1>1, <2>1 DEF ListInv, TypeInv, TypeOK
<1>11. QED
  BY <1>6, <1>7, <1>9, <1>10 DEF ListInv

\* One turn of the loop of svc_tasks_task_event.
LEMMA PopLists ==
    ASSUME TypeInv, ListInv, NEW a \in Actors, TaskEventPop(a)
    PROVE  ListInv'
<1>1. /\ list # <<>> /\ list' = Tail(list)
      /\ task_to_ready(Head(list).task, Head(list).queue)
      /\ status' = status /\ UNCHANGED <<pc, call>>
  BY DEF TaskEventPop, flow
<1>2. /\ Head(list) \in Entry /\ Len(list') = Len(list) - 1
      /\ \A i \in 1 .. Len(list) - 1 : list'[i] = list[i + 1]
      /\ Len(list) \in Nat \ {0} /\ Head(list) = list[1]
  BY <1>1, HeadTailProperties, EmptySeq DEF TypeInv, TypeOK
<1>3. PICK t \in Tasks, q \in Queues :
          /\ t = Head(list).task /\ q = Head(list).queue
          /\ t = list[1].task /\ 1 \in 1 .. Len(list)
  BY <1>2 DEF Entry
<1>4. \A i \in 1 .. Len(list) - 1 :
          list'[i] = IF i < 1 THEN list[i] ELSE list[i + 1]
  BY <1>2
<1>5. Listed' = Listed \ {t} /\ ListDistinct' /\ t \in Listed
  <2>1. t \in Listed
    BY <1>3 DEF Listed
  <2>2. QED
    BY <1>2, <1>3, <1>4, <2>1, ListShrinks DEF ListInv, TypeInv
<1>6. /\ ReadyIn(q)' = ReadyIn(q) \cup {t} /\ ReadyDistinct(q)'
      /\ \A p \in Queues \ {q} : ReadyIn(p)' = ReadyIn(p) /\ ReadyDistinct(p)'
  <2>1. t \notin ReadyIn(q)
    BY <1>3, <1>5 DEF ListInv, Disjoint
  <2>2. QED
    BY <1>1, <1>3, <2>1, ReadyGrows DEF ListInv, TypeInv
<1>7. \A u \in Tasks : Unlinked(u)' <=> Unlinked(u)
  BY <1>1, UnlinkedSame
<1>8. Disjoint'
  BY <1>3, <1>5, <1>6, <1>7 DEF ListInv, Disjoint
<1>9. \A u \in Tasks : Placed(u)' <=> Placed(u)
  BY <1>3, <1>5, <1>6, <1>7 DEF Placed
<1>10. QED
  BY <1>1, <1>5, <1>6, <1>8, <1>9 DEF ListInv

\* svc_tasks_cancel of a timed task; a head goes into the hands of the client.
LEMMA CancelTimedLists ==
    ASSUME TypeInv, LockInv, ListInv, NEW c \in Clients, NEW t \in Tasks,
           CancelTimed(c, t)
    PROVE  ListInv'
<1> USE ActorsFacts
<1>1. /\ pc[c] = "idle" /\ ready' = ready
      /\ call' = [call EXCEPT ![c].task = t]
  BY DEF CancelTimed
<1>2. PICK k \in 1 .. Len(list) :
          /\ list[k].task = t /\ list' = RemoveAt(list, k)
          /\ \/ Goto(c, "event") /\ status' = status
             \/ /\ Goto(c, "canceled")
                /\ status' = [status EXCEPT ![t] = "COMPLETE"]
  BY DEF CancelTimed
<1>3. t \in Listed
  BY <1>2 DEF Listed
<1>4. Listed' = Listed \ {t} /\ ListDistinct'
  <2>1. /\ Len(list') = Len(list) - 1
        /\ \A j \in 1 .. Len(list) - 1 :
              list'[j] = IF j < k THEN list[j] ELSE list[j + 1]
    <3>1. list \in Seq(Entry) /\ list' = RemoveAt(list, k)
      BY <1>2 DEF TypeInv, TypeOK
    <3>2. QED
      BY <3>1, RemoveAtFacts
  <2>2. QED
    BY <1>2, <2>1, ListShrinks DEF ListInv, TypeInv
<1>5. \A q \in Queues : ReadyIn(q)' = ReadyIn(q) /\ ReadyDistinct(q)'
  BY <1>1 DEF ReadyIn, ReadyDistinct, ListInv
<1>6. \A q \in Queues : t \notin ReadyIn(q)
  BY <1>3 DEF ListInv, Disjoint
<1>7. CASE Goto(c, "event") /\ status' = status
  <2>1. \A u \in Tasks : Unlinked(u)' <=> Unlinked(u) \/ u = t
    <3>1. ASSUME NEW b \in Clients, NEW u \in Tasks
          PROVE  Unlinking(b, u)' <=> Unlinking(b, u) \/ (b = c /\ u = t)
      <4>1. CASE b = c
        <5>1. pc'[b] = "event" /\ call'[b].task = t /\ pc[b] = "idle"
          BY <1>1, <1>7, <4>1 DEF Goto, TypeInv, TypeOK, Call
        <5>2. QED
          BY <4>1, <5>1 DEF Unlinking
      <4>2. CASE b # c
        <5>1. pc'[b] = pc[b] /\ call'[b] = call[b]
          BY <1>1, <1>7, <4>2 DEF Goto, TypeInv, TypeOK
        <5>2. QED
          BY <4>2, <5>1 DEF Unlinking
      <4>3. QED
        BY <4>1, <4>2
    <3>2. QED
      BY <3>1 DEF Unlinked
  <2>2. Disjoint'
    BY <1>4, <1>5, <1>6, <2>1 DEF ListInv, Disjoint
  <2>3. \A u \in Tasks : Placed(u)' <=> Placed(u)
    BY <1>3, <1>4, <1>5, <2>1 DEF Placed
  <2>4. QED
    BY <1>4, <1>5, <1>7, <2>2, <2>3 DEF ListInv
<1>8. CASE /\ Goto(c, "canceled")
           /\ status' = [status EXCEPT ![t] = "COMPLETE"]
  <2>1. \A u \in Tasks : Unlinked(u)' <=> Unlinked(u)
    <3>1. \A b \in Clients \ {c} : call'[b] = call[b]
      BY <1>1 DEF TypeInv, TypeOK
    <3>2. QED
      BY <1>1, <1>8, <3>1, UnlinkedFrame DEF InMutex, Labels
  <2>2. Disjoint'
    BY <1>4, <1>5, <2>1 DEF ListInv, Disjoint
  <2>3. \A u \in Tasks : Placed(u)' <=> Placed(u) /\ u # t
    <3>1. ~ Unlinked(t)
      BY <1>3 DEF ListInv, Disjoint
    <3>2. QED
      BY <1>4, <1>5, <1>6, <2>1, <3>1 DEF Placed
  <2>4. \A u \in Tasks : status'[u] = "QUEUED" <=> Placed(u)'
    BY <1>8, <2>3 DEF ListInv, TypeInv, TypeOK
  <2>5. QED
    BY <1>4, <1>5, <2>2, <2>4 DEF ListInv
<1>9. QED
  BY <1>2, <1>7, <1>8

\* The end of that critical section: the mutex keeps other clients out.
LEMMA CancelUnlinkLists ==
    ASSUME TypeInv, LockInv, ListInv, NEW c \in Clients, CancelUnlink(c)
    PROVE  ListInv'
<1> USE ActorsFacts
<1>1. /\ pc[c] = "unlink" /\ list' = list /\ ready' = ready /\ call' = call
      /\ Goto(c, "canceled")
      /\ status' = [status EXCEPT ![call[c].task] = "COMPLETE"]
  BY DEF CancelUnlink, lists
<1>2. PICK t \in Tasks : t = call[c].task
  BY <1>1 DEF TypeInv, CallOK
<1>3. \A b \in Clients \ {c} : pc[b] \notin InMutex
  BY <1>1 DEF LockInv, InMutex
<1>4. \A u \in Tasks : Unlinked(u) <=> u = t
  BY <1>1, <1>2, <1>3 DEF Unlinked, Unlinking, InMutex
<1>5. \A u \in Tasks : ~ Unlinked(u)'
  BY <1>1, <1>3 DEF Unlinked, Unlinking, InMutex, Goto, TypeInv, TypeOK
<1>6. Listed' = Listed /\ \A q \in Queues : ReadyIn(q)' = ReadyIn(q)
  BY <1>1 DEF Listed, ReadyIn
<1>7. ListDistinct' /\ \A q \in Queues : ReadyDistinct(q)'
  BY <1>1 DEF ListInv, ListDistinct, ReadyDistinct, Names
<1>8. Disjoint'
  BY <1>5, <1>6 DEF ListInv, Disjoint
<1>9. \A u \in Tasks : Placed(u)' <=> Placed(u) /\ u # t
  BY <1>2, <1>4, <1>5, <1>6 DEF Placed, ListInv, Disjoint
<1>10. \A u \in Tasks : status'[u] = "QUEUED" <=> Placed(u)'
  BY <1>1, <1>2, <1>9 DEF ListInv, TypeInv, TypeOK
<1>11. QED
  BY <1>7, <1>8, <1>10 DEF ListInv

\* A task leaves queue q for a callback: it is not QUEUED any more.
LEMMA LeaveLists ==
    ASSUME TypeInv, ListInv, NEW q \in Queues, NEW k \in 1 .. Len(ready[q]),
           NEW r \in Seq(Tasks), Len(r) = Len(ready[q]) - 1,
           \A j \in 1 .. Len(ready[q]) - 1 :
               r[j] = IF j < k THEN ready[q][j] ELSE ready[q][j + 1],
           ready' = [ready EXCEPT ![q] = r], list' = list,
           NEW t \in Tasks, t = ready[q][k], NEW s \in Statuses, s # "QUEUED",
           status' = [status EXCEPT ![t] = s],
           \A u \in Tasks : Unlinked(u)' <=> Unlinked(u)
    PROVE  ListInv'
<1>1. /\ ReadyIn(q)' = ReadyIn(q) \ {t} /\ ReadyDistinct(q)'
      /\ \A p \in Queues \ {q} : ReadyIn(p)' = ReadyIn(p) /\ ReadyDistinct(p)'
  BY ReadyShrinks DEF ListInv, TypeInv
<1>2. t \in ReadyIn(q)
  BY DEF ReadyIn
<1>3. Listed' = Listed /\ ListDistinct'
  BY DEF Listed, ListInv, ListDistinct, Names
<1>4. /\ t \notin Listed /\ ~ Unlinked(t)
      /\ \A p \in Queues \ {q} : t \notin ReadyIn(p)
  BY <1>2 DEF ListInv, Disjoint
<1>5. Disjoint'
  BY <1>1, <1>3 DEF ListInv, Disjoint
<1>6. \A u \in Tasks : Placed(u)' <=> Placed(u) /\ u # t
  BY <1>1, <1>3, <1>4 DEF Placed
<1>7. \A u \in Tasks : status'[u] = "QUEUED" <=> Placed(u)'
  BY <1>6 DEF ListInv, TypeInv, TypeOK
<1>8. QED
  BY <1>1, <1>3, <1>5, <1>7 DEF ListInv

\* task_ready_cancel.
LEMMA CancelReadyLists ==
    ASSUME TypeInv, ListInv, NEW c \in Clients, NEW t \in Tasks, CancelReady(c, t)
    PROVE  ListInv'
<1> USE ActorsFacts
<1>1. /\ pc[c] = "idle" /\ Goto(c, "canceledReady") /\ list' = list
      /\ status' = [status EXCEPT ![t] = "COMPLETE"]
      /\ \A b \in Clients \ {c} : call'[b] = call[b]
  BY DEF CancelReady, TypeInv, TypeOK
<1>2. PICK q \in Queues : \E i \in 1 .. Len(ready[q]) :
          /\ ready[q][i] = t
          /\ ready' = [ready EXCEPT ![q] = RemoveAt(@, i)]
  BY DEF CancelReady
<1>3. PICK k \in 1 .. Len(ready[q]) :
          /\ ready[q][k] = t
          /\ ready' = [ready EXCEPT ![q] = RemoveAt(ready[q], k)]
  BY <1>2
<1>4. PICK r \in Seq(Tasks) :
          /\ r = RemoveAt(ready[q], k) /\ Len(r) = Len(ready[q]) - 1
          /\ \A j \in 1 .. Len(ready[q]) - 1 :
                r[j] = IF j < k THEN ready[q][j] ELSE ready[q][j + 1]
  <2>1. ready[q] \in Seq(Tasks)
    BY DEF TypeInv, TypeOK
  <2>2. QED
    BY <2>1, RemoveAtFacts
<1>5. \A u \in Tasks : Unlinked(u)' <=> Unlinked(u)
  BY <1>1, UnlinkedFrame DEF InMutex, Labels
<1>6. ready' = [ready EXCEPT ![q] = r] /\ "COMPLETE" \in Statuses
  BY <1>3, <1>4 DEF Statuses
<1>7. QED
  BY <1>1, <1>3, <1>4, <1>5, <1>6, LeaveLists

\* svc_tasks_service_task.
LEMMA ServiceLists ==
    ASSUME TypeInv, ListInv, NEW q \in Queues, svc_tasks_service_task(q)
    PROVE  ListInv'
<1> USE ActorsFacts
<1>1. /\ pc[q] = "service" /\ Goto(q, "callback") /\ list' = list
      /\ status' = [status EXCEPT ![Head(ready[q])] = "ACTIVE"]
      /\ ready[q] # <<>> /\ ready' = [ready EXCEPT ![q] = Tail(ready[q])]
      /\ \A b \in Clients : call'[b] = call[b]
  BY DEF svc_tasks_service_task, TypeInv, TypeOK
<1>2. ready[q] \in Seq(Tasks)
  BY DEF TypeInv, TypeOK
<1>3. /\ Head(ready[q]) \in Tasks /\ Tail(ready[q]) \in Seq(Tasks)
      /\ Len(Tail(ready[q])) = Len(ready[q]) - 1
      /\ \A j \in 1 .. Len(ready[q]) - 1 : Tail(ready[q])[j] = ready[q][j + 1]
      /\ Len(ready[q]) \in Nat \ {0} /\ Head(ready[q]) = ready[q][1]
  BY <1>1, <1>2, HeadTailProperties, EmptySeq
<1>4. PICK t \in Tasks, r \in Seq(Tasks) : t = Head(ready[q]) /\ r = Tail(ready[q])
  BY <1>3
<1>5. PICK k \in 1 .. Len(ready[q]) :
          /\ k = 1 /\ t = ready[q][k] /\ Len(r) = Len(ready[q]) - 1
          /\ \A j \in 1 .. Len(ready[q]) - 1 :
                r[j] = IF j < k THEN ready[q][j] ELSE ready[q][j + 1]
  BY <1>3, <1>4
<1>6. \A u \in Tasks : Unlinked(u)' <=> Unlinked(u)
  BY <1>1, UnlinkedFrame DEF InMutex, Labels
<1>7. ready' = [ready EXCEPT ![q] = r]
  BY <1>1, <1>4
<1>8. PICK s \in Statuses : s # "QUEUED" /\ status' = [status EXCEPT ![t] = s]
  BY <1>1, <1>4 DEF Statuses
<1>9. list' = list
  BY <1>1
<1>10. QED
  BY <1>5, <1>6, <1>7, <1>8, <1>9, LeaveLists

\* svc_tasks_complete clears the ACTIVE bit without the mutex, in one step:
\* a bit it does not know to be clear, QUEUED, survives.
LEMMA CompleteLists ==
    ASSUME ~ Torn, TypeInv, ListInv, NEW q \in Queues, CompleteStore(q)
    PROVE  ListInv'
<1> USE ActorsFacts
<1>1. /\ pc[q] = "store" /\ list' = list /\ ready' = ready
      /\ Goto(q, AfterStore(q)) /\ call' = call
      /\ status' = [status EXCEPT ![call[q].task] =
                        ClearActive(status[call[q].task])]
  BY DEF CompleteStore, lists
<1>2. call[q].task \in Tasks
  BY <1>1 DEF TypeInv, CallOK, InCallback
<1>3. \A u \in Tasks : status'[u] = "QUEUED" <=> status[u] = "QUEUED"
  BY <1>1, <1>2 DEF ClearActive, TypeInv, TypeOK
<1>4. AfterStore(q) \in Labels /\ AfterStore(q) \notin InMutex
  BY DEF AfterStore, Labels, InMutex
<1>5. \A u \in Tasks : Unlinked(u)' <=> Unlinked(u)
  BY <1>1, <1>4, UnlinkedFrame DEF InMutex
<1>6. QED
  BY <1>1, <1>3, <1>5, ListFrame

\* The other steps of svc_tasks_schedule and svc_tasks_task_event.
LEMMA CallLists ==
    ASSUME TypeInv, LockInv, ListInv, NEW a \in Actors, CallStep(a)
    PROVE  ListInv'
<1> USE ActorsFacts DEF InMutex, Labels
<1>1. ASSUME list' = list, ready' = ready, status' = status,
             \A t \in Tasks : Unlinked(t)' <=> Unlinked(t)
      PROVE  ListInv'
  BY <1>1, ListFrame
<1>2. CASE ScheduleBusy(a)
  BY <1>1, <1>2, ReturnUnlinked DEF ScheduleBusy, lists
<1>3. CASE ArmTimer(a)
  BY <1>1, <1>3, ReturnUnlinked DEF ArmTimer, lists
<1>4. CASE CheckTimer(a)
  <2>1. list' = list /\ ready' = ready /\ status' = status /\ pc[a] = "check"
    BY <1>4 DEF CheckTimer, lists
  <2>2. Return(a) \/ (Goto(a, "evlock") /\ call' = call)
    BY <1>4 DEF CheckTimer
  <2>3. \A t \in Tasks : Unlinked(t)' <=> Unlinked(t)
    BY <2>1, <2>2, ReturnUnlinked, UnlinkedFrame
  <2>4. QED
    BY <1>1, <2>1, <2>3
<1>5. CASE TaskEventLock(a)
  <2>1. /\ list' = list /\ ready' = ready /\ status' = status
        /\ pc[a] = "evlock" /\ Goto(a, "event") /\ call' = call
    BY <1>5 DEF TaskEventLock, lists
  <2>2. a \in Clients => call[a].task = NoTask
    BY <2>1 DEF LockInv
  <2>3. \A c \in Clients, t \in Tasks : Unlinking(c, t)' <=> Unlinking(c, t)
    BY <2>1, <2>2 DEF Unlinking, Goto, TypeInv, TypeOK
  <2>4. QED
    BY <1>1, <2>1, <2>3 DEF Unlinked
<1>6. CASE TaskEventEnd(a)
  <2>1. list' = list /\ ready' = ready /\ status' = status /\ pc[a] = "event"
    BY <1>6 DEF TaskEventEnd, lists
  <2>2. CASE a \in Clients /\ call[a].task # NoTask
    <3>1. Goto(a, "unlink") /\ call' = call
      BY <1>6, <2>2 DEF TaskEventEnd
    <3>2. \A c \in Clients, t \in Tasks : Unlinking(c, t)' <=> Unlinking(c, t)
      BY <2>1, <3>1 DEF Unlinking, Goto, TypeInv, TypeOK
    <3>3. QED
      BY <1>1, <2>1, <3>2 DEF Unlinked
  <2>3. CASE ~ (a \in Clients /\ call[a].task # NoTask)
    <3>1. Return(a)
      BY <1>6, <2>3 DEF TaskEventEnd
    <3>2. /\ \E l \in {"idle", "complete"} : Goto(a, l)
          /\ \A c \in Actors \ {a} : call'[c] = call[c]
      BY <3>1, ReturnGoto
    <3>3. \A c \in Clients, t \in Tasks : Unlinking(c, t)' <=> Unlinking(c, t)
      BY <2>1, <2>3, <3>2 DEF Unlinking, Goto, TypeInv, TypeOK
    <3>4. QED
      BY <1>1, <2>1, <3>3 DEF Unlinked
  <2>4. QED
    BY <2>2, <2>3
<1>7. QED
  BY <1>2, <1>3, <1>4, <1>5, <1>6, AddLists, InsertLists, PopLists DEF CallStep

LEMMA ClientLists ==
    ASSUME TypeInv, LockInv, ListInv, NEW c \in Clients,
           ClientCall(c) \/ CancelStep(c)
    PROVE  ListInv'
<1> USE ActorsFacts DEF InMutex, Labels
<1> c \in Actors
  OBVIOUS
<1>1. ASSUME list' = list, ready' = ready, status' = status,
             \A t \in Tasks : Unlinked(t)' <=> Unlinked(t)
      PROVE  ListInv'
  BY <1>1, ListFrame
<1>2. ASSUME NEW t \in Tasks, NEW q \in Queues, NEW d \in 0 .. MaxDelay,
             ClientSchedule(c, t, q, d)
      PROVE  ListInv'
  <2>1. /\ list' = list /\ ready' = ready /\ status' = status
        /\ pc[c] = "idle" /\ Goto(c, "schedule")
        /\ \A b \in Clients \ {c} : call'[b] = call[b]
    BY <1>2 DEF ClientSchedule, ScheduleCall, lists, TypeInv, TypeOK
  <2>2. QED
    BY <1>1, <2>1, UnlinkedFrame
<1>3. ASSUME NEW t \in Tasks, CancelMissing(c, t)
      PROVE  ListInv'
  BY <1>1, <1>3, UnlinkedSame DEF CancelMissing, lists, flow
<1>4. ASSUME NEW q \in Queues, svc_tasks_wait_queue(c, q)
      PROVE  ListInv'
  BY <1>1, <1>4, UnlinkedSame DEF svc_tasks_wait_queue, lists, flow
<1>5. CASE CanceledTimed(c)
  BY <1>1, <1>5, ReturnUnlinked DEF CanceledTimed, lists
<1>6. CASE CanceledReady(c)
  <2>1. /\ list' = list /\ ready' = ready /\ status' = status
        /\ pc[c] = "canceledReady" /\ Goto(c, "event")
        /\ call' = [call EXCEPT ![c] = NoCall]
    BY <1>6 DEF CanceledReady, lists
  <2>2. NoCall.task = NoTask
    BY DEF NoCall
  <2>3. \A b \in Clients, t \in Tasks : Unlinking(b, t)' <=> Unlinking(b, t)
    BY <2>1, <2>2 DEF Unlinking, Goto, TypeInv, TypeOK
  <2>4. QED
    BY <1>1, <2>1, <2>3 DEF Unlinked
<1>7. QED
  BY <1>2, <1>3, <1>4, <1>5, <1>6, CancelTimedLists, CancelReadyLists,
     CancelUnlinkLists DEF ClientCall, CancelQueued, CancelStep

LEMMA WorkerLists ==
    ASSUME ~ Torn, TypeInv, LockInv, ListInv, NEW q \in Queues, WorkerStep(q)
    PROVE  ListInv'
<1> USE ActorsFacts DEF InMutex, Labels
<1> q \in Actors
  OBVIOUS
<1>1. ASSUME UNCHANGED <<list, ready, status>>,
             NEW l \in {"sleep", "wait", "exit", "service", "loop", "store", "done"},
             Goto(q, l), pc[q] \notin InMutex, \A c \in Clients : call'[c] = call[c]
      PROVE  ListInv'
  <2>1. \A t \in Tasks : Unlinked(t)' <=> Unlinked(t)
    BY <1>1, UnlinkedFrame
  <2>2. QED
    BY <1>1, <2>1, ListFrame
<1>2. CASE WorkerLoop(q) \/ WorkerSleep(q)
  BY <1>1, <1>2 DEF WorkerLoop, WorkerSleep, lists
<1>3. CASE WorkerWake(q)
  BY <1>1, <1>3 DEF WorkerWake, lists
<1>4. CASE ServiceEmpty(q)
  BY <1>1, <1>4 DEF ServiceEmpty, lists
<1>5. CASE svc_tasks_complete(q)
  BY <1>1, <1>5 DEF svc_tasks_complete, lists
<1>6. CASE CompleteSignal(q)
  BY <1>1, <1>6 DEF CompleteSignal, lists
<1>7. CASE CallbackDone(q)
  <2>1. /\ UNCHANGED <<list, ready, status>> /\ Goto(q, "service")
        /\ pc[q] = "done" /\ \A c \in Clients : call'[c] = call[c]
    BY <1>7 DEF CallbackDone, lists, TypeInv, TypeOK
  <2>2. QED
    BY <1>1, <2>1
<1>8. QED
  BY <1>2, <1>3, <1>4, <1>5, <1>6, <1>7, ServiceLists, CompleteLists DEF WorkerStep

LEMMA ListStep ==
    ASSUME ~ Torn
    PROVE  TypeInv /\ LockInv /\ ListInv /\ [Next]_vars => ListInv'
<1> SUFFICES ASSUME TypeInv, LockInv, ListInv, [Next]_vars
             PROVE  ListInv'
  OBVIOUS
<1>1. ASSUME list' = list, ready' = ready, status' = status,
             \A t \in Tasks : Unlinked(t)' <=> Unlinked(t)
      PROVE  ListInv'
  BY <1>1, ListFrame
<1>2. ASSUME NEW q \in Queues, NEW p \in Queues, NEW d \in 0 .. MaxDelay,
             CallbackReschedule(q, p, d)
      PROVE  ListInv'
  <2>1. /\ list' = list /\ ready' = ready /\ status' = status
        /\ pc[q] = "callback" /\ Goto(q, "schedule")
        /\ \A b \in Clients \ {q} : call'[b] = call[b]
    BY <1>2, ActorsFacts
      DEF CallbackReschedule, ScheduleCall, lists, TypeInv, TypeOK
  <2>2. QED
    BY <1>1, <2>1, UnlinkedFrame, ActorsFacts DEF InMutex, Labels
<1>2a. ASSUME NEW q \in Queues, SpuriousWake(q)
       PROVE  ListInv'
  <2>1. /\ list' = list /\ ready' = ready /\ status' = status
        /\ pc[q] = "wait" /\ call' = call
        /\ \E l \in {"service", "exit"} : Goto(q, l)
    BY <1>2a DEF SpuriousWake, lists
  <2>2. QED
    BY <1>1, <2>1, UnlinkedFrame, ActorsFacts DEF InMutex, Labels
<1>3. CASE TimerExpire
  BY <1>1, <1>3, UnlinkedSame DEF TimerExpire, lists, flow
<1>4. CASE svc_tasks_virtual_timer
  <2>1. /\ list' = list /\ ready' = ready /\ status' = status
        /\ Goto(Timer, "event") /\ call' = call
    BY <1>4 DEF svc_tasks_virtual_timer, lists
  <2>2. \A c \in Clients, t \in Tasks : Unlinking(c, t)' <=> Unlinking(c, t)
    BY <2>1, ActorsFacts DEF Unlinking, Goto, TypeInv, TypeOK
  <2>3. QED
    BY <1>1, <2>1, <2>2 DEF Unlinked
<1>5. CASE Tick
  <2>1. /\ list' = [i \in 1 .. Len(list) |-> [list[i] EXCEPT !.left = @ - 1]]
        /\ UNCHANGED <<ready, status, pc, call>>
    BY <1>5 DEF Tick, flow
  <2>2. /\ Len(list) \in Nat /\ Len(list') = Len(list)
        /\ \A i \in 1 .. Len(list) : list[i] \in Entry
    BY <2>1, LenProperties, ElementOfSeq DEF TypeInv, TypeOK
  <2>3. \A i \in 1 .. Len(list) : list'[i].task = list[i].task
    BY <2>1, <2>2 DEF Entry
  <2>4. Listed' = Listed
    BY <2>2, <2>3 DEF Listed
  <2>5. ListDistinct'
    BY <2>2, <2>3 DEF ListInv, ListDistinct, Distinct, Names
  <2>6. \A q \in Queues : ReadyIn(q)' = ReadyIn(q) /\ ReadyDistinct(q)'
    BY <2>1 DEF ReadyIn, ReadyDistinct, ListInv
  <2>7. \A t \in Tasks : Unlinked(t)' <=> Unlinked(t)
    BY <2>1, UnlinkedSame
  <2>8. Disjoint'
    BY <2>4, <2>6, <2>7 DEF ListInv, Disjoint
  <2>9. \A t \in Tasks : Placed(t)' <=> Placed(t)
    BY <2>4, <2>6, <2>7 DEF Placed
  <2>10. QED
    BY <2>1, <2>5, <2>6, <2>8, <2>9 DEF ListInv
<1>6. CASE svc_tasks_stop
  BY <1>1, <1>6, UnlinkedSame DEF svc_tasks_stop, lists, flow
<1>7. CASE svc_tasks_start
  <2>1. \A c \in Clients : pc'[c] = pc[c] /\ call'[c] = call[c]
    BY <1>7, ActorsFacts DEF svc_tasks_start, TypeInv, TypeOK
  <2>2. \A t \in Tasks : Unlinked(t)' <=> Unlinked(t)
    BY <2>1 DEF Unlinked, Unlinking
  <2>3. QED
    BY <1>1, <1>7, <2>2 DEF svc_tasks_start, lists
<1>8. CASE UNCHANGED vars
  BY <1>1, <1>8, UnlinkedSame DEF vars, lists, flow
<1>9. QED
  BY <1>2, <1>2a, <1>3, <1>4, <1>5, <1>6, <1>7, <1>8, CallLists, WorkerLists, ClientLists
    DEF Next

LEMMA ListInit == Init => LockInv /\ ListInv
<1> SUFFICES ASSUME Init PROVE LockInv /\ ListInv
  OBVIOUS
<1>1. LockInv
  BY ActorsFacts DEF Init, LockInv, InMutex
<1>2. list = <<>> /\ Len(list) = 0 /\ Listed = {}
  BY EmptySeq DEF Init, Listed
<1>3. \A q \in Queues : ready[q] = <<>> /\ Len(ready[q]) = 0 /\ ReadyIn(q) = {}
  BY EmptySeq DEF Init, ReadyIn
<1>4. \A t \in Tasks : ~ Unlinked(t)
  BY ActorsFacts DEF Init, Unlinked, Unlinking
<1>5. ListInv
  BY <1>2, <1>3, <1>4 DEF Init, ListInv, ListDistinct, ReadyDistinct, Distinct,
      Disjoint, Placed
<1>6. QED
  BY <1>1, <1>5

LEMMA ListInvariant ==
    ASSUME ~ Torn
    PROVE  Spec => [](TypeInv /\ LockInv /\ ListInv)
<1>1. Init => LockInv /\ ListInv
  BY ListInit
<1>2. TypeInv /\ LockInv /\ [Next]_vars => LockInv'
  BY LockStep
<1>3. TypeInv /\ LockInv /\ ListInv /\ [Next]_vars => ListInv'
  BY ListStep
<1>4. QED
  BY <1>1, <1>2, <1>3, TypeInvariant, PTL DEF Spec

\* The status of a task tells whether it is in a list, and no list meets a task
\* twice, whoever schedules, cancels, runs or stops, if svc_tasks_complete
\* clears the ACTIVE bit in one step.
THEOREM StatusTellsTruth ==
    ASSUME ~ Torn
    PROVE  Spec => []QueuedIsPending
<1>1. ListInv => QueuedIsPending
  BY ListInvImplies
<1>2. QED
  BY <1>1, ListInvariant, PTL

THEOREM ListsDisjoint ==
    ASSUME ~ Torn
    PROVE  Spec => []ListedOnce
<1>1. ListInv => ListedOnce
  BY ListInvImplies
<1>2. QED
  BY <1>1, ListInvariant, PTL
=============================================================================
