---------------------------- MODULE SvcTasksProof ----------------------------
(***************************************************************************)
(* Proofs about SvcTasks for any number of tasks, queues and clients and   *)
(* any bounds.                                                             *)
(***************************************************************************)
EXTENDS SvcTasks, TLAPS, SequenceTheorems

\* linked_remove: the sequence without its i-th member.
LEMMA RemoveAtFacts ==
    ASSUME NEW S, NEW s \in Seq(S), NEW i \in 1 .. Len(s)
    PROVE  /\ RemoveAt(s, i) \in Seq(S)
           /\ Len(RemoveAt(s, i)) = Len(s) - 1
           /\ \A j \in 1 .. Len(s) - 1 :
                 RemoveAt(s, i)[j] = IF j < i THEN s[j] ELSE s[j + 1]
<1> DEFINE a == SubSeq(s, 1, i - 1)
           b == SubSeq(s, i + 1, Len(s))
<1>1. /\ Len(s) \in Nat /\ i \in Int /\ 1 <= i /\ i <= Len(s)
      /\ \A j \in 1 .. Len(s) : s[j] \in S
  BY LenProperties, ElementOfSeq
<1>2. /\ a \in Seq(S) /\ Len(a) = i - 1
      /\ \A j \in 1 .. i - 1 : a[j] = s[j]
  <2>1. \A j \in 1 .. i - 1 : s[j] \in S
    BY <1>1
  <2>2. QED
    BY <1>1, <2>1, SubSeqProperties, SMT
<1>3. /\ b \in Seq(S) /\ Len(b) = Len(s) - i
      /\ \A j \in 1 .. Len(s) - i : b[j] = s[i + j]
  <2>1. \A j \in i + 1 .. Len(s) : s[j] \in S
    BY <1>1
  <2> HIDE DEF a
  <2>2. QED
    BY <1>1, <2>1, SubSeqProperties, SMT
<1> HIDE DEF a, b
<1>4. /\ a \o b \in Seq(S)
      /\ Len(a \o b) = Len(s) - 1
      /\ \A j \in 1 .. Len(s) - 1 :
            (a \o b)[j] = IF j <= i - 1 THEN a[j] ELSE b[j - (i - 1)]
  <2>1. /\ a \o b \in Seq(S)
        /\ Len(a \o b) = Len(a) + Len(b)
        /\ \A j \in 1 .. Len(a) + Len(b) :
              (a \o b)[j] = IF j <= Len(a) THEN a[j] ELSE b[j - Len(a)]
    BY <1>2, <1>3, ConcatProperties
  <2>2. Len(a) = i - 1 /\ Len(a) + Len(b) = Len(s) - 1
    BY <1>1, <1>2, <1>3
  <2>3. QED
    BY <2>1, <2>2
<1>5. ASSUME NEW j \in 1 .. Len(s) - 1
      PROVE  (a \o b)[j] = IF j < i THEN s[j] ELSE s[j + 1]
  <2>1. CASE j < i
    BY <1>1, <1>2, <1>4, <2>1
  <2>2. CASE ~ (j < i)
    <3>1. (a \o b)[j] = b[j - (i - 1)]
      BY <1>1, <1>4, <2>2
    <3>2. j - (i - 1) \in 1 .. Len(s) - i /\ i + (j - (i - 1)) = j + 1
      BY <1>1, <2>2
    <3>3. QED
      BY <1>3, <2>2, <3>1, <3>2
  <2>3. QED
    BY <2>1, <2>2
<1>6. RemoveAt(s, i) = a \o b
  BY DEF RemoveAt, a, b
<1>7. QED
  BY <1>4, <1>5, <1>6

\* linked_add_head and linked_add_next: e becomes the i-th member.
LEMMA InsertAtFacts ==
    ASSUME NEW S, NEW s \in Seq(S), NEW i \in 1 .. Len(s) + 1, NEW e \in S
    PROVE  /\ InsertAt(s, i, e) \in Seq(S)
           /\ Len(InsertAt(s, i, e)) = Len(s) + 1
           /\ \A j \in 1 .. Len(s) + 1 :
                 InsertAt(s, i, e)[j] = IF j < i THEN s[j]
                                        ELSE IF j = i THEN e ELSE s[j - 1]
<1> DEFINE a == SubSeq(s, 1, i - 1)
           b == SubSeq(s, i, Len(s))
           ae == Append(a, e)
<1>1. /\ Len(s) \in Nat /\ i \in Int /\ 1 <= i /\ i <= Len(s) + 1
      /\ \A j \in 1 .. Len(s) : s[j] \in S
  BY LenProperties, ElementOfSeq
<1>2. /\ a \in Seq(S) /\ Len(a) = i - 1
      /\ \A j \in 1 .. i - 1 : a[j] = s[j]
  <2>1. \A j \in 1 .. i - 1 : s[j] \in S
    BY <1>1
  <2>2. QED
    BY <1>1, <2>1, SubSeqProperties, SMT
<1>3. /\ b \in Seq(S) /\ Len(b) = Len(s) - i + 1
      /\ \A j \in 1 .. Len(s) - i + 1 : b[j] = s[i + j - 1]
  <2>1. \A j \in i .. Len(s) : s[j] \in S
    BY <1>1
  <2>2. QED
    BY <1>1, <2>1, SubSeqProperties, SMT
<1> HIDE DEF a, b
<1>4. /\ ae \in Seq(S) /\ Len(ae) = i
      /\ \A j \in 1 .. i : ae[j] = IF j < i THEN s[j] ELSE e
  BY <1>1, <1>2, AppendProperties
<1>5. a \o <<e>> = ae
  BY <1>2, AppendIsConcat
<1> HIDE DEF ae
<1>6. /\ ae \o b \in Seq(S)
      /\ Len(ae \o b) = Len(s) + 1
      /\ \A j \in 1 .. Len(s) + 1 :
            (ae \o b)[j] = IF j <= i THEN ae[j] ELSE b[j - i]
  <2>1. /\ ae \o b \in Seq(S)
        /\ Len(ae \o b) = Len(ae) + Len(b)
        /\ \A j \in 1 .. Len(ae) + Len(b) :
              (ae \o b)[j] = IF j <= Len(ae) THEN ae[j] ELSE b[j - Len(ae)]
    BY <1>3, <1>4, ConcatProperties
  <2>2. Len(ae) = i /\ Len(ae) + Len(b) = Len(s) + 1
    BY <1>1, <1>3, <1>4
  <2>3. QED
    BY <2>1, <2>2
<1>7. ASSUME NEW j \in 1 .. Len(s) + 1
      PROVE  (ae \o b)[j] = IF j < i THEN s[j]
                            ELSE IF j = i THEN e ELSE s[j - 1]
  <2>1. CASE j <= i
    BY <1>1, <1>4, <1>6, <2>1
  <2>2. CASE ~ (j <= i)
    <3>1. (ae \o b)[j] = b[j - i]
      BY <1>1, <1>6, <2>2
    <3>2. j - i \in 1 .. Len(s) - i + 1 /\ i + (j - i) - 1 = j - 1
      BY <1>1, <2>2
    <3>3. QED
      BY <1>1, <1>3, <2>2, <3>1, <3>2
  <2>3. QED
    BY <2>1, <2>2
<1>8. InsertAt(s, i, e) = ae \o b
  BY <1>5 DEF InsertAt, a, b
<1>9. QED
  BY <1>6, <1>7, <1>8

-----------------------------------------------------------------------------
(* Type correctness.                                                       *)

\* The parameters of a call are there when they are used.
CallOK ==
    /\ \A a \in Actors : pc[a] = "schedule" => /\ call[a].task \in Tasks
                                               /\ call[a].queue \in Queues
    /\ \A q \in Queues : pc[q] \in InCallback \cup InCall => call[q].task \in Tasks
    /\ \A c \in Clients : pc[c] \in {"unlink", "canceled", "canceledReady"}
                              => call[c].task \in Tasks

TypeInv == TypeOK /\ CallOK

LEMMA ActorsFacts ==
    /\ Clients \subseteq Actors /\ Queues \subseteq Actors /\ Timer \in Actors
    /\ \A c \in Clients : c \notin Queues /\ c # Timer
    /\ \A q \in Queues : q # Timer
    /\ NoTask \notin Tasks /\ NoTask \notin Actors
BY ActorsAssumption DEF Actors

\* A task made ready.
LEMMA ToReadyType ==
    ASSUME TypeOK, NEW t \in Tasks, NEW q \in Queues, task_to_ready(t, q)
    PROVE  /\ ready' \in [Queues -> Seq(Tasks)] /\ ready_count' \in Int
           /\ complete' \in [Queues -> BOOLEAN]
           /\ notified' \in [Queues -> BOOLEAN]
<1>1. Append(ready[q], t) \in Seq(Tasks)
  BY AppendProperties DEF TypeOK
<1>2. Notify(q) \in BOOLEAN
  BY DEF Notify, TypeOK
<1>3. QED
  BY <1>1, <1>2 DEF TypeOK, task_to_ready

\* The end of svc_tasks_schedule or svc_tasks_task_event.
LEMMA ReturnType ==
    ASSUME TypeInv, NEW a \in Actors, pc[a] \in InCall, Return(a)
    PROVE  /\ pc' \in [Actors -> Labels] /\ call' \in [Actors -> Call]
           /\ saved' \in [Queues -> Statuses]
           /\ CallOK'
<1>1. Rest(a, 0) \in Call
  BY DEF TypeInv, TypeOK, Call, Rest
<1>2. a \in Queues => Rest(a, 0).task \in Tasks
  BY DEF TypeInv, CallOK, Rest
<1>3. pc' = [pc EXCEPT ![a] = IF a \in Queues THEN "complete" ELSE "idle"]
  BY DEF Return, Goto
<1>4. call' = [call EXCEPT ![a] = Rest(a, 0)] /\ saved' = saved
  BY DEF Return
<1>5. pc' \in [Actors -> Labels] /\ call' \in [Actors -> Call]
      /\ saved' \in [Queues -> Statuses]
  BY <1>1, <1>3, <1>4 DEF TypeInv, TypeOK, Labels
<1>6. CallOK'
  BY <1>2, <1>3, <1>4, ActorsFacts DEF TypeInv, TypeOK, CallOK, InCallback, InCall
<1>7. QED
  BY <1>5, <1>6

\* A step of a thread to label l that leaves the parameters of its call alone.
LEMMA GotoType ==
    ASSUME TypeInv, NEW a \in Actors, NEW l \in Labels, Goto(a, l), call' = call,
           l # "schedule",
           a \in Queues /\ l \in InCallback \cup InCall => call[a].task \in Tasks,
           a \in Clients /\ l \in {"unlink", "canceled", "canceledReady"}
               => call[a].task \in Tasks
    PROVE  pc' \in [Actors -> Labels] /\ call' \in [Actors -> Call] /\ CallOK'
BY ActorsFacts DEF TypeInv, TypeOK, CallOK, Goto

LEMMA CallStepType ==
    ASSUME TypeInv, NEW a \in Actors, CallStep(a)
    PROVE  TypeInv'
<1> USE ActorsFacts, BoundsAssumption DEF TypeInv
<1>1. CASE ScheduleBusy(a)
  BY <1>1, ReturnType DEF ScheduleBusy, TypeOK, InCall, lists, clock, engine
<1>2. CASE svc_tasks_add(a)
  <2>1. call[a].task \in Tasks /\ call[a].queue \in Queues
    BY <1>2 DEF svc_tasks_add, CallOK
  <2>2. /\ ready' \in [Queues -> Seq(Tasks)] /\ ready_count' \in Int
        /\ complete' \in [Queues -> BOOLEAN]
        /\ notified' \in [Queues -> BOOLEAN]
    BY <1>2, <2>1, ToReadyType DEF svc_tasks_add
  <2>3. QED
    BY <1>2, <2>1, <2>2, ReturnType
      DEF svc_tasks_add, TypeOK, InCall, Statuses, clock, engine
<1>3. CASE InsertTimed(a)
  <2>1. PICK pos \in 1 .. Len(list) + 1 :
           /\ list' = InsertAt(list, pos, [task |-> call[a].task,
                         queue |-> call[a].queue, left |-> call[a].delay])
           /\ IF pos = 1
              THEN Goto(a, "arm") /\ call' = [call EXCEPT ![a] = Rest(a, @.delay)]
              ELSE Goto(a, "check") /\ call' = [call EXCEPT ![a] = Rest(a, 0)]
           /\ asserted' = (asserted \/ \E i \in 1 .. pos - 1 :
                                           list[i].task = call[a].task)
    BY <1>3 DEF InsertTimed
  <2>2. /\ pc[a] = "schedule"
        /\ status' = [status EXCEPT ![call[a].task] = "QUEUED"]
        /\ list_count' = list_count + 1
        /\ UNCHANGED <<mutex, ready, ready_count, event, complete, notified,
                       clock, engine, saved>>
    BY <1>3 DEF InsertTimed
  <2>3. /\ call[a].task \in Tasks /\ call[a].queue \in Queues
        /\ call[a].delay \in Nat
    BY <2>2 DEF CallOK, TypeOK, Call
  <2>4. list' \in Seq(Entry)
    <3>1. [task |-> call[a].task, queue |-> call[a].queue,
           left |-> call[a].delay] \in Entry
      BY <2>3 DEF Entry
    <3>2. QED
      BY <2>1, <3>1, InsertAtFacts DEF TypeOK
  <2>5. asserted' \in BOOLEAN
    BY <2>1 DEF TypeOK
  <2>6. PICK l \in {"arm", "check"}, d \in Nat :
           /\ pc' = [pc EXCEPT ![a] = l]
           /\ call' = [call EXCEPT ![a] = Rest(a, d)]
    BY <2>1, <2>3 DEF Goto
  <2>7. Rest(a, d) \in Call /\ (a \in Queues => Rest(a, d).task \in Tasks)
    BY <2>3 DEF Rest, Call
  <2>8. pc' \in [Actors -> Labels] /\ call' \in [Actors -> Call]
    BY <2>6, <2>7 DEF TypeOK, Labels
  <2>9. CallOK'
    BY <2>6, <2>7 DEF TypeOK, CallOK, InCallback, InCall
  <2>10. status' \in [Tasks -> Statuses] /\ list_count' \in Int
    BY <2>2, <2>3 DEF TypeOK, Statuses
  <2>11. /\ mutex' = mutex /\ ready' = ready /\ ready_count' = ready_count
         /\ event' = event /\ complete' = complete /\ notified' = notified
         /\ timer' = timer /\ fired' = fired /\ run' = run /\ stops' = stops
         /\ saved' = saved
    BY <2>2 DEF clock, engine
  <2>12. QED
    BY <2>4, <2>5, <2>8, <2>9, <2>10, <2>11 DEF TypeOK
<1>4. CASE ArmTimer(a)
  BY <1>4, ReturnType DEF ArmTimer, TypeOK, InCall, Call, lists, engine
<1>5. CASE CheckTimer(a)
  <2>1. CASE Return(a)
    BY <1>5, <2>1, ReturnType DEF CheckTimer, TypeOK, InCall, lists, clock, engine
  <2>2. CASE Goto(a, "evlock") /\ UNCHANGED <<call, saved>>
    <3>1. a \in Queues => call[a].task \in Tasks
      BY <1>5 DEF CheckTimer, CallOK, InCall
    <3>2. QED
      BY <1>5, <2>2, <3>1, GotoType
        DEF CheckTimer, TypeOK, Labels, lists, clock, engine
  <2>3. QED
    BY <1>5, <2>1, <2>2 DEF CheckTimer
<1>6. CASE TaskEventLock(a)
  <2>1. a \in Queues => call[a].task \in Tasks
    BY <1>6 DEF TaskEventLock, CallOK, InCall
  <2>2. QED
    BY <1>6, <2>1, GotoType DEF TaskEventLock, TypeOK, Labels, lists, clock, engine
<1>7. CASE TaskEventPop(a)
  <2>1. Head(list) \in Entry /\ Tail(list) \in Seq(Entry)
    BY <1>7, HeadTailProperties DEF TaskEventPop, TypeOK
  <2>2. Head(list).task \in Tasks /\ Head(list).queue \in Queues
    BY <2>1 DEF Entry
  <2>3. /\ ready' \in [Queues -> Seq(Tasks)] /\ ready_count' \in Int
        /\ complete' \in [Queues -> BOOLEAN]
        /\ notified' \in [Queues -> BOOLEAN]
    BY <1>7, <2>2, ToReadyType DEF TaskEventPop
  <2>4. QED
    BY <1>7, <2>1, <2>3 DEF TaskEventPop, TypeOK, CallOK, clock, engine, flow
<1>8. CASE TaskEventEnd(a)
  <2>1. timer' \in Int
    <3>1. CASE list = <<>>
      BY <1>8, <3>1 DEF TaskEventEnd, Rearm, TypeOK
    <3>2. CASE list # <<>>
      <4>1. Head(list) \in Entry
        BY <3>2, HeadTailProperties DEF TypeOK
      <4>2. Head(list).left \in Int
        BY <4>1 DEF Entry
      <4>3. QED
        BY <1>8, <3>2, <4>2 DEF TaskEventEnd, Rearm
    <3>3. QED
      BY <3>1, <3>2
  <2>2. CASE a \in Clients /\ call[a].task # NoTask
    <3>1. call[a].task \in Tasks
      BY <2>2 DEF TypeOK, Call
    <3>2. QED
      BY <1>8, <2>1, <2>2, <3>1, GotoType DEF TaskEventEnd, TypeOK, Labels,
          InCallback, InCall, lists, engine
  <2>3. CASE ~ (a \in Clients /\ call[a].task # NoTask)
    <3>1. Return(a) /\ mutex' = NoTask
      BY <1>8, <2>3 DEF TaskEventEnd
    <3>2. QED
      BY <1>8, <2>1, <3>1, ReturnType DEF TaskEventEnd, TypeOK, InCall, lists, engine
  <2>4. QED
    BY <2>2, <2>3
<1>9. QED
  BY <1>1, <1>2, <1>3, <1>4, <1>5, <1>6, <1>7, <1>8 DEF CallStep

LEMMA ScheduleCallType ==
    ASSUME TypeInv, NEW a \in Actors, NEW t \in Tasks, NEW q \in Queues,
           NEW d \in 0 .. MaxDelay, ScheduleCall(a, t, q, d)
    PROVE  TypeInv'
<1> USE ActorsFacts, BoundsAssumption DEF TypeInv
<1> DEFINE e == IF d >= Half - 1 THEN Half - 2 ELSE d
<1>1. [task |-> t, queue |-> q, delay |-> e] \in Call
  BY DEF Call
<1> HIDE DEF e
<1>2. /\ call' = [call EXCEPT ![a] = [task |-> t, queue |-> q, delay |-> e]]
      /\ pc' = [pc EXCEPT ![a] = "schedule"]
  BY DEF ScheduleCall, Goto, e
<1>3. pc' \in [Actors -> Labels] /\ call' \in [Actors -> Call]
  BY <1>1, <1>2 DEF TypeOK, Labels
<1>4. CallOK'
  BY <1>2 DEF TypeOK, CallOK
<1>5. event' \in [Tasks -> BOOLEAN]
  BY DEF ScheduleCall, TypeOK
<1>6. QED
  BY <1>3, <1>4, <1>5 DEF ScheduleCall, TypeOK, lists, clock, engine

LEMMA ClientType ==
    ASSUME TypeInv, NEW c \in Clients, ClientCall(c) \/ CancelStep(c)
    PROVE  TypeInv'
<1> USE ActorsFacts, BoundsAssumption DEF TypeInv
<1> c \in Actors
  OBVIOUS
<1>1. CASE \E t \in Tasks, q \in Queues, d \in 0 .. MaxDelay :
              ClientSchedule(c, t, q, d)
  BY <1>1, ScheduleCallType DEF ClientSchedule
<1>2. ASSUME NEW t \in Tasks, CancelTimed(c, t)
      PROVE  TypeInv'
  <2>1. PICK i \in 1 .. Len(list) :
           /\ list' = RemoveAt(list, i)
           /\ \/ mutex' = c /\ Goto(c, "event") /\ status' = status
              \/ /\ mutex' = mutex /\ Goto(c, "canceled")
                 /\ status' = [status EXCEPT ![t] = "COMPLETE"]
    BY <1>2 DEF CancelTimed
  <2>2. list' \in Seq(Entry)
    BY <2>1, RemoveAtFacts DEF TypeOK
  <2>3. status' \in [Tasks -> Statuses]
    BY <2>1 DEF TypeOK, Statuses
  <2>4. asserted' \in BOOLEAN
    BY <1>2 DEF CancelTimed, TypeOK
  <2>5. call' = [call EXCEPT ![c].task = t]
    BY <1>2 DEF CancelTimed
  <2>6. PICK l \in {"event", "canceled"} : pc' = [pc EXCEPT ![c] = l]
    BY <2>1 DEF Goto
  <2>7. call' \in [Actors -> Call] /\ call'[c].task = t
    BY <2>5 DEF TypeOK, Call
  <2>8. CallOK'
    BY <2>5, <2>6, <2>7 DEF TypeOK, CallOK
  <2>9. pc' \in [Actors -> Labels] /\ mutex' \in Actors \cup {NoTask}
    BY <2>1, <2>6 DEF TypeOK, Labels
  <2>10. list_count' \in Int /\ UNCHANGED <<ready, ready_count, event, complete,
             notified, timer, fired, run, stops, saved>>
    BY <1>2 DEF CancelTimed, TypeOK, clock, engine
  <2>11. QED
    BY <2>2, <2>3, <2>4, <2>7, <2>8, <2>9, <2>10 DEF TypeOK
<1>3. ASSUME NEW t \in Tasks, CancelReady(c, t)
      PROVE  TypeInv'
  <2>0. PICK q \in Queues : \E i \in 1 .. Len(ready[q]) :
           /\ ready' = [ready EXCEPT ![q] = RemoveAt(@, i)]
           /\ asserted' = (asserted \/ CountAsserts(q))
    BY <1>3 DEF CancelReady
  <2>1. PICK i \in 1 .. Len(ready[q]) :
           /\ ready' = [ready EXCEPT ![q] = RemoveAt(@, i)]
           /\ asserted' = (asserted \/ CountAsserts(q))
    BY <2>0
  <2>2. RemoveAt(ready[q], i) \in Seq(Tasks)
    BY RemoveAtFacts DEF TypeOK
  <2>3. ready' \in [Queues -> Seq(Tasks)]
    BY <2>1, <2>2 DEF TypeOK
  <2>4. asserted' \in BOOLEAN
    BY <2>1 DEF TypeOK, CountAsserts
  <2>5. /\ call' = [call EXCEPT ![c].task = t]
        /\ pc' = [pc EXCEPT ![c] = "canceledReady"]
        /\ status' = [status EXCEPT ![t] = "COMPLETE"]
        /\ ready_count' = ready_count - 1
    BY <1>3 DEF CancelReady, Goto
  <2>6. call' \in [Actors -> Call] /\ call'[c].task = t
    BY <2>5 DEF TypeOK, Call
  <2>7. CallOK'
    BY <2>5, <2>6 DEF TypeOK, CallOK
  <2>8. /\ pc' \in [Actors -> Labels] /\ status' \in [Tasks -> Statuses]
        /\ ready_count' \in Int
    BY <2>5 DEF TypeOK, Labels, Statuses
  <2>9. UNCHANGED <<mutex, list, list_count, event, complete, notified, timer,
                    fired, run, stops, saved>>
    BY <1>3 DEF CancelReady, clock, engine
  <2>10. QED
    BY <2>3, <2>4, <2>6, <2>7, <2>8, <2>9 DEF TypeOK
<1>4. ASSUME NEW t \in Tasks, CancelMissing(c, t)
      PROVE  TypeInv'
  BY <1>4 DEF CancelMissing, TypeOK, CallOK, lists, clock, engine, flow
<1>5. ASSUME NEW q \in Queues, svc_tasks_wait_queue(c, q)
      PROVE  TypeInv'
  BY <1>5 DEF svc_tasks_wait_queue, TypeOK, CallOK, lists, clock, engine, flow
<1>6. CASE CancelUnlink(c)
  <2>1. call[c].task \in Tasks
    BY <1>6 DEF CancelUnlink, CallOK
  <2>2. QED
    BY <1>6, <2>1, GotoType DEF CancelUnlink, TypeOK, Labels, Statuses, InCallback,
        InCall, lists, clock, engine
<1>7. CASE CanceledTimed(c)
  <2>1. call[c].task \in Tasks
    BY <1>7 DEF CanceledTimed, CallOK
  <2>2. /\ pc' = [pc EXCEPT ![c] = "idle"] /\ saved' = saved
        /\ call' = [call EXCEPT ![c] = Rest(c, 0)]
    BY <1>7 DEF CanceledTimed, Return, Goto
  <2>3. Rest(c, 0) \in Call
    BY DEF Rest, Call
  <2>4. /\ pc' \in [Actors -> Labels] /\ call' \in [Actors -> Call]
    BY <2>2, <2>3 DEF TypeOK, Labels
  <2>5. CallOK'
    BY <2>2 DEF TypeOK, CallOK
  <2>6. event' \in [Tasks -> BOOLEAN]
    BY <1>7 DEF CanceledTimed, TypeOK
  <2>7. QED
    BY <1>7, <2>2, <2>4, <2>5, <2>6 DEF CanceledTimed, TypeOK, lists, clock, engine
<1>8. CASE CanceledReady(c)
  <2>1. /\ pc' = [pc EXCEPT ![c] = "event"] /\ mutex' = c
        /\ call' = [call EXCEPT ![c] = NoCall]
    BY <1>8 DEF CanceledReady, Goto
  <2>2. NoCall \in Call
    BY DEF NoCall, Call
  <2>3. /\ pc' \in [Actors -> Labels] /\ call' \in [Actors -> Call]
        /\ mutex' \in Actors \cup {NoTask}
    BY <2>1, <2>2 DEF TypeOK, Labels
  <2>4. CallOK'
    BY <2>1 DEF TypeOK, CallOK
  <2>5. event' \in [Tasks -> BOOLEAN]
    BY <1>8 DEF CanceledReady, TypeOK
  <2>6. QED
    BY <1>8, <2>3, <2>4, <2>5 DEF CanceledReady, TypeOK, lists, clock, engine
<1>9. QED
  BY <1>1, <1>2, <1>3, <1>4, <1>5, <1>6, <1>7, <1>8 DEF ClientCall, CancelQueued, CancelStep

LEMMA WorkerType ==
    ASSUME TypeInv, NEW q \in Queues, WorkerStep(q)
    PROVE  TypeInv'
<1> USE ActorsFacts, BoundsAssumption DEF TypeInv
<1> q \in Actors
  OBVIOUS
<1>1. CASE WorkerLoop(q) \/ WorkerSleep(q)
  BY <1>1 DEF WorkerLoop, WorkerSleep, Goto, TypeOK, CallOK, Labels, InCallback, InCall, lists,
      clock, engine
<1>2. CASE WorkerWake(q)
  BY <1>2 DEF WorkerWake, Goto, TypeOK, CallOK, Labels, InCallback, InCall, lists,
      clock, engine
<1>3. CASE ServiceEmpty(q)
  BY <1>3 DEF ServiceEmpty, Goto, TypeOK, CallOK, Labels, InCallback, InCall,
      lists, clock, engine
<1>4. CASE svc_tasks_service_task(q)
  <2> DEFINE t == Head(ready[q])
  <2>1. t \in Tasks /\ Tail(ready[q]) \in Seq(Tasks)
    BY <1>4, HeadTailProperties DEF svc_tasks_service_task, TypeOK
  <2>2. /\ ready' = [ready EXCEPT ![q] = Tail(ready[q])]
        /\ ready_count' = ready_count - 1
        /\ asserted' = (asserted \/ CountAsserts(q))
        /\ status' = [status EXCEPT ![t] = "ACTIVE"]
        /\ call' = [call EXCEPT ![q].task = t]
        /\ pc' = [pc EXCEPT ![q] = "callback"]
        /\ UNCHANGED <<mutex, list, list_count, event, complete, notified, timer,
                       fired, run, stops, saved>>
    BY <1>4 DEF svc_tasks_service_task, Goto, clock, engine
  <2> HIDE DEF t
  <2>3. ready' \in [Queues -> Seq(Tasks)] /\ ready_count' \in Int
    BY <2>1, <2>2 DEF TypeOK
  <2>4. asserted' \in BOOLEAN /\ status' \in [Tasks -> Statuses]
    BY <2>1, <2>2 DEF TypeOK, CountAsserts, Statuses
  <2>5. call' \in [Actors -> Call] /\ call'[q].task = t
    BY <2>1, <2>2 DEF TypeOK, Call
  <2>6. pc' \in [Actors -> Labels]
    BY <2>2 DEF TypeOK, Labels
  <2>7. CallOK'
    BY <2>1, <2>2, <2>5 DEF TypeOK, CallOK
  <2>8. QED
    BY <2>2, <2>3, <2>4, <2>5, <2>6, <2>7 DEF TypeOK
<1>5. CASE svc_tasks_complete(q)
  <2>1. call[q].task \in Tasks
    BY <1>5 DEF svc_tasks_complete, CallOK, InCallback
  <2>2. QED
    BY <1>5, <2>1, GotoType DEF svc_tasks_complete, TypeOK, Statuses, Labels,
        InCallback, lists, clock, engine
<1>6. CASE CompleteStore(q)
  <2>1. call[q].task \in Tasks
    BY <1>6 DEF CompleteStore, CallOK, InCallback
  <2>2. QED
    BY <1>6, <2>1, GotoType DEF CompleteStore, AfterStore, ClearActive, TypeOK,
        Statuses, Labels, InCallback, lists, clock, engine
<1>7. CASE CompleteSignal(q)
  <2>1. call[q].task \in Tasks
    BY <1>7 DEF CompleteSignal, CallOK, InCallback
  <2>2. QED
    BY <1>7, <2>1, GotoType DEF CompleteSignal, TypeOK, Labels, InCallback, lists,
        clock, engine
<1>8. CASE CallbackDone(q)
  <2>1. NoCall \in Call
    BY DEF NoCall, Call
  <2>2. QED
    BY <1>8, <2>1 DEF CallbackDone, Goto, TypeOK, CallOK, Labels, InCallback,
        InCall, lists, clock, engine
<1>9. QED
  BY <1>1, <1>2, <1>3, <1>4, <1>5, <1>6, <1>7, <1>8 DEF WorkerStep

LEMMA TimeType ==
    ASSUME TypeInv, TimerExpire \/ svc_tasks_virtual_timer \/ Tick
    PROVE  TypeInv'
<1> USE ActorsFacts, BoundsAssumption DEF TypeInv
<1>1. CASE TimerExpire
  BY <1>1 DEF TimerExpire, TypeOK, CallOK, lists, engine, flow
<1>2. CASE svc_tasks_virtual_timer
  BY <1>2, GotoType DEF svc_tasks_virtual_timer, TypeOK, Labels, lists, engine
<1>3. CASE Tick
  <2>1. list' \in Seq(Entry)
    <3>1. \A i \in 1 .. Len(list) : list[i] \in Entry
      BY ElementOfSeq DEF TypeOK
    <3>2. \A i \in 1 .. Len(list) : [list[i] EXCEPT !.left = @ - 1] \in Entry
      BY <3>1 DEF Entry
    <3>3. Len(list) \in Nat
      BY LenProperties DEF TypeOK
    <3>4. QED
      BY <1>3, <3>2, <3>3 DEF Tick
  <2>2. QED
    BY <1>3, <2>1 DEF Tick, TypeOK, CallOK, engine, flow
<1>4. QED
  BY <1>1, <1>2, <1>3

LEMMA TypeStep == TypeInv /\ [Next]_vars => TypeInv'
<1> SUFFICES ASSUME TypeInv, [Next]_vars
             PROVE  TypeInv'
  OBVIOUS
<1>1. ASSUME NEW a \in Actors, CallStep(a) PROVE TypeInv'
  BY <1>1, CallStepType
<1>2. ASSUME NEW c \in Clients, ClientCall(c) \/ CancelStep(c) PROVE TypeInv'
  BY <1>2, ClientType
<1>3. ASSUME NEW q \in Queues, WorkerStep(q) PROVE TypeInv'
  BY <1>3, WorkerType
<1>3a. ASSUME NEW q \in Queues, SpuriousWake(q) PROVE TypeInv'
  <2>1. \E l \in {"service", "exit"} : Goto(q, l)
    BY <1>3a DEF SpuriousWake
  <2>2. QED
    BY <1>3a, <2>1, GotoType, ActorsFacts DEF SpuriousWake, TypeInv, TypeOK, Labels,
        InCallback, InCall, lists, clock, engine
<1>4. ASSUME NEW q \in Queues, NEW p \in Queues, NEW d \in 0 .. MaxDelay,
             CallbackReschedule(q, p, d)
      PROVE  TypeInv'
  <2>1. call[q].task \in Tasks /\ q \in Actors
    BY <1>4, ActorsFacts DEF CallbackReschedule, TypeInv, CallOK, InCallback
  <2>2. QED
    BY <1>4, <2>1, ScheduleCallType DEF CallbackReschedule
<1>5. CASE TimerExpire \/ svc_tasks_virtual_timer \/ Tick
  BY <1>5, TimeType
<1>6. CASE svc_tasks_stop
  <2>1. \A q \in Queues : Notify(q) \in BOOLEAN
    BY DEF Notify, TypeInv, TypeOK
  <2>2. /\ run' \in BOOLEAN /\ stops' \in Nat
        /\ timer' \in Int /\ fired' \in BOOLEAN
        /\ notified' \in [Queues -> BOOLEAN]
    <3>1. /\ run' = FALSE /\ stops' = stops + 1
          /\ \/ timer' = -1 /\ fired' = FALSE
             \/ timer' = timer /\ fired' = fired
          /\ notified' = [q \in Queues |-> Notify(q)]
      BY <1>6 DEF svc_tasks_stop
    <3>2. notified' \in [Queues -> BOOLEAN]
      BY <2>1, <3>1
    <3>3. stops' \in Nat /\ timer' \in Int
      BY <3>1 DEF TypeInv, TypeOK
    <3>4. run' \in BOOLEAN /\ fired' \in BOOLEAN
      BY <3>1 DEF TypeInv, TypeOK
    <3>5. QED
      BY <3>2, <3>3, <3>4
  <2>3. UNCHANGED <<mutex, list, list_count, ready, ready_count, status, event,
                    complete, pc, call, saved, asserted>>
    BY <1>6 DEF svc_tasks_stop, lists, flow
  <2>4. QED
    BY <2>2, <2>3 DEF TypeInv, TypeOK, CallOK
<1>7. CASE svc_tasks_start
  BY <1>7, ActorsFacts DEF svc_tasks_start, TypeInv, TypeOK, CallOK, Labels,
      InCallback, InCall, lists, clock
<1>8. CASE UNCHANGED vars
  BY <1>8 DEF vars, TypeInv, TypeOK, CallOK, lists, clock, engine, flow
<1>9. QED
  BY <1>1, <1>2, <1>3, <1>3a, <1>4, <1>5, <1>6, <1>7, <1>8 DEF Next

LEMMA TypeInit == Init => TypeInv
<1> SUFFICES ASSUME Init PROVE TypeInv
  OBVIOUS
<1>1. NoCall \in Call
  BY DEF NoCall, Call
<1>2. <<>> \in Seq(Entry) /\ <<>> \in Seq(Tasks)
  BY EmptySeq
<1>3. /\ pc \in [Actors -> Labels] /\ call \in [Actors -> Call]
      /\ saved \in [Queues -> Statuses] /\ status \in [Tasks -> Statuses]
  BY <1>1 DEF Init, Labels, Statuses
<1>4. CallOK
  BY ActorsFacts DEF Init, CallOK, InCallback, InCall
<1>5. ready \in [Queues -> Seq(Tasks)] /\ list \in Seq(Entry)
  BY <1>2 DEF Init
<1>6. /\ timer \in Int /\ stops \in Nat /\ list_count \in Int /\ ready_count \in Int
  BY DEF Init
<1>7. /\ mutex \in Actors \cup {NoTask} /\ fired \in BOOLEAN /\ run \in BOOLEAN
      /\ asserted \in BOOLEAN /\ event \in [Tasks -> BOOLEAN]
      /\ complete \in [Queues -> BOOLEAN] /\ notified \in [Queues -> BOOLEAN]
  BY DEF Init
<1>8. QED
  BY <1>3, <1>4, <1>5, <1>6, <1>7 DEF TypeInv, TypeOK

LEMMA TypeInvariant == Spec => []TypeInv
BY TypeInit, TypeStep, PTL DEF Spec

\* Every variable of svc_tasks.c keeps its type, in all runs of the engine.
THEOREM TypeCorrect == Spec => []TypeOK
BY TypeInvariant, PTL DEF TypeInv

-----------------------------------------------------------------------------
(* No lost wakeup.                                                         *)

\* A worker that is about to sleep, or sleeps, knows of the work in its queue;
\* and once _svc_tasks_run is cleared it stays cleared.
WakeInv ==
    /\ \A q \in Queues :
          pc[q] \in {"loop", "sleep", "wait"} /\ ready[q] # <<>> => notified[q]
    /\ ~ run => stops >= 1

LEMMA ToReadyWake ==
    ASSUME TypeInv, WakeInv, Sticky, NEW t \in Tasks, NEW p \in Queues,
           task_to_ready(t, p), UNCHANGED engine,
           \A q \in Queues : pc'[q] \in {"loop", "sleep", "wait"} => pc'[q] = pc[q]
    PROVE  WakeInv'
<1>1. ASSUME NEW q \in Queues, pc'[q] \in {"loop", "sleep", "wait"}, ready'[q] # <<>>
      PROVE  notified'[q]
  <2>1. CASE q = p
    BY <1>1, <2>1 DEF task_to_ready, Notify, TypeInv, TypeOK
  <2>2. CASE q # p
    BY <1>1, <2>2 DEF task_to_ready, TypeInv, TypeOK, WakeInv
  <2>3. QED
    BY <2>1, <2>2
<1>2. QED
  BY <1>1 DEF WakeInv, engine

LEMMA WakeCall ==
    ASSUME TypeInv, WakeInv, Sticky, NEW a \in Actors, CallStep(a)
    PROVE  WakeInv'
<1> USE ActorsFacts DEF TypeInv
<1>1. CASE svc_tasks_add(a)
  <2>1. call[a].task \in Tasks /\ call[a].queue \in Queues
    BY <1>1 DEF svc_tasks_add, CallOK
  <2>2. \A q \in Queues : pc'[q] \in {"loop", "sleep", "wait"} => pc'[q] = pc[q]
    BY <1>1 DEF svc_tasks_add, Return, Goto, TypeOK
  <2>3. QED
    BY <1>1, <2>1, <2>2, ToReadyWake DEF svc_tasks_add
<1>2. CASE TaskEventPop(a)
  <2>1. Head(list) \in Entry
    BY <1>2, HeadTailProperties DEF TaskEventPop, TypeOK
  <2>2. Head(list).task \in Tasks /\ Head(list).queue \in Queues
    BY <2>1 DEF Entry
  <2>3. QED
    BY <1>2, <2>2, ToReadyWake DEF TaskEventPop, flow
<1>3. ASSUME UNCHANGED <<ready, notified, engine>>,
             \A q \in Queues : pc'[q] \in {"loop", "sleep", "wait"} => pc'[q] = pc[q]
      PROVE  WakeInv'
  BY <1>3 DEF WakeInv, engine
<1>4. CASE ScheduleBusy(a)
  BY <1>3, <1>4 DEF ScheduleBusy, Return, Goto, TypeOK, lists
<1>5. CASE InsertTimed(a)
  <2>1. Goto(a, "arm") \/ Goto(a, "check")
    BY <1>5 DEF InsertTimed
  <2>2. UNCHANGED <<ready, notified, engine>>
    BY <1>5 DEF InsertTimed
  <2>3. QED
    BY <1>3, <2>1, <2>2 DEF Goto, TypeOK
<1>6. CASE ArmTimer(a)
  BY <1>3, <1>6 DEF ArmTimer, Return, Goto, TypeOK, lists
<1>7. CASE CheckTimer(a)
  BY <1>3, <1>7 DEF CheckTimer, Return, Goto, TypeOK, lists
<1>8. CASE TaskEventLock(a)
  BY <1>3, <1>8 DEF TaskEventLock, Goto, TypeOK, lists
<1>9. CASE TaskEventEnd(a)
  <2>1. \/ Goto(a, "unlink") \/ Return(a)
    BY <1>9 DEF TaskEventEnd
  <2>2. UNCHANGED <<ready, notified, engine>>
    BY <1>9 DEF TaskEventEnd, lists
  <2>3. QED
    BY <1>3, <2>1, <2>2 DEF Return, Goto, TypeOK
<1>10. QED
  BY <1>1, <1>2, <1>4, <1>5, <1>6, <1>7, <1>8, <1>9 DEF CallStep

LEMMA WakeWorker ==
    ASSUME TypeInv, WakeInv, NEW q \in Queues, WorkerStep(q)
    PROVE  WakeInv'
<1> USE ActorsFacts DEF TypeInv
<1>1. CASE WorkerLoop(q) \/ WorkerSleep(q)
  BY <1>1 DEF WorkerLoop, WorkerSleep, Goto, TypeOK, WakeInv, lists, engine
<1>2. CASE WorkerWake(q)
  BY <1>2 DEF WorkerWake, Goto, TypeOK, WakeInv, lists, engine
<1>3. CASE ServiceEmpty(q)
  BY <1>3 DEF ServiceEmpty, Goto, TypeOK, WakeInv, lists, engine
<1>4. CASE svc_tasks_service_task(q)
  <2>1. ready' = [ready EXCEPT ![q] = Tail(ready[q])]
    BY <1>4 DEF svc_tasks_service_task
  <2>2. pc' = [pc EXCEPT ![q] = "callback"]
    BY <1>4 DEF svc_tasks_service_task, Goto
  <2>3. UNCHANGED <<notified, run, stops>>
    BY <1>4 DEF svc_tasks_service_task, engine
  <2>4. QED
    BY <2>1, <2>2, <2>3 DEF TypeOK, WakeInv
<1>5. CASE svc_tasks_complete(q)
  BY <1>5 DEF svc_tasks_complete, Goto, TypeOK, WakeInv, lists, engine
<1>6. CASE CompleteStore(q)
  BY <1>6 DEF CompleteStore, Goto, AfterStore, TypeOK, WakeInv, lists, engine
<1>7. CASE CompleteSignal(q)
  BY <1>7 DEF CompleteSignal, Goto, TypeOK, WakeInv, lists, engine
<1>8. CASE CallbackDone(q)
  BY <1>8 DEF CallbackDone, Goto, TypeOK, WakeInv, lists, engine
<1>9. QED
  BY <1>1, <1>2, <1>3, <1>4, <1>5, <1>6, <1>7, <1>8 DEF WorkerStep

LEMMA WakeClient ==
    ASSUME TypeInv, WakeInv, NEW c \in Clients, ClientCall(c) \/ CancelStep(c)
    PROVE  WakeInv'
<1> USE ActorsFacts DEF TypeInv
<1>1. ASSUME UNCHANGED <<ready, notified, engine>>,
             \A q \in Queues : pc'[q] = pc[q]
      PROVE  WakeInv'
  BY <1>1 DEF WakeInv, engine
<1>2. ASSUME NEW t \in Tasks, NEW q \in Queues, NEW d \in 0 .. MaxDelay,
             ClientSchedule(c, t, q, d)
      PROVE  WakeInv'
  BY <1>1, <1>2 DEF ClientSchedule, ScheduleCall, Goto, TypeOK, lists
<1>3. ASSUME NEW t \in Tasks, CancelTimed(c, t)
      PROVE  WakeInv'
  <2>1. Goto(c, "event") \/ Goto(c, "canceled")
    BY <1>3 DEF CancelTimed
  <2>2. UNCHANGED <<ready, notified, engine>>
    BY <1>3 DEF CancelTimed
  <2>3. QED
    BY <1>1, <2>1, <2>2 DEF Goto, TypeOK
<1>4. ASSUME NEW t \in Tasks, CancelReady(c, t)
      PROVE  WakeInv'
  <2>1. PICK p \in Queues : \E i \in 1 .. Len(ready[p]) :
            ready' = [ready EXCEPT ![p] = RemoveAt(@, i)]
    BY <1>4 DEF CancelReady
  <2>2. PICK i \in 1 .. Len(ready[p]) :
            ready' = [ready EXCEPT ![p] = RemoveAt(ready[p], i)]
    BY <2>1
  <2>3. ready[p] \in Seq(Tasks) /\ (ready[p] = <<>> => Len(ready[p]) = 0)
    BY LenProperties DEF TypeOK
  <2>4. \A q \in Queues : ready'[q] # <<>> => ready[q] # <<>>
    BY <2>2, <2>3 DEF TypeOK
  <2>5. Goto(c, "canceledReady") /\ UNCHANGED <<notified, engine>>
    BY <1>4 DEF CancelReady
  <2>6. QED
    BY <2>4, <2>5 DEF Goto, TypeOK, WakeInv, engine
<1>5. ASSUME NEW t \in Tasks, CancelMissing(c, t)
      PROVE  WakeInv'
  BY <1>1, <1>5 DEF CancelMissing, lists, flow
<1>6. ASSUME NEW q \in Queues, svc_tasks_wait_queue(c, q)
      PROVE  WakeInv'
  BY <1>1, <1>6 DEF svc_tasks_wait_queue, lists, flow
<1>7. CASE CancelUnlink(c)
  BY <1>1, <1>7 DEF CancelUnlink, Goto, TypeOK, lists
<1>8. CASE CanceledTimed(c)
  BY <1>1, <1>8 DEF CanceledTimed, Return, Goto, TypeOK, lists
<1>9. CASE CanceledReady(c)
  BY <1>1, <1>9 DEF CanceledReady, Goto, TypeOK, lists
<1>10. QED
  BY <1>2, <1>3, <1>4, <1>5, <1>6, <1>7, <1>8, <1>9 DEF ClientCall, CancelQueued, CancelStep

LEMMA WakeStep ==
    ASSUME Sticky, MaxStarts = 0
    PROVE  TypeInv /\ WakeInv /\ [Next]_vars => WakeInv'
<1> SUFFICES ASSUME TypeInv, WakeInv, [Next]_vars
             PROVE  WakeInv'
  OBVIOUS
<1>1. ASSUME NEW q \in Queues, NEW p \in Queues, NEW d \in 0 .. MaxDelay,
             CallbackReschedule(q, p, d)
      PROVE  WakeInv'
  BY <1>1, ActorsFacts DEF CallbackReschedule, ScheduleCall, Goto, TypeInv, TypeOK,
      WakeInv, lists, engine
<1>1a. ASSUME NEW q \in Queues, SpuriousWake(q)
       PROVE  WakeInv'
  BY <1>1a, ActorsFacts DEF SpuriousWake, Goto, TypeInv, TypeOK, WakeInv, lists, engine
<1>2. CASE TimerExpire
  BY <1>2 DEF TimerExpire, WakeInv, lists, engine, flow
<1>3. CASE svc_tasks_virtual_timer
  BY <1>3, ActorsFacts DEF svc_tasks_virtual_timer, Goto, TypeInv, TypeOK, WakeInv,
      lists, engine
<1>4. CASE Tick
  BY <1>4 DEF Tick, WakeInv, engine, flow
<1>5. CASE svc_tasks_stop
  <2>1. \A q \in Queues : notified[q] => notified'[q]
    BY <1>5 DEF svc_tasks_stop, Notify
  <2>2. stops' >= 1 /\ UNCHANGED <<pc, ready>>
    BY <1>5 DEF svc_tasks_stop, lists, flow, TypeInv, TypeOK
  <2>3. QED
    BY <2>1, <2>2 DEF WakeInv
<1>6. CASE svc_tasks_start
  BY <1>6 DEF svc_tasks_start, WakeInv, TypeInv, TypeOK
<1>7. CASE UNCHANGED vars
  BY <1>7 DEF vars, WakeInv, lists, engine, flow
<1>8. QED
  BY <1>1, <1>1a, <1>2, <1>3, <1>4, <1>5, <1>6, <1>7, WakeCall, WakeWorker, WakeClient
    DEF Next

\* On the ports that keep the notification of a thread that does not wait yet,
\* no worker sleeps on a task in its queue, whatever the number of workers and
\* callers, until the engine is stopped and started again.
THEOREM NoWakeupLost ==
    ASSUME Sticky, MaxStarts = 0
    PROVE  Spec => []NoLostWakeup
<1>1. Init => WakeInv
  BY DEF Init, WakeInv
<1>2. TypeInv /\ WakeInv /\ [Next]_vars => WakeInv'
  BY WakeStep
<1>3. WakeInv => NoLostWakeup
  BY DEF WakeInv, NoLostWakeup
<1>4. QED
  BY <1>1, <1>2, <1>3, TypeInvariant, PTL DEF Spec
=============================================================================
