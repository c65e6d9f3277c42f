----------------------------- MODULE SvcServices -----------------------------
(***************************************************************************)
(* The services of src/svc/svc_services.c and the threads they run in.     *)
(* Clients start and stop services, waiting for the completion callback or *)
(* not; the main function of a service runs in a thread of SvcThreads,     *)
(* whose idle thread reports its end.  A critical section of               *)
(* _svc_service_mutex is one action, except in a start, which creates the  *)
(* thread with the mutex held.  ctrl is assumed to be there, and not to    *)
(* report a status of its own.                                             *)
(***************************************************************************)
EXTENDS SvcThreads, FiniteSets

CONSTANTS
    Services,   \* the service list
    Threaded,   \* the services with a run function
    Clients,    \* the threads that call the API
    MayFail,    \* a service's ctrl, or the creation of a thread, may fail
    TimesOut    \* the wait of svc_service_*_timeout may time out

ASSUME ServicesAssumption ==
    /\ Threaded = Objects /\ Threaded \subseteq Services
    /\ Clients \cap (Services \cup {Idle, NoOne}) = {}
    /\ NoOne \notin Services /\ Idle \notin Services
    /\ MayFail \in BOOLEAN /\ TimesOut \in BOOLEAN

VARIABLES
    mutex,      \* owner of _svc_service_mutex
    status,     \* SVC_SERVICE_T.status
    cb,         \* the client whose semaphore cb and cb_parm signal, or NoOne
    asked,      \* ctrl (SVC_SERVICE_CTRL_STOP) came since the last CTRL_START
    reported,   \* the last status that _service_changed told the handlers
    pc,         \* where each thread is
    call,       \* what a client has called
    signals     \* the count of the semaphore on a client's stack

servicesVars == <<mutex, status, cb, asked, reported>>
clientVars == <<call, signals>>
vars == <<threadsVars, servicesVars, pc, clientVars>>


Statuses == {"DISABLED", "STOPPED", "STOPPING", "STARTING", "STARTED"}
Call == [service : Services, op : {"start", "stop"}, waits : BOOLEAN]

Init ==
    /\ ThreadsInit
    /\ mutex = NoOne
    /\ status \in [Services -> {"DISABLED", "STOPPED"}]
    /\ cb = [s \in Services |-> NoOne]
    /\ asked = [s \in Services |-> FALSE]
    /\ reported = status
    /\ pc = [a \in Services \cup Clients \cup {Idle} |->
                IF a \in Clients THEN "idle" ELSE "none"]
    /\ call = [c \in Clients |-> NoOne]
    /\ signals = [c \in Clients |-> 0]

-----------------------------------------------------------------------------
(* The calls of clients.                                                   *)

Goto(a, label) == pc' = [pc EXCEPT ![a] = label]

\* The call returns with an error, or has nothing to wait for.
Return(c) == Goto(c, "idle") /\ call' = [call EXCEPT ![c] = NoOne]

\* The call was accepted: svc_service_*_timeout waits for its semaphore.
Accepted(c) ==
    IF call[c].waits THEN Goto(c, "wait") /\ UNCHANGED call ELSE Return(c)

\* restart_cb for client c.  Its semaphore is on the stack of a call.  When that
\* has returned nobody gets the signal, or the client's next call does, with its
\* semaphore in the same place.
Signal(c) ==
    IF c # NoOne /\ call[c] # NoOne /\ call[c].waits
    THEN signals' = [signals EXCEPT ![c] = @ + 1]
    ELSE UNCHANGED signals

\* The client to call back for the call of c: none for a null cb.
Callback(c) == IF call[c].waits THEN c ELSE NoOne

SetStatus(s, v) == status' = [status EXCEPT ![s] = v]
SetCb(s, v) == cb' = [cb EXCEPT ![s] = v]
SetAsked(s, v) == asked' = [asked EXCEPT ![s] = v]
_service_changed(s, v) == reported' = [reported EXCEPT ![s] = v]

\* svc_service_start, svc_service_stop, and with a timeout: these look at the
\* status before they take the mutex.
Begin(c, s, op, waits) ==
    /\ pc[c] = "idle"
    /\ waits => (op = "start" <=> status[s] = "STOPPED")
    /\ Goto(c, "begin")
    /\ call' = [call EXCEPT ![c] = [service |-> s, op |-> op, waits |-> waits]]
    /\ signals' = [signals EXCEPT ![c] = 0]
    /\ UNCHANGED <<threadsVars, servicesVars>>

\* Client c is in svc_service_start (_stop) for s, with the mutex just taken.
InCall(c, s, op) ==
    /\ pc[c] = "begin" /\ mutex = NoOne
    /\ call[c].op = op /\ call[c].service = s

StartRefused(c, s) ==
    /\ InCall(c, s, "start")
    /\ status[s] \in {"DISABLED", "STARTING", "STOPPING"}
    /\ Return(c)
    /\ UNCHANGED <<threadsVars, servicesVars, signals>>
StartRunning(c, s) ==
    /\ InCall(c, s, "start") /\ status[s] = "STARTED"
    /\ SetCb(s, NoOne) /\ Signal(c) /\ Accepted(c)
    /\ UNCHANGED <<threadsVars, mutex, status, asked, reported>>

\* The thread of the last run is still there, or ctrl fails.
Active(s) == s \in Threaded /\ active[s]
StartFails(c, s) ==
    /\ InCall(c, s, "start") /\ status[s] = "STOPPED" /\ (Active(s) \/ MayFail)
    /\ SetCb(s, NoOne) /\ Return(c)
    /\ IF Active(s) THEN UNCHANGED reported ELSE _service_changed(s, "STOPPED")
    /\ UNCHANGED <<threadsVars, mutex, status, asked, signals>>
StartPlain(c, s) ==
    /\ InCall(c, s, "start") /\ status[s] = "STOPPED" /\ s \notin Threaded
    /\ SetCb(s, NoOne) /\ SetStatus(s, "STARTED") /\ SetAsked(s, FALSE)
    /\ Signal(c) /\ _service_changed(s, "STARTED") /\ Accepted(c)
    /\ UNCHANGED <<threadsVars, mutex>>
StartThread(c, s) ==
    /\ InCall(c, s, "start") /\ status[s] = "STOPPED"
    /\ s \in Threaded /\ ~ Active(s)
    /\ SetCb(s, Callback(c)) /\ SetAsked(s, FALSE)
    /\ _service_changed(s, "STARTING")
    /\ mutex' = c /\ Goto(c, "create")
    /\ UNCHANGED <<threadsVars, status, clientVars>>

\* svc_threads_create, with both mutexes.
CreateThread(c, s) ==
    /\ pc[c] = "create" /\ call[c].service = s
    /\ svc_threads_create(s, TRUE)
    /\ SetStatus(s, "STARTING") /\ mutex' = NoOne
    /\ pc' = [pc EXCEPT ![s] = "enter", ![c] = IF call[c].waits THEN "wait" ELSE "idle"]
    /\ call' = [call EXCEPT ![c] = IF call[c].waits THEN @ ELSE NoOne]
    /\ UNCHANGED <<cb, asked, reported, signals>>
CreateFails(c, s) ==
    /\ pc[c] = "create" /\ call[c].service = s /\ MayFail
    /\ svc_threads_create(s, FALSE)
    /\ SetStatus(s, "STOPPED") /\ mutex' = NoOne
    /\ _service_changed(s, "STOPPED") /\ Return(c)
    /\ UNCHANGED <<cb, asked, signals>>

StopStopped(c, s) ==
    /\ InCall(c, s, "stop") /\ status[s] = "STOPPED"
    /\ SetCb(s, NoOne) /\ Signal(c) /\ Accepted(c)
    /\ UNCHANGED <<threadsVars, mutex, status, asked, reported>>

\* An error although ctrl is called, with the callback registered.
StopRefused(c, s) ==
    /\ InCall(c, s, "stop") /\ status[s] \in {"DISABLED", "STOPPING"}
    /\ SetCb(s, Callback(c)) /\ SetAsked(s, TRUE)
    /\ _service_changed(s, "STOPPED") /\ Return(c)
    /\ UNCHANGED <<threadsVars, mutex, status, signals>>
StopPlain(c, s) ==
    /\ InCall(c, s, "stop") /\ status[s] = "STARTED" /\ s \notin Threaded
    /\ SetCb(s, NoOne) /\ SetStatus(s, "STOPPED") /\ SetAsked(s, TRUE)
    /\ Signal(c) /\ _service_changed(s, "STOPPED")
    /\ Accepted(c) \/ (MayFail /\ Return(c))
    /\ UNCHANGED <<threadsVars, mutex>>
StopThread(c, s) ==
    /\ InCall(c, s, "stop") /\ status[s] \in {"STARTING", "STARTED"}
    /\ s \in Threaded
    /\ SetCb(s, Callback(c)) /\ SetStatus(s, "STOPPING") /\ SetAsked(s, TRUE)
    /\ _service_changed(s, "STOPPING") /\ Accepted(c)
    /\ UNCHANGED <<threadsVars, mutex, signals>>
StopFails(c, s) ==
    /\ InCall(c, s, "stop") /\ status[s] \in {"STARTING", "STARTED"}
    /\ s \in Threaded /\ MayFail
    /\ SetCb(s, Callback(c)) /\ SetStatus(s, "STARTED")
    /\ _service_changed(s, "STARTED") /\ Return(c)
    /\ UNCHANGED <<threadsVars, mutex, asked, signals>>

\* Mutant: the wait is repeated until the callback was called.
WaitedRetry(c) ==
    /\ pc[c] = "wait" /\ mutex = NoOne
    /\ IF signals[c] = 0 THEN UNCHANGED vars ELSE
          /\ SetCb(call[c].service, NoOne) /\ Return(c)
          /\ UNCHANGED <<threadsVars, mutex, status, asked, reported, signals>>

\* The end of svc_service_*_timeout: cb is cleared, whose ever it is.
Waited(c) ==
    /\ pc[c] = "wait" /\ (signals[c] > 0 \/ TimesOut) /\ mutex = NoOne
    /\ SetCb(call[c].service, NoOne) /\ Return(c)
    /\ UNCHANGED <<threadsVars, mutex, status, asked, reported, signals>>

ClientStep(c) ==
    \/ \E s \in Services :
        \/ StartRefused(c, s) \/ StartRunning(c, s) \/ StartFails(c, s)
        \/ StartPlain(c, s) \/ StartThread(c, s)
        \/ CreateThread(c, s) \/ CreateFails(c, s)
        \/ StopStopped(c, s) \/ StopRefused(c, s) \/ StopPlain(c, s)
        \/ StopThread(c, s) \/ StopFails(c, s)
    \/ Waited(c)

-----------------------------------------------------------------------------
(* _service_thread, and _service_thread_complete in the idle thread.       *)

\* Mutant: cb is called but not cleared.
EnteredTwice(s) ==
    /\ pc[s] = "enter" /\ mutex = NoOne
    /\ SetStatus(s, "STARTED") /\ Signal(cb[s])
    /\ Goto(s, "report")
    /\ UNCHANGED <<threadsVars, mutex, cb, asked, reported, call>>

\* Mutant: the thread forgets to unlock the mutex.
EnteredLocked(s) ==
    /\ pc[s] = "enter" /\ mutex = NoOne /\ mutex' = s
    /\ SetStatus(s, "STARTED") /\ Signal(cb[s]) /\ SetCb(s, NoOne)
    /\ Goto(s, "report")
    /\ UNCHANGED <<threadsVars, asked, reported, call>>

Entered(s) ==
    /\ pc[s] = "enter" /\ mutex = NoOne
    /\ SetStatus(s, "STARTED") /\ Signal(cb[s]) /\ SetCb(s, NoOne)
    /\ Goto(s, "report")
    /\ UNCHANGED <<threadsVars, mutex, asked, reported, call>>
ReportStarted(s) ==
    /\ pc[s] = "report" /\ mutex = NoOne
    /\ _service_changed(s, "STARTED") /\ Goto(s, "run")
    /\ UNCHANGED <<threadsVars, mutex, status, cb, asked, clientVars>>
RunReturns(s) ==
    /\ pc[s] = "run" /\ Goto(s, "over")
    /\ UNCHANGED <<threadsVars, servicesVars, clientVars>>
\* Mutant: the thread reports its own end.
TerminateStopped(s) ==
    /\ pc[s] = "over" /\ svc_threads_terminate(s) /\ Goto(s, "none")
    /\ SetStatus(s, "STOPPED")
    /\ UNCHANGED <<mutex, cb, asked, reported, clientVars>>

Terminate(s) ==
    /\ pc[s] = "over" /\ svc_threads_terminate(s) /\ Goto(s, "none")
    /\ UNCHANGED <<servicesVars, clientVars>>
Exit(s) == ThreadExit(s) /\ UNCHANGED <<servicesVars, pc, clientVars>>

ThreadStep(s) == Entered(s) \/ ReportStarted(s) \/ Terminate(s) \/ Exit(s)

Reap == IdleStep /\ UNCHANGED <<servicesVars, pc, clientVars>>
Completed ==
    /\ idle = "call" /\ pc[Idle] = "none" /\ mutex = NoOne
    /\ SetStatus(reaped, "STOPPED") /\ Signal(cb[reaped]) /\ SetCb(reaped, NoOne)
    /\ Goto(Idle, "report")
    /\ UNCHANGED <<threadsVars, mutex, asked, reported, call>>
ReportStopped ==
    /\ pc[Idle] = "report" /\ mutex = NoOne
    /\ _service_changed(reaped, "STOPPED") /\ Goto(Idle, "none")
    /\ CheckCalled
    /\ UNCHANGED <<mutex, status, cb, asked, clientVars>>

ReaperStep == Reap \/ Completed \/ ReportStopped

Next ==
    \/ \E c \in Clients, s \in Services, op \in {"start", "stop"}, waits \in BOOLEAN :
           Begin(c, s, op, waits)
    \/ \E c \in Clients : ClientStep(c)
    \/ \E s \in Threaded : ThreadStep(s) \/ RunReturns(s)
    \/ ReaperStep

Spec == Init /\ [][Next]_vars

\* The mutexes queue their waiters, a service whose ctrl was told to stop returns
\* from its run function, and a wait with a timeout ends.
FairSpec ==
    /\ Spec
    /\ \A c \in Clients : SF_vars(ClientStep(c))
    /\ \A s \in Threaded : SF_vars(ThreadStep(s)) /\ WF_vars(asked[s] /\ RunReturns(s))
    /\ SF_vars(ReaperStep)

-----------------------------------------------------------------------------
Members(q) == {q[i] : i \in 1 .. Len(q)}

TypeOK ==
    /\ threads_mutex \in {NoOne, Idle}
    /\ active \in [Objects -> BOOLEAN]
    /\ thread \in [Objects -> {"none", "running", "exiting", "ended"}]
    /\ list \subseteq Objects /\ complete \in Seq(Objects)
    /\ sem \in Nat
    /\ idle \in {"wait", "check", "join", "call"}
    /\ reaped \in Objects \cup {NoOne}
    /\ mutex \in Clients \cup {NoOne}
    /\ status \in [Services -> Statuses]
    /\ cb \in [Services -> Clients \cup {NoOne}]
    /\ asked \in [Services -> BOOLEAN]
    /\ reported \in [Services -> Statuses]
    /\ pc \in [Services \cup Clients \cup {Idle} ->
                   {"idle", "begin", "create", "wait",
                    "none", "enter", "report", "run", "over"}]
    /\ call \in [Clients -> Call \cup {NoOne}]
    /\ signals \in [Clients -> Nat]

\* A service that is STOPPED has no thread any more, and its thread object is
\* in no list: the next start may use the object and its stack.
Gone(s) ==
    /\ thread[s] = "none" /\ ~ active[s] /\ pc[s] = "none"
    /\ s \notin list /\ s \notin Members(complete)
StoppedIsGone ==
    \A s \in Threaded : status[s] \in {"STOPPED", "DISABLED"} => Gone(s)

\* A thread object is in one list at most, and in the one that its thread's
\* state calls for; the idle thread is only told of threads that have left.
Registered ==
    \A s \in Threaded :
        /\ thread[s] = "running" <=> s \in list
        /\ s \in list => s \notin Members(complete)
        /\ thread[s] \in {"exiting", "ended"} <=>
               s \in Members(complete) \/ (idle = "join" /\ reaped = s)
        /\ Cardinality({i \in 1 .. Len(complete) : complete[i] = s}) <= 1

\* When a service calls the callback that a start registered, it is STARTED:
\* the end of an earlier run, or a stop, never passes for the start.
Answers(s, c, op) ==
    /\ call[c] # NoOne /\ call[c].service = s /\ call[c].op = op
    /\ cb[s] = c /\ cb'[s] = NoOne /\ signals'[c] > signals[c]
StartAnswered ==
    [][\A s \in Threaded, c \in Clients :
           Answers(s, c, "start") => status'[s] = "STARTED"]_vars

\* What svc_service_stop is documented to do ("Stops a specific service"): when a
\* service calls the callback that a stop registered, it is STOPPED.
StopAnswered ==
    [][\A s \in Threaded, c \in Clients :
           Answers(s, c, "stop") => status'[s] = "STOPPED"]_vars

\* What svc_service_register_handler is documented to do ("callback whenever any
\* serve changes status"): when nobody is about to tell the handlers more, the
\* last they were told of a service is its status.
Quiet(s) ==
    /\ s \in Threaded => pc[s] # "report"
    /\ ~ (pc[Idle] = "report" /\ reaped = s)
HandlersTold ==
    \A s \in Services :
        status[s] \in {"STARTED", "STOPPED"} /\ Quiet(s) /\ mutex = NoOne =>
            reported[s] = status[s]

\* A service that was told to stop is STOPPED in the end, whatever it was doing.
StopEnds ==
    \A s \in Threaded : asked[s] /\ pc[s] # "none" ~> status[s] = "STOPPED"

\* Every call returns: the two mutexes and the join never wait for each other.
CallsReturn == \A c \in Clients : pc[c] # "idle" ~> pc[c] = "idle"
=============================================================================
