------------------------------- MODULE SvcWdt --------------------------------
(***************************************************************************)
(* The watchdog (src/svc/svc_wdt.c): threads register a handler in a group *)
(* of 10, 30 or 60 seconds, activate it when they work, kick it, and       *)
(* deactivate it.  A task looks at the handlers twice per interval of the  *)
(* platform's watchdog and kicks that if no handler has been quiet for too *)
(* long.  The unit of time is half an interval.                            *)
(***************************************************************************)
EXTENDS Integers, FiniteSets

CONSTANTS
    WdtHandlers,
    Intervals,      \* what qoraal_wdt_kick may return: 1 .. 30, in seconds
    AgeMax          \* bound on the age of a handler: it counts no further

Groups == {10, 30, 60}

VARIABLES
    wdt_interval,   \* _svc_wdt_interval
    wdt_counter,    \* _svc_wdt_counter
    wdt_listed,     \* the handlers in _svc_wdt_handler_stack
    wdt_group,      \* the group each was registered in
    wdt_flags,
    wdt_kick,       \* kick10, kick30 and kick60
    wdt_queued,     \* the task is scheduled
    wdt_running,    \* the callback has left the mutex
    wdt_age,        \* history: callbacks since a handler was kicked
    wdt_hurried     \* history: its group was looked at out of turn since then

wdtVars == <<wdt_interval, wdt_counter, wdt_listed, wdt_group, wdt_flags, wdt_kick,
             wdt_queued, wdt_running, wdt_age, wdt_hurried>>
wdtHandler == <<wdt_listed, wdt_group, wdt_flags, wdt_age, wdt_hurried>>
wdtTask == <<wdt_interval, wdt_counter, wdt_kick, wdt_queued, wdt_running>>

svc_wdt_init ==
    /\ wdt_interval \in Intervals
    /\ wdt_counter = 0 /\ wdt_listed = {} /\ wdt_group = [h \in WdtHandlers |-> 10]
    /\ wdt_flags = [h \in WdtHandlers |-> {}]
    /\ wdt_kick = [g \in Groups |-> TRUE]
    /\ wdt_queued = FALSE /\ wdt_running = FALSE
    /\ wdt_age = [h \in WdtHandlers |-> 0] /\ wdt_hurried = [h \in WdtHandlers |-> FALSE]

----------------------------------------------------------------------------
(* The threads; each step is under the mutex.                              *)

\* An object that is not registered: its flags are cleared before the mutex.
svc_wdt_register(h, id) ==
    /\ h \notin wdt_listed
    /\ wdt_listed' = wdt_listed \cup {h} /\ wdt_group' = [wdt_group EXCEPT ![h] = id]
    /\ wdt_flags' = [wdt_flags EXCEPT ![h] = {}]
    /\ UNCHANGED <<wdtTask, wdt_age, wdt_hurried>>

Fresh(h) ==
    /\ wdt_age' = [wdt_age EXCEPT ![h] = 0]
    /\ wdt_hurried' = [wdt_hurried EXCEPT ![h] = FALSE]

svc_wdt_unregister(h) ==
    /\ h \in wdt_listed
    /\ wdt_listed' = wdt_listed \ {h} /\ Fresh(h)
    /\ UNCHANGED <<wdtTask, wdt_group, wdt_flags>>

Kicked(h, flags) ==
    /\ h \in wdt_listed
    /\ wdt_flags' = [wdt_flags EXCEPT ![h] = flags] /\ Fresh(h)
    /\ UNCHANGED <<wdtTask, wdt_listed, wdt_group>>

svc_wdt_activate(h) == Kicked(h, {"active", "kicked"})
svc_wdt_deactivate(h) == Kicked(h, {})
svc_wdt_handler_kick(h) == Kicked(h, (wdt_flags[h] \ {"reported", "flagged"}) \cup {"kicked"})

----------------------------------------------------------------------------
(* The task.                                                               *)

\* A cancel does not stop a callback that runs.
svc_wdt_start ==
    /\ wdt_queued' = TRUE
    /\ UNCHANGED <<wdt_interval, wdt_counter, wdt_kick, wdt_running, wdtHandler>>

svc_wdt_stop ==
    /\ wdt_queued' = FALSE
    /\ UNCHANGED <<wdt_interval, wdt_counter, wdt_kick, wdt_running, wdtHandler>>

Members(g) == {h \in wdt_listed : wdt_group[h] = g}

\* Mutant: a handler withholds the kick as soon as it is flagged.
BlocksAtOnce(h) == "active" \in wdt_flags[h] /\ "kicked" \notin wdt_flags[h]

Blocks(h) == "active" \in wdt_flags[h] /\ "kicked" \notin wdt_flags[h] /\ "flagged" \in wdt_flags[h]

\* Mutant: the kick of a handler is kept for the next time.
KeepsKick(h) ==
    IF "active" \notin wdt_flags[h] \/ "kicked" \in wdt_flags[h] THEN wdt_flags[h]
    ELSE wdt_flags[h] \cup IF Blocks(h) THEN {"reported"} ELSE {"flagged"}

\* What svc_wdt_process makes of the flags of a handler.
Processed(h) ==
    IF "active" \notin wdt_flags[h] THEN wdt_flags[h]
    ELSE IF "kicked" \in wdt_flags[h] THEN wdt_flags[h] \ {"kicked", "flagged", "reported"}
    ELSE wdt_flags[h] \cup IF Blocks(h) THEN {"reported"} ELSE {"flagged"}

\* How many callbacks it is from one look at a group to the next.  The counter
\* is kept modulo a common multiple; it wraps at 2^32 in the code.
Period(g) == IF g = 10 THEN 1 ELSE g \div wdt_interval
Cycle == Period(30) * Period(60)

svc_wdt_task_cb ==
    LET counter == (wdt_counter + 1) % Cycle
        inTurn(g) == counter % Period(g) = 0
        looksAt(g) == ~wdt_kick[g] \/ inTurn(g)
        seen == {h \in wdt_listed : looksAt(wdt_group[h])}
    IN  /\ wdt_queued /\ ~wdt_running
        /\ wdt_queued' = FALSE /\ wdt_running' = TRUE
        /\ wdt_counter' = counter
        /\ wdt_flags' = [h \in WdtHandlers |-> IF h \in seen THEN Processed(h) ELSE wdt_flags[h]]
        /\ wdt_kick' = [g \in Groups |-> IF looksAt(g) THEN \A h \in Members(g) : ~Blocks(h)
                                         ELSE wdt_kick[g]]
        /\ wdt_age' = [h \in WdtHandlers |->
                          IF "active" \in wdt_flags[h] /\ h \in wdt_listed /\ wdt_age[h] < AgeMax
                          THEN wdt_age[h] + 1 ELSE wdt_age[h]]
        /\ wdt_hurried' = [h \in WdtHandlers |-> wdt_hurried[h]
                                                 \/ (h \in seen /\ ~inTurn(wdt_group[h]))]
        /\ UNCHANGED <<wdt_interval, wdt_listed, wdt_group>>

\* The task is scheduled again, unless a start has done so, then completed.
WdtReschedules ==
    /\ wdt_running
    /\ wdt_running' = FALSE /\ wdt_queued' = TRUE
    /\ UNCHANGED <<wdt_interval, wdt_counter, wdt_kick, wdtHandler>>

WdtNext ==
    \/ svc_wdt_start \/ svc_wdt_stop \/ svc_wdt_task_cb \/ WdtReschedules
    \/ \E h \in WdtHandlers :
          \/ \E id \in Groups : svc_wdt_register(h, id)
          \/ svc_wdt_unregister(h)
          \/ svc_wdt_activate(h) \/ svc_wdt_deactivate(h) \/ svc_wdt_handler_kick(h)

WdtSpec == svc_wdt_init /\ [][WdtNext]_wdtVars

Looked == ~wdt_running /\ wdt_running'
PlatformKicked == \A g \in Groups : wdt_kick'[g]

\* The platform's watchdog is left alone only if a registered, active handler
\* has been quiet for more than two periods of its group, whatever the others
\* did.  While a group withholds the kick it is looked at in every callback,
\* and then three callbacks are enough for the others in it: see the README.
NoFalseReset ==
    [][Looked /\ ~PlatformKicked =>
         \E h \in wdt_listed :
            /\ "active" \in wdt_flags[h]
            /\ wdt_age'[h] > 2 * (IF wdt_hurried'[h] THEN 1 ELSE Period(wdt_group[h]))]_wdtVars

\* A registered handler that is active and quiet is found out: after three
\* periods of its group the platform's watchdog is not kicked.
StuckDetected ==
    [][Looked /\ PlatformKicked =>
         \A h \in wdt_listed : "active" \in wdt_flags[h]
                               => wdt_age'[h] < 3 * Period(wdt_group[h])]_wdtVars
=============================================================================
