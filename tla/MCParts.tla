------------------------------- MODULE MCParts -------------------------------
(***************************************************************************)
(* The models of the os interface and of the services above it beside each *)
(* other: the initial state chooses one of them, and a port for those that *)
(* depend on it, and then only that one moves.                             *)
(***************************************************************************)
EXTENDS OsThreads, OsMlock, OsSync, OsEvents, OsTimers,
        SvcEvents, SvcMessage, SvcLogger, SvcWdt, Dictionary

CONSTANT Parts      \* the models that this run explores

VARIABLE part

threads  == <<mem, run, handle, join_sem, owner, outcome, note, asleep, got, owed>>
mlocks   == <<kprio, tls_used, tls_index, tls, lock, at, on, holds>>
syncs    == <<kind, held, ref, made, count, given, taken, waiting, remaking, pending>>
events   == <<flags, unseen, call, sleeping, ret>>
timers   == <<head, next, expire, is_set, in_processing, exists, serving, use, armed>>
notices  == <<ev_signals, ev_stop, ev_stack, ev_thread, ev_set, ev_walk, ev_halting,
              ev_owed, ev_fresh, ev_cause>>
messages == <<msg_filter, msg_channels, msg_sending, msg_task, msg_at, msg_of, msg_editing,
              msg_loaded>>

osParts  == <<threads, mlocks, syncs, events, timers>>
svcParts == <<notices, messages, loggerVars, wdtVars, dictVars>>
vars     == <<part, port, osParts, svcParts>>


Init ==
    /\ part \in Parts
    /\ ThreadInit /\ MlockInit /\ SyncInit /\ EventInit /\ TimerInit
    /\ svc_events_init /\ svc_message_init /\ svc_logger_init /\ svc_wdt_init
    /\ dictionary_init
    /\ kind = "mutex" \/ part = "sync"
    /\ part = "messages" => port \in {"posix", "freertos"}
    /\ part \in {"logger", "wdt", "dictionary"} => port = "posix"
    /\ part # "logger" => log_mem = (CHOOSE f \in MemFilters : TRUE) /\ log_mem_on
    /\ part # "wdt" => wdt_interval = (CHOOSE i \in Intervals : TRUE)

OsUnmoved  == UNCHANGED <<part, osParts>>
SvcUnmoved == UNCHANGED <<part, svcParts>>

ThreadStep  == part = "threads" /\ ThreadNext /\ SvcUnmoved /\ UNCHANGED <<mlocks, syncs, events, timers>>
MlockStep   == part = "mlock"   /\ MlockNext  /\ SvcUnmoved /\ UNCHANGED <<threads, syncs, events, timers>>
SyncStep    == part = "sync"    /\ SyncNext   /\ SvcUnmoved /\ UNCHANGED <<threads, mlocks, events, timers>>
EventStep   == part = "events"  /\ EventNext  /\ SvcUnmoved /\ UNCHANGED <<threads, mlocks, syncs, timers>>
TimerStep   == part = "timers"  /\ TimerNext  /\ SvcUnmoved /\ UNCHANGED <<threads, mlocks, syncs, events>>
NoticeStep  == part = "notices" /\ SvcEventNext /\ OsUnmoved /\ UNCHANGED <<messages, loggerVars, wdtVars, dictVars>>
MessageStep == part = "messages" /\ MessageNext /\ OsUnmoved /\ UNCHANGED <<notices, loggerVars, wdtVars, dictVars>>
LoggerStep  == part = "logger"  /\ LoggerNext /\ OsUnmoved /\ UNCHANGED <<port, notices, messages, wdtVars, dictVars>>
WdtStep     == part = "wdt"     /\ WdtNext    /\ OsUnmoved /\ UNCHANGED <<port, notices, messages, loggerVars, dictVars>>
DictStep    == part = "dictionary" /\ DictNext /\ OsUnmoved /\ UNCHANGED <<port, notices, messages, loggerVars, wdtVars>>

Next == \/ ThreadStep \/ MlockStep \/ SyncStep \/ EventStep \/ TimerStep
        \/ NoticeStep \/ MessageStep \/ LoggerStep \/ WdtStep \/ DictStep

Spec == Init /\ [][Next]_vars

----------------------------------------------------------------------------
\* Priorities of os.h: two threads at levels 3 and 10, two locks at 9 and 14.
MCPrio == [x \in Lockers \cup Locks |->
             CASE x = "l1" -> 24 [] x = "l2" -> 80 [] x = "m1" -> 72 [] x = "m2" -> 112]

\* The default number of cooperative priorities of Zephyr is 16.
MCKHi == -16

\* The waits of svc_tasks (one flag, cleared; no flag cleared) and svc_events
\* (all flags, the number 1), and one for all of the flags.
MCCalls == {[mask |-> {1}, clear |-> {1}, all |-> FALSE],
            [mask |-> {0}, clear |-> {}, all |-> FALSE],
            [mask |-> {0, 1}, clear |-> {0}, all |-> FALSE],
            [mask |-> {0, 1}, clear |-> {0}, all |-> TRUE]}

MCEventOf == [h \in Handlers |-> IF h = "h0" THEN 0 ELSE 1]

MCModulesOf == [c \in MsgChannels |-> {1}]

Filter(mask, sev, prog) == [mask |-> mask, sev |-> sev, prog |-> prog]
MCFiltersOf == [c \in LogChannels |->
                  IF c = "k1" THEN {Filter({0, 1}, 4, TRUE), Filter({}, 7, TRUE)}
                              ELSE {Filter({1}, 5, FALSE), Filter({1}, 2, TRUE)}]
MCMemFilters == {Filter({0, 1}, 2, FALSE), Filter({0, 1}, 5, FALSE)}

LogCall(how, sev, fac, prog) == [kind |-> how, sev |-> sev, fac |-> fac, prog |-> prog]
MCLogCalls == {LogCall("vlog", 4, 0, FALSE), LogCall("vlog", 5, 1, FALSE),
               LogCall("vlog", 2, 1, TRUE), LogCall("put", 4, 0, TRUE),
               LogCall("state", 3, 0, FALSE), LogCall("mem", 2, 0, FALSE)}

MCHashSize == [d \in Dicts |-> IF d = "da" THEN 2 ELSE 1]

\* Two of the three keys compare equal.
MCRank == [k \in Keys |-> k \div 2]
=============================================================================
