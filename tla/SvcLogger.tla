------------------------------ MODULE SvcLogger ------------------------------
(***************************************************************************)
(* The logger (src/svc/svc_logger.c): a call makes a task out of a log     *)
(* message, writes it to the memory log and schedules it; the task's       *)
(* callback shows it to the channels whose filters take it.  One filter,   *)
(* worked out from all channels and read without the mutex, turns away     *)
(* early what no channel wants.                                            *)
(***************************************************************************)
EXTENDS Integers, FiniteSets, Sequences, FiniteSetsExt

CONSTANTS
    Loggers,        \* threads that log
    LogTasks,       \* the heap: log tasks that can exist at once
    LogChannels,
    FiltersOf,      \* the filters [mask, sev, prog] of each channel
    MemFilters,     \* what svc_logger_set_mem_filter is given
    LogCalls,       \* [kind, sev, fac, prog]: the calls; fac 0 is none
    LOG_MAX         \* SVC_LOGGER_MAX_QUEUE_SIZE

VARIABLES
    log_filter,     \* _logger_filter
    log_mem,        \* _logger_filter_mem
    log_mem_on,     \* mlog_started ()
    log_channels,   \* _logger_channels
    log_editing,    \* what the change of a channel has still to do
    log_sending,    \* _logger_debug_sending
    log_task,       \* each task: its state, call and due
    log_todo,       \* each logger: the steps its call has still to take
    log_of,         \* its call, its task once made, and due
    log_missed      \* history: calls that did not reach what they were due to

(* due: the channels that take the message and were registered when it was *)
(* logged and ever since, and "memory" likewise.                           *)

loggerVars == <<log_filter, log_mem, log_mem_on, log_channels, log_editing, log_sending,
                log_task, log_todo, log_of, log_missed>>
logFilters == <<log_filter, log_mem, log_mem_on, log_channels, log_editing>>

NEVER == 0
WARNING == 3
REPORT == 4

\* What svc_logger_put, svc_logger_vlog_state and the others go through.
Path == [vlog  |-> <<"would", "room", "make", "send", "count">>,
         mem   |-> <<"room", "would", "make", "send", "count">>,
         state |-> <<"would", "make", "send", "count">>,
         put   |-> <<"make", "send", "count">>]

NoCall == [call |-> [kind |-> "none", sev |-> NEVER, fac |-> 0, prog |-> FALSE],
           task |-> "none", due |-> {}]
NoTask == [state |-> "free", call |-> NoCall.call, due |-> {}]

\* The linker may have set memory aside for the log, or not.
svc_logger_init ==
    /\ log_filter = [sev |-> NEVER, mask |-> {0, 1}]
    /\ log_mem \in MemFilters /\ log_mem_on \in BOOLEAN
    /\ log_channels = {} /\ log_editing = [todo |-> <<>>, channel |-> "none"]
    /\ log_sending = 0
    /\ log_task = [t \in LogTasks |-> NoTask]
    /\ log_todo = [l \in Loggers |-> <<>>] /\ log_of = [l \in Loggers |-> NoCall]
    /\ log_missed = {}

----------------------------------------------------------------------------
(* The filters.                                                            *)

\* A filter of a channel, in logger_task_callback.
FilterTakes(f, c) ==
    /\ c.sev <= f.sev
    /\ IF c.fac = 0 THEN f.mask # {} ELSE c.fac \in f.mask
    /\ c.prog => f.prog

Takes(channel, c) == \E f \in FiltersOf[channel] : FilterTakes(f, c)

SVC_LOGGER_WOULD_LOG(f, c) == c.sev <= f.sev /\ (c.fac = 0 \/ c.fac \in f.mask)

svc_logger_would_log(c) ==
    \/ SVC_LOGGER_WOULD_LOG(log_filter, c)
    \/ log_mem_on /\ ~log_mem.prog /\ SVC_LOGGER_WOULD_LOG(log_mem, c)

\* svc_logger_vlog_state and svc_logger_type_mem look at the severity WARNING,
\* whatever that of the message.
Would(c) ==
    IF c.kind = "vlog" THEN svc_logger_would_log(c)
    ELSE WARNING <= log_filter.sev \/ (log_mem_on /\ WARNING <= log_mem.sev)

MemoryTakes(c) ==
    /\ log_mem_on /\ c.kind # "put" /\ c.sev <= log_mem.sev
    /\ c.kind = "vlog" => ~c.prog /\ c.fac \in log_mem.mask

\* What the call schedules once it has made its task.
Sends(c) ==
    CASE c.kind = "put" -> TRUE
      [] c.kind = "state" -> REPORT <= log_filter.sev /\ log_channels # {}
      [] OTHER -> c.sev <= log_filter.sev

----------------------------------------------------------------------------
(* Channels, under the mutex.  The severity and the mask of the filter are *)
(* stored one after the other.                                             *)

Undue(x, due) == [i \in DOMAIN due |-> [due[i] EXCEPT !.due = @ \ {x}]]

svc_logger_channel_add(c) ==
    /\ log_editing.todo = <<>> /\ c \notin log_channels
    /\ log_channels' = log_channels \cup {c}
    /\ log_editing' = [todo |-> <<"sev", "mask">>, channel |-> c]
    /\ UNCHANGED <<log_filter, log_mem, log_mem_on, log_sending, log_task, log_todo, log_of, log_missed>>

svc_logger_channel_remove(c) ==
    /\ log_editing.todo = <<>> /\ c \in log_channels
    /\ log_channels' = log_channels \ {c}
    /\ log_editing' = [todo |-> <<"sev", "mask">>, channel |-> c]
    /\ log_task' = Undue(c, log_task) /\ log_of' = Undue(c, log_of)
    /\ UNCHANGED <<log_filter, log_mem, log_mem_on, log_sending, log_todo, log_missed>>

\* Mutant: only the first filter of each channel counts.
FirstFilters == {CHOOSE f \in FiltersOf[c] : TRUE : c \in log_channels}

\* The filters that count: those with a mask.
FiltersNow == {f \in UNION {FiltersOf[c] : c \in log_channels} : f.mask # {}}

severity_channel_available ==
    /\ log_editing.todo # <<>>
    /\ log_filter' =
         IF Head(log_editing.todo) = "sev"
         THEN [log_filter EXCEPT !.sev = Max({NEVER} \cup {f.sev : f \in FiltersNow})]
         ELSE [log_filter EXCEPT !.mask = UNION {f.mask : f \in FiltersNow}]
    /\ LET todo == Tail(log_editing.todo)
       IN  log_editing' = [todo |-> todo,
                           channel |-> IF todo = <<>> THEN "none" ELSE log_editing.channel]
    /\ UNCHANGED <<log_mem, log_mem_on, log_channels, log_sending, log_task, log_todo, log_of, log_missed>>

svc_logger_set_mem_filter(f) ==
    /\ log_mem' = f
    /\ log_task' = Undue("memory", log_task) /\ log_of' = Undue("memory", log_of)
    /\ UNCHANGED <<log_filter, log_mem_on, log_channels, log_editing, log_sending, log_todo, log_missed>>

----------------------------------------------------------------------------
(* svc_logger_type_vlog (and svc_logger_type_log, _printf, _vprintf),      *)
(* svc_logger_type_mem, svc_logger_vlog_state and svc_logger_put.          *)

\* The memory log is not due if its filter has the flag PROGRESS: then
\* svc_logger_would_log leaves it out.
DueTo(c) ==
    {channel \in log_channels \ {log_editing.channel} : Takes(channel, c)}
        \cup {x \in {"memory"} : MemoryTakes(c) /\ ~log_mem.prog}

svc_logger_call(l, c) ==
    /\ log_todo[l] = <<>>
    /\ log_todo' = [log_todo EXCEPT ![l] = Path[c.kind]]
    /\ log_of' = [log_of EXCEPT ![l] = [call |-> c, task |-> "none", due |-> DueTo(c)]]
    /\ UNCHANGED <<logFilters, log_sending, log_task, log_missed>>

At(l, step) == log_todo[l] # <<>> /\ Head(log_todo[l]) = step

Proceeds(l) == log_todo' = [log_todo EXCEPT ![l] = Tail(@)]

Returns(l) ==
    /\ log_todo' = [log_todo EXCEPT ![l] = <<>>]
    /\ log_of' = [log_of EXCEPT ![l] = NoCall]

Misses(l) == log_missed' = log_missed \cup {c \in {log_of[l].call} : log_of[l].due # {}}

LogWould(l) ==
    /\ At(l, "would")
    /\ IF Would(log_of[l].call) THEN Proceeds(l) /\ UNCHANGED <<log_of, log_missed>>
                                ELSE Returns(l) /\ Misses(l)
    /\ UNCHANGED <<logFilters, log_sending, log_task>>

\* E_TIMEOUT.
LogRoom(l) ==
    /\ At(l, "room")
    /\ IF log_sending < LOG_MAX THEN Proceeds(l) /\ UNCHANGED log_of ELSE Returns(l)
    /\ UNCHANGED <<logFilters, log_sending, log_task, log_missed>>

\* logger_create_task, then the memory log; without memory E_NOMEM.
LogMake(l) ==
    /\ At(l, "make")
    /\ LET c == log_of[l].call
       IN  \/ \E t \in LogTasks :
                 /\ log_task[t].state = "free"
                 /\ log_task' = [log_task EXCEPT ![t].state = "made"]
                 /\ log_of' = [log_of EXCEPT ![l].task = t,
                                  ![l].due = IF MemoryTakes(c) THEN @ \ {"memory"} ELSE @]
                 /\ Proceeds(l)
           \/ /\ \A t \in LogTasks : log_task[t].state # "free"
              /\ Returns(l) /\ UNCHANGED log_task
    /\ UNCHANGED <<logFilters, log_sending, log_missed>>

\* A message that is not sent is freed, but svc_logger_vlog_state keeps it
\* when only the memory log wanted it.
LogSend(l) ==
    /\ At(l, "send")
    /\ LET t == log_of[l].task
           c == log_of[l].call
       IN  IF Sends(c)
           THEN /\ log_task' = [log_task EXCEPT ![t] =
                                  [state |-> "queued", call |-> c, due |-> log_of[l].due]]
                /\ Proceeds(l) /\ UNCHANGED <<log_of, log_missed>>
           ELSE /\ log_task' = [log_task EXCEPT ![t] =
                                  IF c.kind = "state" /\ log_filter.sev < WARNING
                                  THEN [NoTask EXCEPT !.state = "leaked"] ELSE NoTask]
                /\ Returns(l) /\ Misses(l)
    /\ UNCHANGED <<logFilters, log_sending>>

\* Under os_sys_lock; what that is worth on posix is in SvcMessage.
LogCount(l) ==
    /\ At(l, "count")
    /\ log_sending' = log_sending + 1 /\ Returns(l)
    /\ UNCHANGED <<logFilters, log_task, log_missed>>

----------------------------------------------------------------------------
\* logger_task_callback: the channels that take the message, under the mutex.
LogShows(t) ==
    /\ log_task[t].state = "queued" /\ log_editing.todo = <<>>
    /\ LET told == {channel \in log_channels : Takes(channel, log_task[t].call)}
       IN  log_missed' = log_missed \cup {c \in {log_task[t].call} : log_task[t].due \ told # {}}
    /\ log_task' = [log_task EXCEPT ![t] = [NoTask EXCEPT !.state = "shown"]]
    /\ UNCHANGED <<logFilters, log_sending, log_todo, log_of>>

\* Counted off and freed.
LogFrees(t) ==
    /\ log_task[t].state = "shown"
    /\ log_task' = [log_task EXCEPT ![t] = NoTask] /\ log_sending' = log_sending - 1
    /\ UNCHANGED <<logFilters, log_todo, log_of, log_missed>>

LoggerNext ==
    \/ \E c \in LogChannels : svc_logger_channel_add(c) \/ svc_logger_channel_remove(c)
    \/ severity_channel_available
    \/ \E f \in MemFilters : svc_logger_set_mem_filter(f)
    \/ \E l \in Loggers, c \in LogCalls : svc_logger_call(l, c)
    \/ \E l \in Loggers : LogWould(l) \/ LogRoom(l) \/ LogMake(l) \/ LogSend(l) \/ LogCount(l)
    \/ \E t \in LogTasks : LogShows(t) \/ LogFrees(t)

LoggerSpec == svc_logger_init /\ [][LoggerNext]_loggerVars

\* A message that there was room and memory for reaches every channel whose
\* filter takes it and that stays registered, and the memory log likewise: the
\* filter that turns messages away early, recomputed by others meanwhile,
\* never turns away what a channel wants.  Not so svc_logger_vlog_state, which
\* wants a channel for reports, nor svc_logger_type_mem for what is more severe
\* than a warning.
LogReaches ==
    \A c \in log_missed : c.kind = "state" \/ (c.kind = "mem" /\ c.sev < WARNING)
=============================================================================
