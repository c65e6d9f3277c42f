----------------------------- MODULE SvcMessage ------------------------------
(***************************************************************************)
(* Messages (src/svc/svc_message.c): a message is a task on the heap.      *)
(* Posting it schedules the task; a worker of svc_tasks runs its callback, *)
(* which shows it to the channels that match, counts it off and frees it.  *)
(* A counter bounds what is in flight.  Several workers may run callbacks. *)
(***************************************************************************)
EXTENDS OsPort

CONSTANTS
    Posters,        \* threads that create and post messages
    Messages,       \* the heap: messages that can exist at once
    Modules,
    MsgChannels,
    ModulesOf,      \* the modules in the filters of each channel
    MSG_MAX,        \* SVC_MESSAGE_MAX_QUEUE_SIZE
    DriftMax        \* bound on what the counter may have gained on posix

VARIABLES
    msg_filter,     \* _message_filter.mask
    msg_channels,   \* _message_channels
    msg_sending,    \* _message_sending
    msg_task,       \* each message: "free" | "posted" | "queued" | "shown"
    msg_at,         \* each poster: where it is in svc_message_post
    msg_of,         \* the message it posts, and the module of that
    msg_editing,    \* the list of channels was changed, the filter not yet
    msg_loaded      \* posix: what was read of the counter to change it

messageVars == <<port, msg_filter, msg_channels, msg_sending, msg_task, msg_at, msg_of,
                 msg_editing, msg_loaded>>
msgChannels == <<msg_filter, msg_channels, msg_editing>>
msgPosts == <<msg_task, msg_at, msg_of>>
msgCount == <<msg_sending, msg_loaded>>

NoMessage == [message |-> "none", module |-> 0]

NotLoaded == MSG_MAX + Cardinality(Messages) + 1

svc_message_init ==
    /\ port \in Ports
    /\ msg_filter = {} /\ msg_channels = {} /\ msg_editing = FALSE
    /\ msg_sending = 0 /\ msg_loaded = [x \in Posters \cup Messages |-> NotLoaded]
    /\ msg_task = [m \in Messages |-> "free"]
    /\ msg_at = [p \in Posters |-> "idle"]
    /\ msg_of = [p \in Posters |-> NoMessage]

----------------------------------------------------------------------------
(* Channels, under the mutex.                                              *)

EditChannels(new) ==
    /\ ~msg_editing
    /\ msg_channels' = new /\ msg_editing' = TRUE
    /\ UNCHANGED <<port, msg_filter, msgPosts, msgCount>>

svc_message_channel_add(c) == c \notin msg_channels /\ EditChannels(msg_channels \cup {c})
svc_message_channel_remove(c) == c \in msg_channels /\ EditChannels(msg_channels \ {c})

message_channel_available ==
    /\ msg_editing
    /\ msg_filter' = UNION {ModulesOf[c] : c \in msg_channels} /\ msg_editing' = FALSE
    /\ UNCHANGED <<port, msg_channels, msgPosts, msgCount>>

----------------------------------------------------------------------------
(* os_sys_lock (); _message_sending += by; os_sys_unlock (): the lock does *)
(* nothing on posix.                                                       *)

Load(x) ==
    /\ port = "posix" /\ msg_loaded[x] = NotLoaded
    /\ msg_sending \in -Cardinality(Posters) .. MSG_MAX + DriftMax
    /\ msg_loaded' = [msg_loaded EXCEPT ![x] = msg_sending]
    /\ UNCHANGED <<port, msgChannels, msgPosts, msg_sending>>

Counts(x, by) ==
    /\ IF port = "posix" THEN msg_loaded[x] # NotLoaded /\ msg_sending' = msg_loaded[x] + by
                         ELSE msg_sending' = msg_sending + by
    /\ msg_loaded' = [msg_loaded EXCEPT ![x] = NotLoaded]

----------------------------------------------------------------------------
(* svc_message_create and svc_message_post.                                *)

PostGoes(p, place) ==
    /\ msg_at' = [msg_at EXCEPT ![p] = place]
    /\ msg_of' = IF place = "idle" THEN [msg_of EXCEPT ![p] = NoMessage] ELSE msg_of
    /\ UNCHANGED <<port, msgChannels>>

Frees(p) == msg_task' = [msg_task EXCEPT ![msg_of[p].message] = "free"]

svc_message_create(p, m, module) ==
    /\ msg_at[p] = "idle" /\ msg_task[m] = "free"
    /\ msg_task' = [msg_task EXCEPT ![m] = "posted"]
    /\ msg_of' = [msg_of EXCEPT ![p] = [message |-> m, module |-> module]]
    /\ msg_at' = [msg_at EXCEPT ![p] = "filter"]
    /\ UNCHANGED <<port, msgChannels, msgCount>>

svc_message_would_post(p) ==
    /\ msg_at[p] = "filter"
    /\ IF msg_of[p].module \in msg_filter
       THEN PostGoes(p, "room") /\ UNCHANGED msg_task
       ELSE PostGoes(p, "idle") /\ Frees(p)
    /\ UNCHANGED msgCount

\* Mutant: the limit is only met once it is exceeded.
PostLooksLate(p) ==
    /\ msg_at[p] = "room"
    /\ IF msg_sending <= MSG_MAX
       THEN PostGoes(p, "schedule") /\ UNCHANGED msg_task
       ELSE PostGoes(p, "idle") /\ Frees(p)
    /\ UNCHANGED msgCount

PostLooks(p) ==
    /\ msg_at[p] = "room"
    /\ IF msg_sending < MSG_MAX
       THEN PostGoes(p, "schedule") /\ UNCHANGED msg_task
       ELSE PostGoes(p, "idle") /\ Frees(p)
    /\ UNCHANGED msgCount

\* A message that was just created is not queued: scheduling cannot fail.
PostSchedules(p) ==
    /\ msg_at[p] = "schedule" /\ PostGoes(p, "count")
    /\ msg_task' = [msg_task EXCEPT ![msg_of[p].message] = "queued"]
    /\ UNCHANGED msgCount

PostCounts(p) ==
    /\ msg_at[p] = "count" /\ PostGoes(p, "idle")
    /\ Counts(p, 1) /\ UNCHANGED msg_task

----------------------------------------------------------------------------
(* message_task_callback, on a worker.                                     *)

TaskGoes(m, state) ==
    /\ msg_task' = [msg_task EXCEPT ![m] = state]
    /\ UNCHANGED <<port, msgChannels, msg_at, msg_of>>

\* Mutant: it is counted off when it is shown, and again when it is freed.
CountsTwice(m) ==
    /\ msg_task[m] = "queued" /\ ~msg_editing
    /\ TaskGoes(m, "shown") /\ msg_sending' = msg_sending - 1 /\ UNCHANGED msg_loaded

\* Shown, under the mutex, to the channels that match.
CallbackShows(m) ==
    /\ msg_task[m] = "queued" /\ ~msg_editing
    /\ TaskGoes(m, "shown") /\ UNCHANGED msgCount

\* Counted off, completed and freed.
CallbackCounts(m) ==
    /\ msg_task[m] = "shown"
    /\ TaskGoes(m, "free") /\ Counts(m, -1)

----------------------------------------------------------------------------
\* A wait for all ends when nothing is in flight or its time is up; the count
\* is read again for the result.
svc_message_wait_all == IF msg_sending = 0 THEN "EOK" ELSE "EFAIL"

MessageNext ==
    \/ \E c \in MsgChannels : svc_message_channel_add(c) \/ svc_message_channel_remove(c)
    \/ message_channel_available
    \/ \E p \in Posters, m \in Messages, module \in Modules : svc_message_create(p, m, module)
    \/ \E p \in Posters : \/ svc_message_would_post(p) \/ PostLooks(p)
                          \/ PostSchedules(p) \/ PostCounts(p)
                          \/ msg_at[p] = "count" /\ Load(p)
    \/ \E m \in Messages : \/ CallbackShows(m) \/ CallbackCounts(m)
                           \/ msg_task[m] = "shown" /\ Load(m)

MessageSpec == svc_message_init /\ [][MessageNext]_messageVars

InFlight == {m \in Messages : msg_task[m] \in {"queued", "shown"}}

\* The counter is raised after the task was scheduled, so it understates what
\* is in flight and may be -1; still no more than the limit are in flight,
\* and one for each other thread that is posting.  On posix the counter may
\* lose changes.
InFlightBound ==
    port # "posix" => Cardinality(InFlight) <= MSG_MAX + Cardinality(Posters) - 1

\* When svc_message_wait_all says that everything was delivered it was, except
\* while a thread is between scheduling its message and counting it: then the
\* count is one short, and another thread's message may still be queued.
WaitedForAll ==
    port # "posix" /\ svc_message_wait_all = "EOK"
        => InFlight = {} \/ \E p \in Posters : msg_at[p] = "count"
=============================================================================
