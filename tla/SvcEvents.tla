------------------------------ MODULE SvcEvents ------------------------------
(***************************************************************************)
(* Events (src/svc/svc_events.c): anybody signals an event, also from an   *)
(* interrupt; one thread of the highest priority takes what is signalled   *)
(* and calls the handlers of each event, under a recursive mutex that      *)
(* registering and unregistering need too.                                 *)
(***************************************************************************)
EXTENDS OsPort

CONSTANTS
    EventIds,       \* identifiers of events; stopping signals event 0
    Handlers,
    EventOf         \* the event each handler listens to

VARIABLES
    ev_signals,     \* the flags of _svc_events_event
    ev_stop,        \* _events_stop
    ev_stack,       \* _svc_events_handler_stack
    ev_thread,      \* where the thread is
    ev_set,         \* events: what the thread has still to handle
    ev_walk,        \* the handlers it has still to call for the first of them
    ev_halting,     \* svc_events_stop has set the flag and not yet signalled
    ev_owed,        \* history: handlers to be called for a signal
    ev_fresh,       \* history: events signalled and not taken since
    ev_cause        \* history: ev_fresh when the thread took its events

svcEventVars == <<port, ev_signals, ev_stop, ev_stack, ev_thread, ev_set, ev_walk,
                  ev_halting, ev_owed, ev_fresh, ev_cause>>
evHistory == <<ev_owed, ev_fresh, ev_cause>>

svc_events_init ==
    /\ port \in Ports
    /\ ev_signals = {} /\ ev_stop = FALSE
    /\ ev_stack = [e \in EventIds |-> <<>>]
    /\ ev_thread = "none" /\ ev_set = {} /\ ev_walk = <<>> /\ ev_halting = FALSE
    /\ ev_owed = {} /\ ev_fresh = {} /\ ev_cause = {}

----------------------------------------------------------------------------
\* The thread of the last start has ended: it has a static working area.
svc_events_start ==
    /\ ev_thread = "none" /\ ~ev_halting
    /\ ev_stop' = FALSE /\ ev_thread' = "test"
    /\ UNCHANGED <<port, ev_signals, ev_stack, ev_set, ev_walk, ev_halting, evHistory>>

Signalled(e) ==
    /\ ev_signals' = ev_signals \cup {e} /\ ev_fresh' = ev_fresh \cup {e}
    /\ ev_owed' = IF ev_stop \/ ev_thread = "none" THEN ev_owed
                  ELSE ev_owed \cup {h \in Handlers : \E i \in 1 .. Len(ev_stack[e]) : ev_stack[e][i] = h}
    /\ UNCHANGED <<port, ev_stop, ev_stack, ev_thread, ev_set, ev_walk, ev_cause>>

\* svc_events_signal and svc_events_signal_isr.
svc_events_signal(e) == Signalled(e) /\ UNCHANGED ev_halting

svc_events_stop ==
    /\ ~ev_stop
    /\ ev_stop' = TRUE /\ ev_halting' = TRUE /\ ev_owed' = {}
    /\ UNCHANGED <<port, ev_signals, ev_stack, ev_thread, ev_set, ev_walk, ev_fresh, ev_cause>>

StopSignals == ev_halting /\ ev_halting' = FALSE /\ Signalled(0)

----------------------------------------------------------------------------
\* The mutex is recursive: a handler may change the stacks while it is called.
MayChange == ev_thread # "walk"

Without(stack, h) == SelectSeq(stack, LAMBDA x : x # h)

svc_events_register(h) ==
    /\ MayChange
    /\ ev_stack' = [ev_stack EXCEPT ![EventOf[h]] = <<h>> \o Without(@, h)]
    /\ UNCHANGED <<port, ev_signals, ev_stop, ev_thread, ev_set, ev_walk, ev_halting, evHistory>>

\* Mutant: a handler is unregistered without the mutex.
UnregisterUnlocked(h) ==
    /\ ev_stack' = [ev_stack EXCEPT ![EventOf[h]] = Without(@, h)]
    /\ ev_owed' = ev_owed \ {h}
    /\ UNCHANGED <<port, ev_signals, ev_stop, ev_thread, ev_set, ev_walk, ev_halting,
                   ev_fresh, ev_cause>>

svc_events_unregister(h) ==
    /\ MayChange
    /\ ev_stack' = [ev_stack EXCEPT ![EventOf[h]] = Without(@, h)]
    /\ ev_owed' = ev_owed \ {h}
    /\ UNCHANGED <<port, ev_signals, ev_stop, ev_thread, ev_set, ev_walk, ev_halting,
                   ev_fresh, ev_cause>>

----------------------------------------------------------------------------
(* svc_events_thread.                                                      *)

ThreadTests ==
    /\ ev_thread = "test"
    /\ ev_thread' = IF ev_stop THEN "none" ELSE "wait"
    /\ UNCHANGED <<port, ev_signals, ev_stop, ev_stack, ev_set, ev_walk, ev_halting, evHistory>>

\* Mutant: the wait takes the lowest event and clears them all.
TakesFirst ==
    /\ ev_thread = "wait" /\ ev_signals # {}
    /\ ev_set' = {Lowest(ev_signals)}
    /\ ev_signals' = {} /\ ev_thread' = "lock"
    /\ ev_cause' = ev_fresh /\ ev_fresh' = ev_fresh \ ev_signals
    /\ UNCHANGED <<port, ev_stop, ev_stack, ev_walk, ev_halting, ev_owed>>

\* os_event_wait (&_svc_events_event, 1, ~0, 0): all that is signalled, and
\* cleared; the Zephyr port clears event 0 instead (clear_on_exit is 1), after
\* the wait.
ThreadTakes ==
    /\ ev_thread = "wait" /\ ev_signals # {}
    /\ ev_set' = ev_signals
    /\ IF port = "zephyr" THEN ev_thread' = "clear" /\ UNCHANGED ev_signals
                          ELSE ev_thread' = "lock" /\ ev_signals' = {}
    /\ ev_cause' = ev_fresh /\ ev_fresh' = ev_fresh \ ev_signals
    /\ UNCHANGED <<port, ev_stop, ev_stack, ev_walk, ev_halting, ev_owed>>

ZephyrClears ==
    /\ ev_thread = "clear"
    /\ ev_signals' = ev_signals \ {0} /\ ev_thread' = "lock"
    /\ UNCHANGED <<port, ev_stop, ev_stack, ev_set, ev_walk, ev_halting, evHistory>>

\* The mutex is taken or kept, and the next event is looked up; without one,
\* or once the thread is told to stop, the mutex is released.
ThreadLooks ==
    /\ ev_thread = "lock" \/ (ev_thread = "walk" /\ ev_walk = <<>>)
    /\ IF ev_set = {} \/ ev_stop
       THEN ev_thread' = "test" /\ ev_set' = {} /\ ev_walk' = <<>>
       ELSE /\ ev_thread' = "walk" /\ ev_walk' = ev_stack[Lowest(ev_set)]
            /\ ev_set' = ev_set \ {Lowest(ev_set)}
    /\ UNCHANGED <<port, ev_signals, ev_stop, ev_stack, ev_halting, evHistory>>

\* start->fp (eid, start->ctx), which may take its handler off the stack:
\* what follows it is read afterwards, from the handler that was taken off.
ThreadCalls ==
    /\ ev_thread = "walk" /\ ev_walk # <<>>
    /\ LET h == Head(ev_walk)
       IN  /\ ev_owed' = ev_owed \ {h}
           /\ \/ UNCHANGED ev_stack
              \/ ev_stack' = [ev_stack EXCEPT ![EventOf[h]] = Without(@, h)]
    /\ ev_walk' = Tail(ev_walk)
    /\ UNCHANGED <<port, ev_signals, ev_stop, ev_thread, ev_set, ev_halting, ev_fresh, ev_cause>>

svc_events_thread == ThreadTests \/ ThreadTakes \/ ZephyrClears \/ ThreadLooks \/ ThreadCalls

SvcEventNext ==
    \/ svc_events_start \/ svc_events_stop \/ StopSignals
    \/ \E e \in EventIds : svc_events_signal(e)
    \/ \E h \in Handlers : svc_events_register(h) \/ svc_events_unregister(h)
    \/ svc_events_thread

SvcEventSpec == svc_events_init /\ [][SvcEventNext]_svcEventVars

\* A handler that is registered when its event is signalled is called, unless
\* it is unregistered or the events are stopped: the thread never sleeps while
\* a handler is owed a call, however signals interleave with the wait, the
\* walk, a stop and a start.  On Zephyr event 0 is cleared after the wait and
\* may be lost.
EventDelivered ==
    ev_thread = "wait" /\ ev_signals = {}
        => \A h \in ev_owed : port = "zephyr" /\ EventOf[h] = 0

\* A handler is called only while it is registered, so that whoever has
\* unregistered it may free it; and only for an event that was signalled since
\* the thread last took it, except on Zephyr, which never clears the others.
CalledForCause ==
    [][\A h \in Handlers :
          (ev_thread = "walk" /\ ev_walk # <<>> /\ Head(ev_walk) = h /\ ev_walk' = Tail(ev_walk))
          => /\ \E i \in 1 .. Len(ev_stack[EventOf[h]]) : ev_stack[EventOf[h]][i] = h
             /\ port = "zephyr" \/ EventOf[h] \in ev_cause]_svcEventVars
=============================================================================
