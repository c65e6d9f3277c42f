------------------------------ MODULE OsEvents -------------------------------
(***************************************************************************)
(* One event group (os_event) on each port: threads wait for any or all of *)
(* a mask of flags and may clear what they waited for, others signal and   *)
(* clear flags.  On posix a waiting thread looks again when it is woken;   *)
(* the other kernels decide in the signal itself, for all who wait.        *)
(***************************************************************************)
EXTENDS OsPort

CONSTANTS
    Flags,      \* the flags of the group
    Waiters,    \* the threads that wait
    Calls       \* [mask, clear, all]: the waits of the callers; clear is the
                \* set of flags that clear_on_exit denotes as a number

VARIABLES
    flags,      \* the flags that are set
    unseen,     \* history: signalled, and neither returned nor cleared since
    call,       \* the last call of each waiter
    sleeping,     \* each waiter: "no" | "forever" | "timed" | "clearing"
    ret         \* what its last call returned

eventVars == <<port, flags, unseen, call, sleeping, ret>>

Satisfied(c, set) == IF c.all THEN c.mask \subseteq set ELSE c.mask \cap set # {}

EventInit ==
    /\ port \in Ports
    /\ flags = {} /\ unseen = {}
    /\ call \in [Waiters -> {CHOOSE c \in Calls : TRUE}]
    /\ sleeping = [w \in Waiters |-> "no"] /\ ret = [w \in Waiters |-> {}]

\* Zephyr takes "all" for "reset": the wait clears the group, then waits for
\* any flag.
os_event_wait(w, c, how) ==
    /\ sleeping[w] = "no"
    /\ call' = [call EXCEPT ![w] = c] /\ sleeping' = [sleeping EXCEPT ![w] = how]
    /\ flags' = IF port = "zephyr" /\ c.all THEN {} ELSE flags
    /\ UNCHANGED <<port, unseen, ret>>

\* Mutant: posix clears the whole mask, with flags that others wait for.
PosixClearsAll(c, set) == [ret |-> c.mask \cap set, clears |-> Flags]

\* What a satisfied wait returns, and what it clears, when set is the group.
posix_result(c, set)    == [ret |-> c.mask \cap set, clears |-> c.mask \cap set]
freertos_result(c, set) == [ret |-> set, clears |-> c.mask]
threadx_result(c, set)  == [ret |-> set, clears |-> c.mask]
zephyr_result(c, set)   == [ret |-> c.mask \cap set, clears |-> {}]

Result(c, set) == CASE port = "posix"    -> posix_result(c, set)
                    [] port = "freertos" -> freertos_result(c, set)
                    [] port = "threadx"  -> threadx_result(c, set)
                    [] port = "zephyr"   -> zephyr_result(c, set)

\* The calls that set satisfies, out of those that wait.
Woken(set) == {w \in Waiters : sleeping[w] \in {"forever", "timed"}
                /\ Satisfied([call[w] EXCEPT !.all = @ /\ port # "zephyr"], set)}

\* Those in W return together: each sees the group before any of them clears.
Return(W, set) ==
    LET cleared == UNION {Result(call[w], set).clears : w \in {v \in W : call[v].clear # {}}}
        seen    == UNION {Result(call[w], set).ret \cap call[w].mask : w \in W}
    IN  /\ flags' = set \ cleared
        /\ ret' = [w \in Waiters |-> IF w \in W THEN Result(call[w], set).ret ELSE ret[w]]
        /\ sleeping' = [w \in Waiters |->
              IF w \notin W THEN sleeping[w]
              ELSE IF port = "zephyr" /\ call[w].clear # {} THEN "clearing" ELSE "no"]
        /\ UNCHANGED <<port, call>>
        /\ unseen' = (unseen \cup (set \ flags)) \ seen

\* A wait that finds its flags does not sleep; on posix it looks whenever it
\* has the mutex.
Looks(w) == w \in Woken(flags) /\ Return({w}, flags)

os_event_signal(mask) ==
    IF port = "posix"
    THEN /\ flags' = flags \cup mask /\ unseen' = unseen \cup mask
         /\ UNCHANGED <<port, call, sleeping, ret>>
    ELSE Return(Woken(flags \cup mask), flags \cup mask)

\* Zephyr clears what clear_on_exit denotes, in a call of its own.
zephyr_clear(w) ==
    /\ sleeping[w] = "clearing"
    /\ flags' = flags \ call[w].clear
    /\ sleeping' = [sleeping EXCEPT ![w] = "no"]
    /\ UNCHANGED <<port, unseen, call, ret>>

\* A wait of FreeRTOS that runs out of time returns the group as it is.
os_event_wait_timeout(w) ==
    /\ sleeping[w] = "timed" /\ w \notin Woken(flags)
    /\ sleeping' = [sleeping EXCEPT ![w] = "no"]
    /\ ret' = [ret EXCEPT ![w] = IF port = "freertos" THEN flags ELSE {}]
    /\ UNCHANGED <<port, flags, unseen, call>>

os_event_clear(mask) ==
    /\ flags' = flags \ mask /\ unseen' = unseen \ mask
    /\ UNCHANGED <<port, call, sleeping, ret>>

EventNext ==
    \/ \E w \in Waiters, c \in Calls, how \in {"forever", "timed"} : os_event_wait(w, c, how)
    \/ \E w \in Waiters : Looks(w) \/ zephyr_clear(w) \/ os_event_wait_timeout(w)
    \/ \E f \in Flags : os_event_signal({f}) \/ os_event_clear({f})

EventSpec == EventInit /\ [][EventNext]_eventVars

\* A signalled flag stays until a wait has returned it or somebody clears it:
\* no interleaving of waits that clear, signals and timeouts loses one.  Not
\* on Zephyr, where a wait clears after it has returned, and not what it
\* returned.
NoLostSignal == port # "zephyr" => unseen \subseteq flags
=============================================================================
