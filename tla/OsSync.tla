------------------------------- MODULE OsSync --------------------------------
(***************************************************************************)
(* The objects of the os_mutex, os_sem, os_bsem, os_event and os_timer     *)
(* interfaces: how they are made and unmade on each port, with what fails  *)
(* halfway, and the tokens of the semaphores, with a reset that races with *)
(* waits and signals.                                                      *)
(***************************************************************************)
EXTENDS OsPort, TLC

CONSTANTS
    Users,      \* the threads that use the object
    TokenMax,   \* bound on the tokens given since the last reset
    CountMax    \* the largest count a reset asks for

Kinds == {"mutex", "sem", "bsem", "event", "timer"}

VARIABLES
    kind,       \* what the object is
    held,       \* its memory: "none" | "heap" | "static"
    ref,        \* the handle: "null" | "set" | "dangling"
    made,       \* the kernel has an object there
    count,
    given, taken,   \* history: tokens since the object was made or reset
    waiting,    \* each user: "no" | "forever" | "timed" | "stranded" | "lapsing"
    remaking,   \* a reset has deleted the semaphore
    pending     \* the tokens a reset still has to give

syncVars == <<port, kind, held, ref, made, count, given, taken, waiting, remaking, pending>>
memory == <<port, kind, held, ref, made>>

----------------------------------------------------------------------------
(* What a failed creation leaves ("clean": nothing; "kept": memory and     *)
(* handle; "dangling": the handle alone; "never": it does not fail), what  *)
(* deinit and delete leave in the handle, how a semaphore is reset, and    *)
(* the largest count of it (0: no limit).                                  *)

Object(fails, deinit, delete) == [fails |-> fails, deinit |-> deinit, delete |-> delete]
Semaphore(fails, reset, top) == Object(fails, "set", "null") @@ [reset |-> reset, top |-> top]

posix_mutex == Object("dangling", "null", "null")
posix_sem   == Semaphore("kept", "inplace", 0)
posix_bsem  == Semaphore("kept", "inplace", 0)
\* Mutant: the handle is kept of an event that could not be initialised.
PosixEventKept == Object("dangling", "set", "null")

posix_event == Object("clean", "set", "null")
posix_timer == Object("clean", "set", "null")

freertos_mutex == Object("clean", "set", "null")
freertos_sem   == Semaphore("clean", "gives", 0)
freertos_bsem  == Semaphore("clean", "empties", 1)
freertos_event == Object("clean", "set", "null")
freertos_timer == Object("clean", "set", "dangling")

threadx_mutex == Object("kept", "set", "null")
threadx_sem   == Semaphore("kept", "remakes", 0)
threadx_bsem  == Semaphore("kept", "remakes", 1)
threadx_event == Object("kept", "set", "null")
threadx_timer == Object("kept", "set", "null")

zephyr_mutex == Object("clean", "set", "null")
zephyr_sem   == Semaphore("clean", "inplace", 0)
zephyr_bsem  == Semaphore("clean", "inplace", 1)
zephyr_event == Object("clean", "set", "null")
zephyr_timer == Object("clean", "set", "null")

Traits == [
    posix    |-> [mutex |-> posix_mutex, sem |-> posix_sem, bsem |-> posix_bsem,
                  event |-> posix_event, timer |-> posix_timer],
    freertos |-> [mutex |-> freertos_mutex, sem |-> freertos_sem, bsem |-> freertos_bsem,
                  event |-> freertos_event, timer |-> freertos_timer],
    threadx  |-> [mutex |-> threadx_mutex, sem |-> threadx_sem, bsem |-> threadx_bsem,
                  event |-> threadx_event, timer |-> threadx_timer],
    zephyr   |-> [mutex |-> zephyr_mutex, sem |-> zephyr_sem, bsem |-> zephyr_bsem,
                  event |-> zephyr_event, timer |-> zephyr_timer]]

Trait == Traits[port][kind]
IsSem == kind \in {"sem", "bsem"}

----------------------------------------------------------------------------
SyncInit ==
    /\ port \in Ports /\ kind \in Kinds
    /\ held = "none" /\ ref = "null" /\ made = FALSE
    /\ count = 0 /\ given = 0 /\ taken = 0
    /\ waiting = [u \in Users |-> "no"] /\ remaking = FALSE /\ pending = 0

Tokens == <<count, given, taken, waiting, remaking, pending>>
Start(n) == count' = n /\ given' = n /\ taken' = 0

Asked == IF kind = "sem" THEN 0 .. CountMax ELSE IF kind = "bsem" THEN 0 .. 1 ELSE {0}

Create ==
    /\ held = "none"
    /\ \E n \in Asked : Start(n)
    /\ held' = "heap" /\ ref' = "set" /\ made' = TRUE
    /\ UNCHANGED <<port, kind, waiting, remaking, pending>>

CreateFails ==
    /\ held = "none"
    /\ \/ UNCHANGED <<held, ref>>           \* no memory
       \/ Trait.fails = "kept" /\ held' = "heap" /\ ref' = "set"
       \/ Trait.fails = "dangling" /\ ref' = "dangling" /\ UNCHANGED held
    /\ UNCHANGED <<port, kind, made, Tokens>>

\* An object whose user has the memory for it.
InitStatic ==
    /\ ~made /\ held \in {"none", "static"} /\ (held = "static" => ref = "set")
    /\ \E n \in Asked : Start(n)
    /\ held' = "static" /\ ref' = "set" /\ made' = TRUE
    /\ UNCHANGED <<port, kind, waiting, remaking, pending>>

Unused == (\A u \in Users : waiting[u] = "no") /\ ~remaking /\ pending = 0

Delete ==
    /\ held = "heap" /\ Unused
    /\ held' = "none" /\ ref' = Trait.delete /\ made' = FALSE
    /\ UNCHANGED <<port, kind, Tokens>>

Deinit ==
    /\ held = "static" /\ made /\ Unused
    /\ ref' = Trait.deinit /\ made' = FALSE
    /\ held' = IF ref' = "null" THEN "none" ELSE held
    /\ UNCHANGED <<port, kind, Tokens>>

----------------------------------------------------------------------------
(* Semaphores.                                                             *)

Usable == made /\ kind \in {"sem", "bsem"}

Wait(u, how) ==
    /\ Usable /\ ~remaking /\ waiting[u] = "no"
    /\ waiting' = [waiting EXCEPT ![u] = how]
    /\ UNCHANGED <<memory, count, given, taken, remaking, pending>>

WaitTakes(u) ==
    /\ waiting[u] \in {"forever", "timed"} /\ count > 0
    /\ waiting' = [waiting EXCEPT ![u] = "no"]
    /\ count' = count - 1 /\ taken' = taken + 1
    /\ UNCHANGED <<memory, given, remaking, pending>>

TokenWaitTimesOut(u) ==
    /\ waiting[u] = "lapsing" \/ (waiting[u] = "timed" /\ count = 0)
    /\ waiting' = [waiting EXCEPT ![u] = "no"]
    /\ UNCHANGED <<memory, count, given, taken, remaking, pending>>

Give == count' = IF Trait.top = 1 THEN 1 ELSE count + 1

\* While a reset remakes the semaphore there is none to signal.
Signal ==
    /\ Usable /\ given < TokenMax
    /\ IF remaking THEN UNCHANGED <<count, given>> ELSE Give /\ given' = given + 1
    /\ UNCHANGED <<memory, taken, waiting, remaking, pending>>

\* posix and Zephyr initialise the semaphore where it is and forget who waits.
ResetInplace(n) ==
    /\ Trait.reset = "inplace" /\ Start(n)
    /\ waiting' = [u \in Users |-> CASE waiting[u] = "forever" -> "stranded"
                                      [] waiting[u] = "timed" -> "lapsing"
                                      [] OTHER -> waiting[u]]
    /\ UNCHANGED <<remaking, pending>>

\* Mutant: the tokens of the reset come on top of those that were there.
ResetKeeps(n) ==
    /\ Trait.reset \in {"gives", "empties"}
    /\ count' = count /\ given' = 0 /\ taken' = 0
    /\ pending' = IF Trait.reset = "gives" THEN n ELSE 0
    /\ UNCHANGED <<waiting, remaking>>

\* FreeRTOS empties it, then gives the tokens one by one; for a binary one
\* the second part is missing.
ResetGives(n) ==
    /\ Trait.reset \in {"gives", "empties"} /\ Start(0)
    /\ pending' = IF Trait.reset = "gives" THEN n ELSE 0
    /\ UNCHANGED <<waiting, remaking>>

\* ThreadX deletes it, which lets those go who wait, and creates it again.
ResetRemakes(n) ==
    /\ Trait.reset = "remakes" /\ Start(0)
    /\ waiting' = [u \in Users |-> "no"] /\ remaking' = TRUE /\ pending' = n

Reset(n) ==
    /\ Usable /\ ~remaking /\ pending = 0
    /\ ResetInplace(n) \/ ResetGives(n) \/ ResetRemakes(n)
    /\ UNCHANGED memory

ResetContinues ==
    /\ pending > 0 \/ remaking
    /\ IF remaking THEN Start(pending) /\ pending' = 0
       ELSE Give /\ given' = given + 1 /\ pending' = pending - 1 /\ UNCHANGED taken
    /\ remaking' = FALSE
    /\ UNCHANGED <<memory, waiting>>

SyncNext ==
    \/ Create \/ CreateFails \/ InitStatic \/ Delete \/ Deinit
    \/ \E u \in Users : WaitTakes(u) \/ TokenWaitTimesOut(u)
    \/ \E u \in Users, how \in {"forever", "timed"} : Wait(u, how)
    \/ Signal \/ ResetContinues
    \/ \E n \in Asked : Reset(n)

SyncSpec == SyncInit /\ [][SyncNext]_syncVars

\* A handle is what its owner knows of the memory: memory from the heap is
\* never without a handle, and a handle without memory is left in two places
\* only, when posix cannot initialise a mutex it has allocated and when
\* FreeRTOS deletes a timer.
HandleTruth ==
    /\ held = "heap" => ref = "set"
    /\ held = "none" => \/ ref = "null"
                        \/ port = "posix" /\ kind = "mutex"
                        \/ port = "freertos" /\ kind = "timer"

\* However waits, signals and a reset interleave, no wait succeeds on a token
\* that nobody gave since the reset, and a binary semaphore holds one at most,
\* except on posix, where it counts.
NoTokenFromNothing ==
    /\ count + taken <= given
    /\ kind = "bsem" /\ port # "posix" => count <= 1
=============================================================================
