------------------------------- MODULE OsPort --------------------------------
(***************************************************************************)
(* The operating system the library was built for.  src/os.c holds the     *)
(* FreeRTOS and the ThreadX port (the ChibiOS port in the same file does   *)
(* not compile), src/os_posix.c and src/os_zephyr.c one port each.  The    *)
(* Os modules model every port: the port is chosen in the initial state    *)
(* and never changes.                                                      *)
(***************************************************************************)
EXTENDS Integers, FiniteSets, Sequences

VARIABLE port

Ports == {"posix", "freertos", "threadx", "zephyr"}

Rtos == {"freertos", "threadx"}

\* The lowest bit, index or number of a set.
Lowest(S) == CHOOSE i \in S : \A j \in S : i <= j
=============================================================================
