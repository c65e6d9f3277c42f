----------------------------- MODULE MCSvcTasks -----------------------------
EXTENDS SvcTasks

\* Queues (and their workers), clients and tasks of one kind are interchangeable.
Symmetry ==
    Permutations(Queues) \cup Permutations(Clients)
=============================================================================
